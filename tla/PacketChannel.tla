---------------------------- MODULE PacketChannel ----------------------------
(***************************************************************************)
(* What NetworkManager::Send promises about one connection: packets leave    *)
(* in the order in which they were handed over, each at most once, and none  *)
(* after the socket is closed.  Packets are lost only from the front of the   *)
(* queue, together, and only once something broke that makes some thread      *)
(* close the socket.                                                         *)
(*                                                                          *)
(* Nothing is promised between the break and the close: packets behind the    *)
(* lost ones may still leave.                                                *)
(***************************************************************************)
EXTENDS Naturals, Sequences

CONSTANT Packets

VARIABLES
    pending,   \* handed over and not yet given to the system
    wire,      \* what the system took, in this order
    open,      \* the socket is open
    broken     \* some thread is going to close the socket, or it is closed

vars == <<pending, wire, open, broken>>

Init ==
    /\ pending = <<>>
    /\ wire = <<>>
    /\ open = TRUE
    /\ broken = FALSE

\* A packet too many breaks the connection.
Put(p) ==
    /\ pending' = Append(pending, p)
    /\ broken' \in {broken, TRUE}
    /\ UNCHANGED <<wire, open>>

\* n packets are taken from the queue: by the system, or by nobody.
Take(n) == pending' = SubSeq(pending, n + 1, Len(pending))

Transmit(n) ==
    /\ open
    /\ Take(n)
    /\ wire' = wire \o SubSeq(pending, 1, n)
    /\ UNCHANGED <<open, broken>>

Lose(n) ==
    /\ Take(n)
    /\ broken' = TRUE
    /\ UNCHANGED <<wire, open>>

Break ==
    /\ ~broken
    /\ broken' = TRUE
    /\ UNCHANGED <<pending, wire, open>>

Close ==
    /\ open
    /\ open' = FALSE
    /\ broken' = TRUE
    /\ UNCHANGED <<pending, wire>>

Next ==
    \/ \E p \in Packets : Put(p)
    \/ \E n \in 1 .. Len(pending) : Transmit(n) \/ Lose(n)
    \/ Break
    \/ Close

Spec == Init /\ [][Next]_vars

=============================================================================
