----------------------------- MODULE Connection -----------------------------
(***************************************************************************)
(* What the network core promises of the host IDs it hands out: an ID is     *)
(* new, its request is taken by the controller once, and from then on it is   *)
(* listed until its end.  The service hears of the connection while the ID is *)
(* listed, and of its end in the very step that takes it off the list: no ID  *)
(* goes without a word, and none is heard of again.                          *)
(***************************************************************************)
EXTENDS Naturals

CONSTANT MaxId      \* bound: host IDs handed out in one behaviour

VARIABLES
    stage,  \* where each ID is in its life
    told    \* what the service has been told of it

vars == <<stage, told>>

Ids == 1 .. MaxId

Init ==
    /\ stage = [i \in Ids |-> "unused"]
    /\ told  = [i \in Ids |-> "none"]

Advance(i, from, to) ==
    /\ stage[i] = from
    /\ stage' = [stage EXCEPT ![i] = to]

\* IDs are handed out in order.
Request(i) ==
    /\ \A j \in Ids : j < i => stage[j] # "unused"
    /\ Advance(i, "unused", "requested")
    /\ UNCHANGED told

\* An accepted client is connected when the controller takes it; what is still to
\* be connected, or has failed already, is not.
Take(i) ==
    /\ Advance(i, "requested", "listed")
    /\ told' \in {told, [told EXCEPT ![i] = "connected"]}

Connected(i) ==
    /\ stage[i] = "listed"
    /\ told[i] = "none"
    /\ told' = [told EXCEPT ![i] = "connected"]
    /\ UNCHANGED stage

\* The end is told as OnClose or as OnConnectedFailed, after OnConnect or without it.
End(i) ==
    /\ Advance(i, "listed", "ended")
    /\ \/ told[i] = "none" /\ told' \in {[told EXCEPT ![i] = s] : s \in {"failed", "aborted"}}
       \/ told[i] = "connected" /\ told' \in {[told EXCEPT ![i] = s] : s \in {"closed", "disowned"}}

Next == \E i \in Ids : Request(i) \/ Take(i) \/ Connected(i) \/ End(i)

Spec == Init /\ [][Next]_vars

=============================================================================
