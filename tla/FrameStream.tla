----------------------------- MODULE FrameStream -----------------------------
(***************************************************************************)
(* What the receiving side of a connection promises: the bytes of the peer   *)
(* are cut into frames, and each whole frame is handed to the service once,   *)
(* with exactly its bytes, in order, whatever pieces the bytes arrive in.     *)
(* The connection is closed by the receiver for a size field that is not one, *)
(* and for nothing else.                                                     *)
(*                                                                          *)
(* A byte is named by its position in the stream.  Packet.h: a frame is its   *)
(* size, a message ID and the data; the top bit of the size is a flag.        *)
(***************************************************************************)
EXTENDS Integers, Sequences

CONSTANTS
    Header,      \* PACKET_HEADER_SIZE
    MaxData,     \* MAX_PACKET_DATA_SIZE
    Mask,        \* PACKET_COMPRESS_MASK, the top bit of a size field
    StreamLen    \* bound: bytes the peer sends

VARIABLES
    field,       \* what a size field that starts at each byte reads
    received,    \* bytes that have arrived
    next,        \* the first byte of the next frame
    delivered,   \* the frames handed over
    ended        \* why the connection ended, or "no"

vars == <<field, received, next, delivered, ended>>

Size(p) == field[p] % Mask
WellFormed(p) == Size(p) \in Header .. Header + MaxData

HeaderIsThere == received >= next + Header - 1
FrameIsThere == HeaderIsThere /\ WellFormed(next) /\ received >= next + Size(next) - 1

Init ==
    /\ received = 0
    /\ next = 1
    /\ delivered = <<>>
    /\ ended = "no"

Arrive(n) ==
    /\ ended = "no"
    /\ received' = received + n
    /\ received' <= StreamLen
    /\ UNCHANGED <<field, next, delivered, ended>>

Deliver ==
    /\ ended = "no"
    /\ FrameIsThere
    /\ delivered' = Append(delivered,
          [at |-> next, data |-> [i \in 1 .. Size(next) - Header |-> next + Header + i - 1]])
    /\ next' = next + Size(next)
    /\ UNCHANGED <<field, received, ended>>

Reject ==
    /\ ended = "no"
    /\ HeaderIsThere
    /\ ~WellFormed(next)
    /\ ended' = "malformed"
    /\ UNCHANGED <<field, received, next, delivered>>

\* The peer or the network ends the connection.
Break ==
    /\ ended = "no"
    /\ ended' = "network"
    /\ UNCHANGED <<field, received, next, delivered>>

Next ==
    \/ \E n \in 1 .. StreamLen : Arrive(n)
    \/ Deliver
    \/ Reject
    \/ Break

Spec == Init /\ [][Next]_vars

=============================================================================
