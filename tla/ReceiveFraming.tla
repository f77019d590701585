---------------------------- MODULE ReceiveFraming ----------------------------
(***************************************************************************)
(* How one connection receives: NetworkHostPO::Receive posts WSARecv for the  *)
(* empty part of the context's buffer, NetworkWorkerPO::ProcessReceive counts  *)
(* what came, and NetworkHostPO::Decrypt hands over the whole frames and posts *)
(* the next receive, which moves the half frame that is left to the front.    *)
(*                                                                          *)
(* The context belongs to one thread at a time (ContextPool), so a step is    *)
(* one turn of the loop of Decrypt, or what comes after it.                   *)
(*                                                                          *)
(* A byte in the buffer is the position it has in the peer's stream, or 0 when *)
(* it is left over from another use of the context.  What a size field reads   *)
(* is given for every position of the stream: any bytes can be read as one.    *)
(***************************************************************************)
EXTENDS Integers, Sequences

CONSTANTS
    Header,      \* PACKET_HEADER_SIZE
    MaxData,     \* MAX_PACKET_DATA_SIZE
    Mask,        \* PACKET_COMPRESS_MASK
    BufferSize,  \* NETWORK_BUFFER_SIZE_SERVER
    StreamLen,   \* bound: bytes the peer sends
    SizeFields   \* what the size fields in them may read

\* Packet.h and NetworkCommon.h: the buffer holds the largest frame, exactly.
ASSUME FramingAssumption ==
    /\ Header \in Nat \ {0}
    /\ MaxData \in Nat
    /\ Mask \in Nat
    /\ Mask > Header + MaxData
    /\ BufferSize = Header + MaxData
    /\ StreamLen \in Nat
    /\ SizeFields \subseteq 0 .. 2 * Mask - 1

Positions == 1 .. StreamLen

VARIABLES
    field,      \* what a size field that starts at each position reads
    buffer,     \* m_pBuffer
    writeSize,  \* m_nWriteSize
    readSize,   \* m_nReadSize
    pc,         \* "receive": WSARecv is pending; "decrypt"; "closed"
    received,   \* bytes the system has put into the buffer
    delivered,  \* what EventReceive was given, in order
    ended       \* why the receive task ended, or "no"

vars == <<field, buffer, writeSize, readSize, pc, received, delivered, ended>>

\* NetworkContextPO::ResetBuffer, and the first receive of a connection
Init ==
    /\ field \in [Positions -> SizeFields]
    /\ buffer = [k \in 1 .. BufferSize |-> 0]
    /\ writeSize = 0
    /\ readSize = 0
    /\ pc = "receive"
    /\ received = 0
    /\ delivered = <<>>
    /\ ended = "no"

-----------------------------------------------------------------------------
(* NetworkContextPO *)

DataSize == IF writeSize <= readSize THEN 0 ELSE writeSize - readSize

\* mutants: the offsets are reset but the bytes stay; the moved size is off by one
AlignInPlace ==
    /\ readSize' = 0
    /\ writeSize' = DataSize
    /\ UNCHANGED buffer
AlignShort ==
    /\ readSize' = 0
    /\ writeSize' = DataSize
    /\ buffer' = [k \in 1 .. BufferSize |->
                     IF k < DataSize THEN buffer[readSize + k] ELSE buffer[k]]

\* What is not read yet moves to the front.
Align ==
    /\ readSize' = 0
    /\ writeSize' = DataSize
    /\ buffer' = [k \in 1 .. BufferSize |->
                     IF k <= DataSize THEN buffer[readSize + k] ELSE buffer[k]]

-----------------------------------------------------------------------------
(* NetworkHostPO::Decrypt *)

\* lMsgSize: an unsigned difference of 32 bits, whose top bit is cleared after that.
MsgSize(f) == ((f - Header) % (2 * Mask)) % Mask

\* What the size field at the front of the unread data reads.
HeadSize == MsgSize(field[buffer[readSize + 1]])

\* mutant: a header alone is not looked at
MoreThanHeader == DataSize > Header
HasHeader == DataSize >= Header

IsMalformed == HeadSize < 0 \/ HeadSize > MaxData

\* mutants: the header is not counted; there must be more than the frame
IsWholeByData == HeadSize <= DataSize
IsWholeAndMore == HeadSize < DataSize - Header
IsWhole == HeadSize <= DataSize - Header

\* EventReceive; that it decompresses any data LZ4 accepts is left out.
Deliver ==
    /\ pc = "decrypt"
    /\ HasHeader /\ ~IsMalformed /\ IsWhole
    /\ delivered' = Append(delivered,
          [at   |-> buffer[readSize + 1],
           data |-> [i \in 1 .. HeadSize |-> buffer[readSize + Header + i]]])
    /\ readSize' = readSize + HeadSize + Header
    /\ UNCHANGED <<field, buffer, writeSize, pc, received, ended>>

\* EndBaseTask(false): the socket is closed, the context released.
EndTask(cause) == pc' = "closed" /\ ended' = cause

Reject ==
    /\ pc = "decrypt"
    /\ HasHeader /\ IsMalformed
    /\ EndTask("malformed")
    /\ UNCHANGED <<field, buffer, writeSize, readSize, received, delivered>>

\* The loop ends; Receive aligns the context and posts WSARecv for what is empty.
Receive ==
    /\ pc = "decrypt"
    /\ HasHeader => ~IsMalformed /\ ~IsWhole
    /\ Align
    /\ IF writeSize' >= BufferSize
       THEN EndTask("full")
       ELSE (pc' = "receive" /\ UNCHANGED ended) \/ EndTask("network")
    /\ UNCHANGED <<field, received, delivered>>

-----------------------------------------------------------------------------
(* NetworkWorkerPO::ProcessReceive *)

\* n bytes were put behind the write offset; Write counts them.
Arrive(n) ==
    /\ pc = "receive"
    /\ n <= BufferSize - writeSize
    /\ n <= StreamLen - received
    /\ buffer' = [k \in 1 .. BufferSize |->
                     IF k \in writeSize + 1 .. writeSize + n THEN received + k - writeSize
                                                             ELSE buffer[k]]
    /\ received' = received + n
    /\ writeSize' = writeSize + n
    /\ pc' = "decrypt"
    /\ UNCHANGED <<field, readSize, delivered, ended>>

\* The receive failed, or the peer closed.
Fail ==
    /\ pc = "receive"
    /\ EndTask("network")
    /\ UNCHANGED <<field, buffer, writeSize, readSize, received, delivered>>

Decrypt == Deliver \/ Reject \/ Receive

Next ==
    \/ \E n \in 1 .. BufferSize : Arrive(n)
    \/ Fail
    \/ Decrypt

Spec == Init /\ [][Next]_vars

\* The worker runs.
FairSpec == Spec /\ WF_vars(Decrypt)

-----------------------------------------------------------------------------
(* Properties *)

\* The position of the first byte that is not read yet.
NextByte == received - DataSize + 1

\* The ideal reader, which has read up to there
Stream == INSTANCE FrameStream WITH next <- NextByte

TypeOK ==
    /\ field \in [Positions -> SizeFields]
    /\ buffer \in [1 .. BufferSize -> Positions \cup {0}]
    /\ writeSize \in 0 .. BufferSize
    /\ readSize \in 0 .. writeSize
    /\ pc \in {"receive", "decrypt", "closed"}
    /\ received \in 0 .. StreamLen
    /\ delivered \in Seq([at : Positions, data : Seq(Positions)])
    /\ ended \in {"no", "malformed", "full", "network"}
    /\ ended = "no" <=> pc # "closed"

\* The unread part of the buffer is the part of the stream that was received and not
\* handed over: no byte is lost, doubled or moved when half frames are aligned.
BufferIsStream == \A k \in 1 .. DataSize : buffer[readSize + k] = NextByte + k - 1

\* While the host waits for more bytes, no whole frame lies in the buffer, nor the
\* header of a frame that is none.
NothingHeldBack ==
    pc = "receive" =>
        /\ readSize = 0
        /\ Stream!HeaderIsThere => Stream!WellFormed(NextByte) /\ ~Stream!FrameIsThere

\* Where the k-th frame starts: right behind the one before it
StartOf(k) ==
    IF k = 1 THEN 1 ELSE delivered[k - 1].at + Header + Len(delivered[k - 1].data)

\* The frames that were handed over tile the stream, from its first byte to the first
\* that is not read: none is skipped or read twice, each is as long as its size field
\* says, and its data are the bytes behind its own header.  (Decrypt's loop, Align)
FramesTile ==
    /\ \A k \in 1 .. Len(delivered) :
          LET f == delivered[k] IN
          /\ f.at = StartOf(k)
          /\ Header + Len(f.data) = Stream!Size(f.at)
          /\ \A i \in 1 .. Len(f.data) : f.data[i] = f.at + Header + i - 1
    /\ NextByte = StartOf(Len(delivered) + 1)

\* The receive side is the ideal reader of frames, whatever pieces the bytes come in;
\* the buffer is never the reason to close a connection.
ImplementsStream == Stream!Spec

\* A frame that has arrived whole is handed over, even if the peer then hangs up.
FrameIsDelivered ==
    \A p \in Positions : (NextByte = p /\ Stream!FrameIsThere) ~> NextByte > p

=============================================================================
