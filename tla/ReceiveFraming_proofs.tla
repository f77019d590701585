------------------------ MODULE ReceiveFraming_proofs ------------------------
(***************************************************************************)
(* The receive side of a connection implements the ideal reader of frames,    *)
(* for any header, frame size, flag bit, stream and pieces it arrives in.     *)
(***************************************************************************)
EXTENDS ReceiveFraming, TLAPS

-----------------------------------------------------------------------------
(* The size field *)

LEMMA ModSmall ==
    ASSUME NEW x \in Nat, NEW m \in Nat, x < m
    PROVE  x % m = x
OBVIOUS

LEMMA ModOnce ==
    ASSUME NEW x \in Nat, NEW m \in Nat, m > 0, m <= x, x < 2 * m
    PROVE  x % m = x - m
OBVIOUS

LEMMA ModNegative ==
    ASSUME NEW x \in Int, NEW m \in Nat, -m <= x, x < 0
    PROVE  x % m = x + m
OBVIOUS

\* The difference that is taken before the flag is cleared: it is the size of the data,
\* or too large when the field is smaller than a header.
LEMMA MsgSizeOfField ==
    ASSUME NEW f \in 0 .. 2 * Mask - 1
    PROVE  /\ f % Mask \in 0 .. Mask - 1
           /\ MsgSize(f) = IF f % Mask >= Header THEN (f % Mask) - Header
                                                 ELSE Mask + (f % Mask) - Header
<1>1. Header \in Nat \ {0} /\ Mask \in Nat /\ Mask > Header
  BY FramingAssumption
<1>2. CASE f < Header
  <2>1. (f - Header) % (2 * Mask) = f - Header + 2 * Mask
    <3>1. f - Header \in Int /\ 2 * Mask \in Nat /\ -(2 * Mask) <= f - Header /\ f - Header < 0
      BY <1>1, <1>2
    <3>2. QED
      BY <3>1, ModNegative
  <2>2. MsgSize(f) = f - Header + Mask
    <3>1. /\ f - Header + 2 * Mask \in Nat
          /\ Mask <= f - Header + 2 * Mask /\ f - Header + 2 * Mask < 2 * Mask
      BY <1>1, <1>2
    <3>2. QED
      BY <1>1, <2>1, <3>1, ModOnce DEF MsgSize
  <2>3. f % Mask = f
    BY <1>1, <1>2, ModSmall
  <2>4. QED
    BY <1>1, <1>2, <2>2, <2>3
<1>3. CASE f >= Header /\ f < Mask
  <2>1. f % Mask = f /\ (f - Header) % (2 * Mask) = f - Header /\ (f - Header) % Mask = f - Header
    BY <1>1, <1>3, ModSmall
  <2>2. MsgSize(f) = f - Header
    BY <2>1 DEF MsgSize
  <2>3. QED
    BY <1>1, <1>3, <2>1, <2>2
<1>4. CASE f >= Mask
  <2>1. f % Mask = f - Mask
    BY <1>1, <1>4, ModOnce
  <2>2. (f - Header) % (2 * Mask) = f - Header
    BY <1>1, <1>4, ModSmall
  <2>3. CASE f - Header >= Mask
    <3>1. (f - Header) % Mask = f - Header - Mask
      BY <1>1, <1>4, <2>3, ModOnce
    <3>2. MsgSize(f) = f - Header - Mask
      BY <2>2, <3>1 DEF MsgSize
    <3>3. QED
      BY <1>1, <1>4, <2>1, <2>3, <3>2
  <2>4. CASE f - Header < Mask
    <3>1. (f - Header) % Mask = f - Header
      BY <1>1, <1>4, <2>4, ModSmall
    <3>2. MsgSize(f) = f - Header
      BY <2>2, <3>1 DEF MsgSize
    <3>3. QED
      BY <1>1, <1>4, <2>1, <2>4, <3>2
  <2>5. QED
    BY <1>1, <1>4, <2>3, <2>4
<1>5. QED
  BY <1>1, <1>2, <1>3, <1>4

-----------------------------------------------------------------------------
(* The invariant *)

\* The unread bytes are the last of those received.
FramingInv ==
    /\ TypeOK
    /\ BufferIsStream
    /\ DataSize <= received

\* What TypeOK and the assumption say of the offsets.
LEMMA Offsets ==
    ASSUME FramingInv
    PROVE  /\ Header \in Nat \ {0} /\ MaxData \in Nat /\ BufferSize = Header + MaxData
           /\ StreamLen \in Nat
           /\ writeSize \in 0 .. BufferSize /\ readSize \in 0 .. writeSize
           /\ received \in 0 .. StreamLen
           /\ DataSize = writeSize - readSize
           /\ NextByte = received - (writeSize - readSize) + 1
           /\ writeSize - readSize <= received
BY FramingAssumption DEF FramingInv, TypeOK, DataSize, NextByte

\* The unread bytes lie in the stream.
LEMMA UnreadBytes ==
    ASSUME FramingInv, NEW k \in 1 .. DataSize
    PROVE  /\ buffer[readSize + k] = NextByte + k - 1
           /\ NextByte + k - 1 \in Positions
BY Offsets DEF FramingInv, BufferIsStream, Positions

\* The code's test of a size field is the test for a frame that starts there.
LEMMA HeadIsNext ==
    ASSUME FramingInv, HasHeader
    PROVE  /\ buffer[readSize + 1] = NextByte
           /\ NextByte \in Positions
           /\ IsMalformed <=> ~Stream!WellFormed(NextByte)
           /\ ~IsMalformed => /\ HeadSize \in 0 .. MaxData
                              /\ Stream!Size(NextByte) = HeadSize + Header
<1>1. buffer[readSize + 1] = NextByte /\ NextByte \in Positions
  BY Offsets, UnreadBytes DEF HasHeader
<1> DEFINE f == field[NextByte]
<1>2. f \in 0 .. 2 * Mask - 1
  BY <1>1, FramingAssumption DEF FramingInv, TypeOK
<1>3. HeadSize = MsgSize(f) /\ Stream!Size(NextByte) = f % Mask
  BY <1>1 DEF HeadSize, Stream!Size
<1>4. /\ f % Mask \in 0 .. Mask - 1
      /\ HeadSize = IF f % Mask >= Header THEN (f % Mask) - Header
                                          ELSE Mask + (f % Mask) - Header
  BY <1>2, <1>3, MsgSizeOfField
<1> DEFINE size == f % Mask
<1>5. Header \in Nat /\ MaxData \in Nat /\ Mask \in Nat /\ Mask > Header + MaxData
  BY FramingAssumption
<1>6. Stream!WellFormed(NextByte) <=> size \in Header .. Header + MaxData
  BY <1>3 DEF Stream!WellFormed
<1> HIDE DEF size
<1>7. size \in 0 .. Mask - 1 /\ Stream!Size(NextByte) = size
      /\ HeadSize = IF size >= Header THEN size - Header ELSE Mask + size - Header
  BY <1>3, <1>4 DEF size
<1>8. QED
  BY <1>1, <1>5, <1>6, <1>7 DEF IsMalformed

\* The bytes of a whole frame are where the reader expects them.
LEMMA WholeFrame ==
    ASSUME FramingInv, HasHeader, ~IsMalformed, IsWhole
    PROVE  /\ HeadSize \in 0 .. MaxData
           /\ readSize + HeadSize + Header <= writeSize
           /\ [i \in 1 .. HeadSize |-> buffer[readSize + Header + i]]
                 = [i \in 1 .. HeadSize |-> NextByte + Header + i - 1]
           /\ [i \in 1 .. HeadSize |-> buffer[readSize + Header + i]] \in Seq(Positions)
<1>1. HeadSize \in 0 .. MaxData
  BY HeadIsNext
<1>2. HeadSize + Header <= DataSize /\ readSize + HeadSize + Header <= writeSize
  BY <1>1, Offsets DEF IsWhole
<1>3. \A i \in 1 .. HeadSize :
         /\ buffer[readSize + Header + i] = NextByte + Header + i - 1
         /\ buffer[readSize + Header + i] \in Positions
  <2>1. SUFFICES ASSUME NEW i \in 1 .. HeadSize
                 PROVE  /\ buffer[readSize + Header + i] = NextByte + Header + i - 1
                        /\ buffer[readSize + Header + i] \in Positions
    OBVIOUS
  <2> DEFINE k == Header + i
  <2>2. k \in 1 .. DataSize
    BY <1>1, <1>2, Offsets
  <2>3. buffer[readSize + k] = NextByte + k - 1 /\ NextByte + k - 1 \in Positions
    BY <2>2, UnreadBytes
  <2>4. readSize + k = readSize + Header + i /\ NextByte + k - 1 = NextByte + Header + i - 1
    BY <1>1, Offsets
  <2>5. QED
    BY <2>3, <2>4
<1>4. [i \in 1 .. HeadSize |-> buffer[readSize + Header + i]] \in Seq(Positions)
  BY <1>1, <1>3
<1>5. QED
  BY <1>1, <1>2, <1>3, <1>4

LEMMA InitInv == Init => FramingInv
BY FramingAssumption
   DEF Init, FramingInv, TypeOK, BufferIsStream, DataSize, NextByte, Positions

-----------------------------------------------------------------------------
(* What a step does to the unread bytes *)

\* The next byte stays when bytes arrive.
LEMMA ArriveKeeps ==
    ASSUME FramingInv, NEW n \in 1 .. BufferSize, Arrive(n)
    PROVE  FramingInv' /\ NextByte' = NextByte
<1>1. /\ writeSize' = writeSize + n /\ received' = received + n /\ readSize' = readSize
      /\ n <= BufferSize - writeSize /\ n <= StreamLen - received
  BY DEF Arrive
<1>2. /\ writeSize' \in 0 .. BufferSize /\ readSize' \in 0 .. writeSize'
      /\ received' \in 0 .. StreamLen
  BY <1>1, Offsets
<1>3. DataSize' = writeSize' - readSize' /\ DataSize' = DataSize + n /\ DataSize' <= received'
  BY <1>1, <1>2, Offsets DEF DataSize
<1>4. NextByte' = NextByte
  BY <1>1, <1>3, Offsets DEF NextByte
<1>5. buffer' \in [1 .. BufferSize -> Positions \cup {0}]
  <2>1. \A k \in writeSize + 1 .. writeSize + n : received + k - writeSize \in Positions
    BY <1>1, Offsets DEF Positions
  <2>2. QED
    BY <2>1 DEF Arrive, FramingInv, TypeOK
<1>6. BufferIsStream'
  <2>1. SUFFICES ASSUME NEW k \in 1 .. DataSize'
                 PROVE  buffer'[readSize + k] = NextByte + k - 1
    BY <1>1, <1>4 DEF BufferIsStream
  <2>2. readSize + k \in 1 .. BufferSize
    BY <1>1, <1>2, <1>3, Offsets
  <2>3. buffer'[readSize + k] = IF readSize + k \in writeSize + 1 .. writeSize + n
                                THEN received + (readSize + k) - writeSize
                                ELSE buffer[readSize + k]
    BY <2>2 DEF Arrive
  <2>4. CASE k \in 1 .. DataSize
    <3>1. readSize + k \notin writeSize + 1 .. writeSize + n
      BY <2>4, Offsets
    <3>2. QED
      BY <2>3, <2>4, <3>1, UnreadBytes
  <2>5. CASE k \notin 1 .. DataSize
    <3>1. readSize + k \in writeSize + 1 .. writeSize + n
      BY <1>1, <1>3, <2>5, Offsets
    <3>2. QED
      BY <2>3, <3>1, Offsets
  <2>6. QED
    BY <2>4, <2>5
<1>7. TypeOK'
  BY <1>2, <1>5 DEF Arrive, FramingInv, TypeOK
<1>8. QED
  BY <1>3, <1>4, <1>6, <1>7 DEF FramingInv

\* Handing a frame over reads it, and nothing else.
LEMMA DeliverKeeps ==
    ASSUME FramingInv, Deliver
    PROVE  FramingInv' /\ NextByte' = NextByte + HeadSize + Header
<1>1. HasHeader /\ ~IsMalformed /\ IsWhole
  BY DEF Deliver
<1>2. /\ readSize' = readSize + HeadSize + Header
      /\ UNCHANGED <<field, buffer, writeSize, pc, received, ended>>
  BY DEF Deliver
<1>3. HeadSize \in 0 .. MaxData /\ readSize' <= writeSize
  BY <1>1, <1>2, WholeFrame
<1>4. readSize' \in 0 .. writeSize'
  BY <1>2, <1>3, Offsets
<1>5. DataSize' = writeSize' - readSize' /\ DataSize' <= received'
  BY <1>2, <1>3, <1>4, Offsets DEF DataSize
<1>6. NextByte' = NextByte + HeadSize + Header
  BY <1>2, <1>3, <1>5, Offsets DEF NextByte
<1>7. BufferIsStream'
  <2>1. SUFFICES ASSUME NEW k \in 1 .. DataSize'
                 PROVE  buffer[readSize' + k] = NextByte' + k - 1
    BY <1>2 DEF BufferIsStream
  <2> DEFINE j == HeadSize + Header + k
  <2>2. j \in 1 .. DataSize
    BY <1>2, <1>3, <1>5, Offsets
  <2>3. buffer[readSize + j] = NextByte + j - 1
    BY <2>2, UnreadBytes
  <2>4. readSize + j = readSize' + k /\ NextByte + j - 1 = NextByte' + k - 1
    BY <1>2, <1>3, <1>6, Offsets
  <2>5. QED
    BY <2>3, <2>4
<1>8. delivered' \in Seq([at : Positions, data : Seq(Positions)])
  BY <1>1, HeadIsNext, WholeFrame DEF Deliver, FramingInv, TypeOK
<1>10. TypeOK'
  BY <1>2, <1>4, <1>8 DEF FramingInv, TypeOK
<1>11. QED
  BY <1>5, <1>6, <1>7, <1>10 DEF FramingInv

\* The half frame that is left fits, moves to the front and leaves room.
LEMMA ReceiveKeeps ==
    ASSUME FramingInv, Receive
    PROVE  FramingInv' /\ NextByte' = NextByte /\ ended' \in {"no", "network"}
<1>1. /\ readSize' = 0 /\ writeSize' = DataSize
      /\ buffer' = [k \in 1 .. BufferSize |->
                       IF k <= DataSize THEN buffer[readSize + k] ELSE buffer[k]]
      /\ UNCHANGED <<field, received, delivered>>
  BY DEF Receive, Align
<1>2. /\ DataSize \in 0 .. BufferSize
      /\ writeSize' \in 0 .. BufferSize /\ readSize' \in 0 .. writeSize'
  BY <1>1, Offsets
<1>3. DataSize' = DataSize
  BY <1>1, <1>2 DEF DataSize
<1>4. NextByte' = NextByte
  BY <1>1, <1>3 DEF NextByte
<1>5. writeSize' < BufferSize
  <2>1. ASSUME DataSize = BufferSize PROVE FALSE
    <3>1. HasHeader
      BY <2>1, Offsets DEF HasHeader
    <3>2. ~IsMalformed /\ ~IsWhole
      BY <3>1 DEF Receive
    <3>3. HeadSize \in 0 .. MaxData
      BY <3>1, <3>2, HeadIsNext
    <3>4. QED
      BY <2>1, <3>2, <3>3, Offsets DEF IsWhole
  <2>2. writeSize' = DataSize /\ BufferSize \in Nat
    BY <1>1, Offsets
  <2>3. QED
    BY <1>2, <2>1, <2>2
<1>6. pc = "decrypt" /\ ended = "no"
  BY DEF Receive, FramingInv, TypeOK
<1>7. \/ pc' = "receive" /\ ended' = "no"
      \/ pc' = "closed" /\ ended' = "network"
  BY <1>2, <1>5, <1>6, Offsets DEF Receive, EndTask
<1>8. buffer' \in [1 .. BufferSize -> Positions \cup {0}]
  BY <1>1, UnreadBytes, Offsets DEF FramingInv, TypeOK
<1>9. BufferIsStream'
  <2>1. SUFFICES ASSUME NEW k \in 1 .. DataSize
                 PROVE  buffer'[0 + k] = NextByte + k - 1
    BY <1>1, <1>3, <1>4 DEF BufferIsStream
  <2>2. k \in 1 .. BufferSize /\ k <= DataSize
    BY <1>2, Offsets
  <2>3. buffer'[k] = buffer[readSize + k]
    BY <1>1, <2>2
  <2>4. 0 + k = k
    BY <1>2
  <2>5. QED
    BY <2>3, <2>4, UnreadBytes
<1>10. TypeOK'
  BY <1>1, <1>2, <1>7, <1>8 DEF FramingInv, TypeOK
<1>11. QED
  BY <1>1, <1>3, <1>4, <1>7, <1>9, <1>10 DEF FramingInv

\* A connection that ends leaves the buffer as it is.
LEMMA EndKeeps ==
    ASSUME FramingInv, NEW cause \in {"malformed", "network"}, EndTask(cause),
           UNCHANGED <<field, buffer, writeSize, readSize, received, delivered>>
    PROVE  FramingInv' /\ NextByte' = NextByte
<1>1. DataSize' = DataSize /\ NextByte' = NextByte
  BY DEF DataSize, NextByte
<1>2. BufferIsStream'
  BY <1>1 DEF FramingInv, BufferIsStream
<1>3. TypeOK'
  BY DEF FramingInv, TypeOK, EndTask
<1>4. QED
  BY <1>1, <1>2, <1>3 DEF FramingInv

LEMMA StepKeeps == FramingInv /\ [Next]_vars => FramingInv'
<1> SUFFICES ASSUME FramingInv, [Next]_vars PROVE FramingInv'
  OBVIOUS
<1>1. CASE \E n \in 1 .. BufferSize : Arrive(n)
  BY <1>1, ArriveKeeps
<1>2. CASE Fail
  BY <1>2, EndKeeps DEF Fail
<1>3. CASE Deliver
  BY <1>3, DeliverKeeps
<1>4. CASE Reject
  BY <1>4, EndKeeps DEF Reject
<1>5. CASE Receive
  BY <1>5, ReceiveKeeps
<1>6. CASE UNCHANGED vars
  BY <1>6 DEF FramingInv, TypeOK, BufferIsStream, DataSize, NextByte, vars
<1>7. QED
  BY <1>1, <1>2, <1>3, <1>4, <1>5, <1>6 DEF Next, Decrypt

THEOREM FramingInvariant == Spec => []FramingInv
<1>1. FramingInv /\ [Next]_vars => FramingInv'
  BY StepKeeps
<1>2. QED
  BY <1>1, InitInv, PTL DEF Spec

\* The buffer, its offsets and what was handed over have their types: no frame is read
\* past what was written.
THEOREM TypeCorrect == Spec => []TypeOK
<1>1. FramingInv => TypeOK
  BY DEF FramingInv
<1>2. QED
  BY <1>1, FramingInvariant, PTL

\* The unread part of the buffer is the part of the stream that was received and not
\* handed over, however Align moves half frames.
THEOREM UnreadIsStream == Spec => []BufferIsStream
<1>1. FramingInv => BufferIsStream
  BY DEF FramingInv
<1>2. QED
  BY <1>1, FramingInvariant, PTL

LEMMA HeadersAgree == FramingInv => (HasHeader <=> Stream!HeaderIsThere)
BY Offsets DEF HasHeader, Stream!HeaderIsThere

\* While WSARecv is pending, no whole or malformed frame is left in the buffer: Decrypt
\* does not return before it has looked at all of it.
THEOREM NoFrameIsHeldBack == Spec => []NothingHeldBack
<1>1. Init => NothingHeldBack
  BY FramingAssumption
     DEF Init, NothingHeldBack, Stream!HeaderIsThere, NextByte, DataSize
<1>2. FramingInv /\ NothingHeldBack /\ [Next]_vars => NothingHeldBack'
  <2> SUFFICES ASSUME FramingInv, NothingHeldBack, [Next]_vars PROVE NothingHeldBack'
    OBVIOUS
  <2>1. CASE Receive
    <3>1. readSize' = 0 /\ NextByte' = NextByte /\ UNCHANGED <<field, received>>
      BY <2>1, ReceiveKeeps DEF Receive, Align
    <3>2. Stream!HeaderIsThere => Stream!WellFormed(NextByte) /\ ~Stream!FrameIsThere
      <4>1. SUFFICES ASSUME HasHeader
                     PROVE  Stream!WellFormed(NextByte) /\ ~Stream!FrameIsThere
        BY HeadersAgree
      <4>2. /\ ~IsWhole /\ Stream!WellFormed(NextByte) /\ HeadSize \in 0 .. MaxData
            /\ Stream!Size(NextByte) = HeadSize + Header
        BY <2>1, <4>1, HeadIsNext DEF Receive
      <4>3. ~(received >= NextByte + Stream!Size(NextByte) - 1)
        BY <4>2, Offsets DEF IsWhole
      <4>4. QED
        BY <4>2, <4>3 DEF Stream!FrameIsThere
    <3>3. QED
      BY <3>1, <3>2 DEF NothingHeldBack, Stream!HeaderIsThere, Stream!FrameIsThere,
                        Stream!WellFormed, Stream!Size
  <2>2. CASE (\E n \in 1 .. BufferSize : Arrive(n)) \/ Fail \/ Deliver \/ Reject
    <3>1. pc' # "receive"
      BY <2>2 DEF Arrive, Fail, Deliver, Reject, EndTask
    <3>2. QED
      BY <3>1 DEF NothingHeldBack
  <2>3. CASE UNCHANGED vars
    BY <2>3 DEF vars, NothingHeldBack, NextByte, DataSize, Stream!HeaderIsThere,
                Stream!FrameIsThere, Stream!WellFormed, Stream!Size
  <2>4. QED
    BY <2>1, <2>2, <2>3 DEF Next, Decrypt
<1>3. QED
  BY <1>1, <1>2, FramingInvariant, PTL DEF Spec

-----------------------------------------------------------------------------
(* The frames tile the stream. *)

\* A frame that is handed over starts at the next byte and is as long as its size says.
LEMMA DeliveredFrame ==
    ASSUME FramingInv, Deliver
    PROVE  \E f \in [at : Positions, data : Seq(Positions)] :
             /\ delivered' = Append(delivered, f)
             /\ f.at = NextByte
             /\ Len(f.data) \in Nat
             /\ Header + Len(f.data) = Stream!Size(f.at)
             /\ \A i \in 1 .. Len(f.data) : f.data[i] = f.at + Header + i - 1
             /\ NextByte' = f.at + Header + Len(f.data)
<1>1. HasHeader /\ ~IsMalformed /\ IsWhole
  BY DEF Deliver
<1> DEFINE n == HeadSize
           data == [i \in 1 .. n |-> buffer[readSize + Header + i]]
           f == [at |-> buffer[readSize + 1], data |-> data]
<1>2. /\ n \in 0 .. MaxData /\ data \in Seq(Positions)
      /\ data = [i \in 1 .. n |-> NextByte + Header + i - 1]
  BY <1>1, WholeFrame
<1>3. /\ buffer[readSize + 1] = NextByte /\ NextByte \in Positions
      /\ Stream!Size(NextByte) = n + Header
  BY <1>1, HeadIsNext
<1>4. delivered' = Append(delivered, f) /\ NextByte' = NextByte + n + Header
  BY DeliverKeeps DEF Deliver
<1> HIDE DEF n
<1>5. n \in Nat /\ Len(data) = n /\ \A i \in 1 .. n : data[i] = NextByte + Header + i - 1
  BY <1>2, Offsets
<1> HIDE DEF data
<1>6. f.at = NextByte /\ f.data = data /\ f \in [at : Positions, data : Seq(Positions)]
  BY <1>2, <1>3
<1> HIDE DEF f
<1>7. Header \in Nat /\ NextByte \in Nat
  BY <1>3, Offsets DEF Positions
<1>8. /\ Header + Len(f.data) = Stream!Size(f.at)
      /\ NextByte' = f.at + Header + Len(f.data)
  BY <1>3, <1>4, <1>5, <1>6, <1>7
<1>9. QED
  BY <1>4, <1>5, <1>6, <1>8

\* One more frame that starts where the last one ended
LEMMA DeliverTiles ==
    ASSUME FramingInv, FramesTile, Deliver
    PROVE  FramesTile'
<1>1. PICK f \in [at : Positions, data : Seq(Positions)] :
        /\ delivered' = Append(delivered, f)
        /\ f.at = NextByte
        /\ Len(f.data) \in Nat
        /\ Header + Len(f.data) = Stream!Size(f.at)
        /\ \A i \in 1 .. Len(f.data) : f.data[i] = f.at + Header + i - 1
        /\ NextByte' = f.at + Header + Len(f.data)
  BY DeliveredFrame
<1>0. PICK n \in Nat : n = Len(delivered)
  BY DEF FramingInv, TypeOK
<1>2. /\ Len(delivered') = n + 1
      /\ \A k \in 1 .. n : delivered'[k] = delivered[k]
      /\ delivered'[n + 1] = f
  BY <1>0, <1>1 DEF FramingInv, TypeOK
<1>3. \A p : Stream!Size(p)' = Stream!Size(p)
  BY DEF Deliver, Stream!Size
<1>4. /\ \A k \in 1 .. n + 1 : StartOf(k)' = StartOf(k)
      /\ StartOf(n + 2)' = f.at + Header + Len(f.data)
  <2>1. \A k \in 1 .. n + 1 : k = 1 \/ k - 1 \in 1 .. n
    OBVIOUS
  <2>2. n + 2 # 1 /\ (n + 2) - 1 = n + 1
    OBVIOUS
  <2>3. QED
    BY <1>2, <2>1, <2>2 DEF StartOf
<1>5. /\ NextByte = StartOf(n + 1)
      /\ \A k \in 1 .. n :
            /\ delivered[k].at = StartOf(k)
            /\ Header + Len(delivered[k].data) = Stream!Size(delivered[k].at)
            /\ \A i \in 1 .. Len(delivered[k].data) :
                  delivered[k].data[i] = delivered[k].at + Header + i - 1
  BY <1>0 DEF FramesTile
<1>6. /\ (n + 1) + 1 = n + 2
      /\ \A k \in 1 .. n + 1 : k \in 1 .. n \/ k = n + 1
      /\ n + 1 \in 1 .. n + 1 /\ 1 .. n \subseteq 1 .. n + 1
  OBVIOUS
<1>7. ASSUME NEW k \in 1 .. n + 1
      PROVE  /\ delivered'[k].at = StartOf(k)'
             /\ Header + Len(delivered'[k].data) = Stream!Size(delivered'[k].at)
             /\ \A i \in 1 .. Len(delivered'[k].data) :
                   delivered'[k].data[i] = delivered'[k].at + Header + i - 1
  <2>1. CASE k \in 1 .. n
    BY <1>2, <1>4, <1>5, <2>1
  <2>2. CASE k = n + 1
    BY <1>1, <1>2, <1>4, <1>5, <2>2
  <2>3. QED
    BY <1>6, <2>1, <2>2
<1>8. NextByte' = StartOf(Len(delivered) + 1)'
  <2>1. StartOf(Len(delivered) + 1)' = StartOf(n + 2)'
    BY <1>2, <1>6 DEF StartOf
  <2>2. QED
    BY <1>1, <1>4, <2>1
<1>9. QED
  BY <1>2, <1>3, <1>7, <1>8 DEF FramesTile

\* The frames that were handed over tile the stream: Decrypt skips none and reads none
\* twice, and each has the size its field says and its own bytes.
THEOREM StreamIsTiled == Spec => []FramesTile
<1>1. Init => FramesTile
  BY DEF Init, FramesTile, StartOf, NextByte, DataSize
<1>2. FramingInv /\ FramesTile /\ [Next]_vars => FramesTile'
  <2> SUFFICES ASSUME FramingInv, FramesTile, [Next]_vars PROVE FramesTile'
    OBVIOUS
  <2>1. ASSUME NextByte' = NextByte, UNCHANGED <<field, delivered>> PROVE FramesTile'
    BY <2>1 DEF FramesTile, StartOf, Stream!Size
  <2>2. CASE \E n \in 1 .. BufferSize : Arrive(n)
    BY <2>1, <2>2, ArriveKeeps DEF Arrive
  <2>3. CASE Fail \/ Reject
    BY <2>1, <2>3, EndKeeps DEF Fail, Reject
  <2>4. CASE Receive
    BY <2>1, <2>4, ReceiveKeeps DEF Receive
  <2>5. CASE UNCHANGED vars
    BY <2>1, <2>5 DEF vars, NextByte, DataSize
  <2>6. QED
    BY <2>2, <2>3, <2>4, <2>5, DeliverTiles DEF Next, Decrypt
<1>3. QED
  BY <1>1, <1>2, FramingInvariant, PTL DEF Spec

-----------------------------------------------------------------------------
(* The refinement *)

LEMMA StreamInit == Init => Stream!Init
BY DEF Init, Stream!Init, NextByte, DataSize

LEMMA StreamStep == FramingInv /\ [Next]_vars => [Stream!Next]_(Stream!vars)
<1> SUFFICES ASSUME FramingInv, [Next]_vars PROVE [Stream!Next]_(Stream!vars)
  OBVIOUS
<1>1. HasHeader <=> Stream!HeaderIsThere
  BY HeadersAgree
<1>2. pc # "closed" <=> ended = "no"
  BY DEF FramingInv, TypeOK
<1>3. ASSUME NEW n \in 1 .. BufferSize, Arrive(n) PROVE Stream!Next
  <2>1. NextByte' = NextByte
    BY <1>3, ArriveKeeps
  <2>2. n \in 1 .. StreamLen /\ received + n <= StreamLen
    <3>1. n <= StreamLen - received
      BY <1>3 DEF Arrive
    <3>2. n \in Nat \ {0}
      BY Offsets
    <3>3. QED
      BY <3>1, <3>2, Offsets
  <2>3. Stream!Arrive(n)
    BY <1>2, <1>3, <2>1, <2>2 DEF Arrive, Stream!Arrive
  <2>4. QED
    BY <2>2, <2>3 DEF Stream!Next
<1>4. CASE Fail
  <2>1. NextByte' = NextByte
    BY <1>4, EndKeeps DEF Fail
  <2>2. Stream!Break
    BY <1>2, <1>4, <2>1 DEF Fail, EndTask, Stream!Break
  <2>3. QED
    BY <2>2 DEF Stream!Next
<1>5. CASE Deliver
  <2>1. HasHeader /\ ~IsMalformed /\ IsWhole
    BY <1>5 DEF Deliver
  <2> DEFINE n == HeadSize
  <2>2. /\ n \in 0 .. MaxData /\ Stream!Size(NextByte) = n + Header
        /\ Stream!WellFormed(NextByte) /\ buffer[readSize + 1] = NextByte
    BY <2>1, HeadIsNext
  <2>3. Stream!Size(NextByte) - Header = n
    BY <2>2, Offsets
  <2>4. NextByte' = NextByte + Stream!Size(NextByte)
    <3>1. NextByte' = NextByte + n + Header
      BY <1>5, DeliverKeeps
    <3>2. QED
      BY <2>2, <3>1, Offsets
  <2>5. Stream!FrameIsThere
    <3>1. received >= NextByte + Stream!Size(NextByte) - 1
      BY <2>1, <2>2, WholeFrame, Offsets
    <3>2. QED
      BY <1>1, <2>1, <2>2, <3>1 DEF Stream!FrameIsThere
  <2>6. delivered' = Append(delivered,
             [at |-> NextByte, data |-> [i \in 1 .. n |-> NextByte + Header + i - 1]])
    BY <1>5, <2>1, <2>2, WholeFrame DEF Deliver
  <2> HIDE DEF n
  <2>7. Stream!Deliver
    BY <1>2, <1>5, <2>3, <2>4, <2>5, <2>6 DEF Deliver, Stream!Deliver
  <2>8. QED
    BY <2>7 DEF Stream!Next
<1>6. CASE Reject
  <2>1. HasHeader /\ ~Stream!WellFormed(NextByte)
    BY <1>6, HeadIsNext DEF Reject
  <2>2. NextByte' = NextByte
    BY <1>6, EndKeeps DEF Reject
  <2>3. Stream!Reject
    BY <1>1, <1>2, <1>6, <2>1, <2>2 DEF Reject, EndTask, Stream!Reject
  <2>4. QED
    BY <2>3 DEF Stream!Next
<1>7. CASE Receive
  <2>1. NextByte' = NextByte /\ ended' \in {"no", "network"} /\ ended = "no"
    BY <1>2, <1>7, ReceiveKeeps DEF Receive
  <2>2. UNCHANGED <<field, received, delivered>>
    BY <1>7 DEF Receive
  <2>3. CASE ended' = "no"
    BY <2>1, <2>2, <2>3 DEF Stream!vars
  <2>4. CASE ended' = "network"
    <3>1. Stream!Break
      BY <2>1, <2>2, <2>4 DEF Stream!Break
    <3>2. QED
      BY <3>1 DEF Stream!Next
  <2>5. QED
    BY <2>1, <2>3, <2>4
<1>8. CASE UNCHANGED vars
  BY <1>8 DEF vars, Stream!vars, NextByte, DataSize
<1>9. QED
  BY <1>3, <1>4, <1>5, <1>6, <1>7, <1>8 DEF Next, Decrypt

\* The receive side is the ideal reader: frames are handed over once, in order, with
\* their bytes, in whatever pieces they come; it closes for a malformed size only.
THEOREM FramingIsAReader == Spec => ImplementsStream
<1>1. Init => Stream!Init
  BY StreamInit
<1>2. FramingInv /\ [Next]_vars => [Stream!Next]_(Stream!vars)
  BY StreamStep
<1>3. QED
  BY <1>1, <1>2, FramingInvariant, PTL DEF Spec, ImplementsStream, Stream!Spec

=============================================================================
