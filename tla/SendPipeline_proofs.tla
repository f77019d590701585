------------------------- MODULE SendPipeline_proofs -------------------------
(***************************************************************************)
(* m_lSendTaskCount is a lock, and the send pipeline implements the ordered   *)
(* channel, for any packets, sizes, services and workers.                    *)
(***************************************************************************)
EXTENDS SendPipeline, FiniteSetTheorems, SequenceTheorems, TLAPS

-----------------------------------------------------------------------------
(* Lemmas about sequences *)

\* Encrypt writes at most the packets there are.
LEMMA FittingRange ==
    ASSUME NEW queue \in Seq(Packets)
    PROVE  Fitting(queue) \in 0 .. Len(queue)
<1> DEFINE F == {n \in 1 .. Len(queue) : Total(queue, n) <= BufferSize}
<1>1. Len(queue) \in Nat
  BY LenProperties
<1>2. /\ IsFiniteSet(1 .. Len(queue))
      /\ Cardinality(1 .. Len(queue)) = Len(queue)
  <2>1. 1 \in Int /\ Len(queue) \in Int
    BY <1>1
  <2>2. /\ IsFiniteSet(1 .. Len(queue))
        /\ Cardinality(1 .. Len(queue)) = IF 1 > Len(queue) THEN 0 ELSE Len(queue) - 1 + 1
    BY <2>1, FS_Interval
  <2>3. QED
    BY <1>1, <2>2
<1>3. F \subseteq 1 .. Len(queue)
  OBVIOUS
<1>4. /\ IsFiniteSet(F)
      /\ Cardinality(F) <= Len(queue)
  <2> HIDE DEF F
  <2> QED
    BY <1>2, <1>3, FS_Subset
<1>5. Cardinality(F) \in Nat
  BY <1>4, FS_CardinalityType
<1>6. QED
  BY <1>1, <1>4, <1>5 DEF Fitting

\* A queue is cut in two: neither part loses or adds a packet.
LEMMA Cut ==
    ASSUME NEW queue \in Seq(Packets), NEW n \in 0 .. Len(queue)
    PROVE  /\ SubSeq(queue, 1, n) \in Seq(Packets)
           /\ SubSeq(queue, n + 1, Len(queue)) \in Seq(Packets)
           /\ SubSeq(queue, 1, n) \o SubSeq(queue, n + 1, Len(queue)) = queue
<1>1. Len(queue) \in Nat
  BY LenProperties
<1>2. \A i \in 1 .. Len(queue) : queue[i] \in Packets
  BY ElementOfSeq
<1>3. SubSeq(queue, 1, n) \in Seq(Packets)
  BY <1>1, <1>2, SubSeqProperties
<1>4. SubSeq(queue, n + 1, Len(queue)) \in Seq(Packets)
  BY <1>1, <1>2, SubSeqProperties
<1>5. SubSeq(queue, 1, n) \o SubSeq(queue, n + 1, Len(queue)) = SubSeq(queue, 1, Len(queue))
  <2>1. 1 \in 1 .. Len(queue) + 1 /\ n \in 1 - 1 .. Len(queue) /\ Len(queue) \in n .. Len(queue)
    BY <1>1
  <2>2. QED
    BY <2>1, ConcatAdjacentSubSeq
<1>6. QED
  BY <1>3, <1>4, <1>5, SubSeqFull

\* Taking the packets of a front part leaves the rest, and takes what was in front.
LEMMA TakeFront ==
    ASSUME NEW front \in Seq(Packets), NEW rest \in Seq(Packets)
    PROVE  /\ SubSeq(front \o rest, 1, Len(front)) = front
           /\ SubSeq(front \o rest, Len(front) + 1, Len(front \o rest)) = rest
<1>1. /\ Len(front) \in Nat /\ Len(rest) \in Nat
      /\ front \o rest \in Seq(Packets)
      /\ Len(front \o rest) = Len(front) + Len(rest)
      /\ \A i \in 1 .. Len(front) + Len(rest) :
            (front \o rest)[i] = IF i <= Len(front) THEN front[i] ELSE rest[i - Len(front)]
  BY LenProperties, ConcatProperties
<1>2. \A i \in 1 .. Len(front \o rest) : (front \o rest)[i] \in Packets
  BY <1>1, ElementOfSeq
<1>3. SubSeq(front \o rest, 1, Len(front)) = front
  <2> DEFINE s == SubSeq(front \o rest, 1, Len(front))
  <2>1. /\ s \in Seq(Packets) /\ Len(s) = Len(front)
        /\ \A i \in 1 .. Len(front) : s[i] = (front \o rest)[i]
    BY <1>1, <1>2, SubSeqProperties
  <2> HIDE DEF s
  <2>2. \A i \in 1 .. Len(s) : s[i] = front[i]
    BY <1>1, <2>1
  <2>3. s = front
    BY <2>1, <2>2, SeqEqual
  <2>4. QED
    BY <2>3 DEF s
<1>4. SubSeq(front \o rest, Len(front) + 1, Len(front \o rest)) = rest
  <2> DEFINE s == SubSeq(front \o rest, Len(front) + 1, Len(front \o rest))
  <2>1. /\ s \in Seq(Packets) /\ Len(s) = Len(rest)
        /\ \A i \in 1 .. Len(rest) : s[i] = (front \o rest)[Len(front) + i]
    BY <1>1, <1>2, SubSeqProperties
  <2> HIDE DEF s
  <2>2. \A i \in 1 .. Len(s) : s[i] = rest[i]
    BY <1>1, <2>1
  <2>3. s = rest
    BY <2>1, <2>2, SeqEqual
  <2>4. QED
    BY <2>3 DEF s
<1>5. QED
  BY <1>3, <1>4

-----------------------------------------------------------------------------
(* The invariant is inductive *)

LEMMA ThreadsDiffer ==
    /\ Services \subseteq Threads /\ Workers \subseteq Threads /\ Ctl \in Threads
    /\ \A s \in Services : s \notin Workers /\ s # Ctl
    /\ \A w \in Workers : w # Ctl
BY PipelineAssumption DEF Threads

\* What a thread does next, after a step of t.
LEMMA NextLabel ==
    ASSUME TypeOK, NEW t \in Threads, NEW label, Goto(t, label)
    PROVE  pc'[t] = label /\ \A u \in Threads : u # t => pc'[u] = pc[u]
BY DEF TypeOK, Goto

\* What TypeOK says of pc, and the labels each thread may go to.
PcTypeOK ==
    /\ pc \in [Threads -> {"idle", "close", "list", "claim", "encrypt", "send"}]
    /\ \A s \in Services : pc[s] \in {"idle", "close"}
    /\ \A w \in Workers : pc[w] \in {"idle", "close", "encrypt", "send"}
    /\ pc[Ctl] \in {"idle", "close", "list", "claim"}

MayGoto(t, label) ==
    \/ label \in {"idle", "close"}
    \/ t \in Workers /\ label \in {"encrypt", "send"}
    \/ t = Ctl /\ label \in {"list", "claim"}

LEMMA LabelTypes ==
    ASSUME TypeOK, NEW t \in Threads, NEW label, MayGoto(t, label), Goto(t, label)
    PROVE  PcTypeOK'
<1>1. pc'[t] = label /\ \A u \in Threads : u # t => pc'[u] = pc[u]
  BY NextLabel
<1>2. label \in {"idle", "close", "list", "claim", "encrypt", "send"}
  BY DEF MayGoto
<1>3. pc' \in [Threads -> {"idle", "close", "list", "claim", "encrypt", "send"}]
  BY <1>2 DEF TypeOK, Goto
<1>4. QED
  BY <1>1, <1>3, ThreadsDiffer DEF TypeOK, PcTypeOK, MayGoto

\* A step that leaves the tasks and their packets alone.
LEMMA TasksUntouched ==
    ASSUME PipelineInv, UNCHANGED <<work, sendTask, encrypts, sends, batch>>,
           \A w \in Workers : pc'[w] # pc[w] =>
                pc'[w] \in {"idle", "close"} /\ pc[w] \in {"idle", "close"}
    PROVE  OneTask' /\ HeldByOwner'
<1>1. \A w \in Workers : /\ Busy(w)' <=> Busy(w)
                         /\ pc'[w] = "encrypt" <=> pc[w] = "encrypt"
                         /\ pc'[w] = "send" <=> pc[w] = "send"
  BY DEF Busy
<1>2. OneTask'
  BY <1>1 DEF PipelineInv, OneTask
<1>3. HeldByOwner'
  BY <1>1 DEF PipelineInv, HeldByOwner
<1>4. QED
  BY <1>2, <1>3

LEMMA InitInv == Init => PipelineInv
<1> SUFFICES ASSUME Init PROVE PipelineInv
  OBVIOUS
<1>1. <<>> \in Seq(Packets)
  OBVIOUS
<1>2. TypeOK
  BY <1>1, ThreadsDiffer DEF Init, TypeOK
<1>3. OneTask
  BY ThreadsDiffer DEF Init, OneTask, Busy
<1>4. HeldByOwner
  BY DEF Init, HeldByOwner
<1>5. QED
  BY <1>2, <1>3, <1>4 DEF PipelineInv

LEMMA WaitingKeeps ==
    ASSUME PipelineInv, NEW s \in Services, NEW p \in Packets, Waiting(s, p)
    PROVE  PipelineInv'
<1>1. TypeOK /\ s \in Threads /\ s \notin Workers
  BY ThreadsDiffer DEF PipelineInv
<1>2. PICK label \in {"idle", "close"} : Goto(s, label)
  BY DEF Waiting
<1>3. PcTypeOK'
  BY <1>1, <1>2, LabelTypes DEF MayGoto
<1>4. waiting' \in Seq(Packets)
  BY <1>1, AppendProperties DEF Waiting, TypeOK
<1>5. TypeOK'
  BY <1>1, <1>3, <1>4 DEF Waiting, TypeOK, PcTypeOK
<1>6. \A w \in Workers : pc'[w] = pc[w]
  BY <1>1, <1>2, NextLabel, ThreadsDiffer
<1>7. OneTask' /\ HeldByOwner'
  BY <1>6, TasksUntouched DEF Waiting
<1>8. QED
  BY <1>5, <1>7 DEF PipelineInv

LEMMA CloseHostKeeps ==
    ASSUME PipelineInv, NEW t \in Threads, CloseHost(t)
    PROVE  PipelineInv'
<1>1. TypeOK /\ Goto(t, "idle")
  BY DEF PipelineInv, CloseHost
<1>2. PcTypeOK'
  BY <1>1, LabelTypes DEF MayGoto
<1>3. TypeOK'
  BY <1>1, <1>2 DEF CloseHost, TypeOK, PcTypeOK
<1>4. pc[t] = "close" /\ pc'[t] = "idle" /\ \A u \in Threads : u # t => pc'[u] = pc[u]
  BY <1>1, NextLabel DEF CloseHost
<1>5. OneTask' /\ HeldByOwner'
  BY <1>4, ThreadsDiffer, TasksUntouched DEF CloseHost
<1>6. QED
  BY <1>3, <1>5 DEF PipelineInv

LEMMA DisconnectKeeps ==
    ASSUME PipelineInv, Disconnect
    PROVE  PipelineInv'
<1>1. TypeOK'
  BY DEF PipelineInv, Disconnect, TypeOK
<1>2. OneTask' /\ HeldByOwner'
  BY TasksUntouched DEF Disconnect
<1>3. QED
  BY <1>1, <1>2 DEF PipelineInv

\* The two tests of BeginSendTask.
LEMMA TestKeeps ==
    ASSUME PipelineInv, TestWork \/ TestWaiting
    PROVE  PipelineInv'
<1>1. TypeOK /\ Ctl \in Threads /\ Ctl \notin Workers
  BY ThreadsDiffer DEF PipelineInv
<1>2. PICK label \in {"idle", "list", "claim"} : Goto(Ctl, label)
  BY DEF TestWork, TestWaiting
<1>3. PcTypeOK'
  BY <1>1, <1>2, LabelTypes DEF MayGoto
<1>4. UNCHANGED <<open, waiting, work, sendTask, encrypts, sends, batch, wire, sent>>
  BY DEF TestWork, TestWaiting
<1>5. TypeOK'
  BY <1>1, <1>3, <1>4 DEF TypeOK, PcTypeOK
<1>6. \A w \in Workers : pc'[w] = pc[w]
  BY <1>1, <1>2, NextLabel, ThreadsDiffer
<1>7. OneTask' /\ HeldByOwner'
  BY <1>4, <1>6, TasksUntouched
<1>8. QED
  BY <1>5, <1>7 DEF PipelineInv

LEMMA ClaimKeeps ==
    ASSUME PipelineInv, Claim
    PROVE  PipelineInv'
<1>1. TypeOK /\ OneTask /\ HeldByOwner
  BY DEF PipelineInv
<1>2. PICK label \in {"idle", "close"} : Goto(Ctl, label)
  BY DEF Claim
<1>3. PcTypeOK'
  BY <1>1, <1>2, ThreadsDiffer, LabelTypes DEF MayGoto
<1>4. TypeOK'
  BY <1>1, <1>3 DEF Claim, TypeOK, PcTypeOK
<1>5. \A w \in Workers : pc'[w] = pc[w]
  BY <1>1, <1>2, NextLabel, ThreadsDiffer
<1>6. CASE UNCHANGED <<sendTask, encrypts>>
  <2>1. OneTask' /\ HeldByOwner'
    BY <1>5, <1>6, TasksUntouched DEF Claim
  <2>2. QED
    BY <1>4, <2>1 DEF PipelineInv
<1>7. CASE sendTask = 0 /\ sendTask' = 1 /\ encrypts' = encrypts + 1
  <2>1. encrypts = 0 /\ sends = 0 /\ \A w \in Workers : ~Busy(w)
    BY <1>1, <1>7 DEF OneTask, TypeOK
  <2>2. \A w \in Workers : ~Busy(w)'
    BY <1>5, <2>1 DEF Busy
  <2>3. encrypts' + sends' = 1 /\ sendTask' = 1
    BY <1>7, <2>1 DEF Claim
  <2>4. OneTask'
    BY <2>2, <2>3 DEF OneTask
  <2>5. HeldByOwner'
    BY <1>1, <1>5 DEF Claim, HeldByOwner
  <2>6. QED
    BY <1>4, <2>4, <2>5 DEF PipelineInv
<1>8. QED
  BY <1>6, <1>7 DEF Claim

LEMMA SwapListsKeeps ==
    ASSUME PipelineInv, NEW w \in Workers, SwapLists(w)
    PROVE  PipelineInv'
<1>1. TypeOK /\ OneTask /\ HeldByOwner /\ w \in Threads
  BY ThreadsDiffer DEF PipelineInv
<1>2. PcTypeOK'
  BY <1>1, LabelTypes DEF MayGoto, SwapLists
<1>3. encrypts = 1 /\ sends = 0 /\ sendTask = 1 /\ \A v \in Workers : ~Busy(v)
  BY <1>1 DEF OneTask, TypeOK, SwapLists
<1>4. encrypts' = 0 /\ sends' = 0 /\ sendTask' = 1
  BY <1>3 DEF SwapLists
<1>5. pc'[w] = "encrypt" /\ \A v \in Workers : v # w => pc'[v] = pc[v]
  BY <1>1, NextLabel, ThreadsDiffer DEF SwapLists
<1>6. TypeOK'
  BY <1>1, <1>2, <1>4 DEF SwapLists, TypeOK, PcTypeOK
<1>7. Busy(w)' /\ \A v \in Workers : v # w => ~Busy(v)'
  BY <1>3, <1>5 DEF Busy
<1>8. OneTask'
  BY <1>4, <1>7 DEF OneTask
<1>9. \A v \in Workers : batch'[v] = <<>>
  BY <1>1, <1>3 DEF SwapLists, HeldByOwner, Busy
<1>10. HeldByOwner'
  BY <1>5, <1>9 DEF HeldByOwner
<1>11. QED
  BY <1>6, <1>8, <1>10 DEF PipelineInv

LEMMA WriteBatchKeeps ==
    ASSUME PipelineInv, NEW w \in Workers, WriteBatch(w)
    PROVE  PipelineInv'
<1>1. TypeOK /\ OneTask /\ HeldByOwner /\ w \in Threads
  BY ThreadsDiffer DEF PipelineInv
<1>2. PcTypeOK'
  BY <1>1, LabelTypes DEF MayGoto, WriteBatch
<1>3. Busy(w) /\ sendTask = 1 /\ \A v \in Workers : v # w => ~Busy(v)
  BY <1>1 DEF OneTask, WriteBatch, Busy
<1>4. encrypts + sends # 1
  BY <1>1, <1>3 DEF OneTask
<1>5. pc'[w] = "send" /\ \A v \in Workers : v # w => pc'[v] = pc[v]
  BY <1>1, NextLabel, ThreadsDiffer DEF WriteBatch
<1>6. PICK n \in 0 .. Len(work) :
        /\ batch' = [batch EXCEPT ![w] = SubSeq(work, 1, n)]
        /\ waiting' = SubSeq(work, n + 1, Len(work)) \o waiting
        /\ work' = <<>>
  BY <1>1, FittingRange DEF WriteBatch, TypeOK
<1>7. /\ SubSeq(work, 1, n) \in Seq(Packets)
      /\ SubSeq(work, n + 1, Len(work)) \in Seq(Packets)
  BY <1>1, Cut DEF TypeOK
<1>8. waiting' \in Seq(Packets)
  BY <1>1, <1>6, <1>7, ConcatProperties DEF TypeOK
<1>9. batch' \in [Workers -> Seq(Packets)]
  BY <1>1, <1>6, <1>7 DEF TypeOK
<1>10. work' \in Seq(Packets)
  BY <1>6, EmptySeq
<1>11. TypeOK'
  BY <1>1, <1>2, <1>8, <1>9, <1>10 DEF WriteBatch, TypeOK, PcTypeOK
<1>12. Busy(w)' /\ \A v \in Workers : v # w => ~Busy(v)'
  BY <1>3, <1>5 DEF Busy
<1>13. UNCHANGED <<sendTask, encrypts, sends>>
  BY DEF WriteBatch
<1>14. OneTask'
  BY <1>1, <1>3, <1>4, <1>12, <1>13 DEF OneTask
<1>15. \A v \in Workers : v # w => batch'[v] = batch[v]
  BY <1>1, <1>6 DEF TypeOK
<1>16. HeldByOwner'
  BY <1>1, <1>3, <1>5, <1>6, <1>15 DEF HeldByOwner, Busy
<1>17. QED
  BY <1>11, <1>14, <1>16 DEF PipelineInv

LEMMA SendKeeps ==
    ASSUME PipelineInv, NEW w \in Workers, Send(w)
    PROVE  PipelineInv'
<1>1. TypeOK /\ OneTask /\ HeldByOwner /\ w \in Threads
  BY ThreadsDiffer DEF PipelineInv
<1>2. PICK label \in {"idle", "close"} : Goto(w, label)
  BY DEF Send
<1>3. PcTypeOK'
  BY <1>1, <1>2, LabelTypes DEF MayGoto
<1>4. Busy(w) /\ sendTask = 1 /\ \A v \in Workers : v # w => ~Busy(v)
  BY <1>1 DEF OneTask, Send, Busy
<1>5. encrypts = 0 /\ sends = 0
  BY <1>1, <1>4 DEF OneTask, TypeOK
<1>6. pc'[w] = label /\ \A v \in Workers : v # w => pc'[v] = pc[v]
  BY <1>1, <1>2, NextLabel, ThreadsDiffer
<1>7. batch' = [batch EXCEPT ![w] = <<>>] /\ batch[w] \in Seq(Packets) /\ wire \in Seq(Packets)
  BY <1>1 DEF Send, TypeOK
<1>8. batch' \in [Workers -> Seq(Packets)]
  BY <1>1, <1>7, EmptySeq DEF TypeOK
<1>9. \/ wire' = wire \o batch[w] /\ sends' = 1 /\ sendTask' = 1
      \/ wire' = wire /\ sends' = 0 /\ sendTask' = 0
  BY <1>4, <1>5 DEF Send
<1>10. wire' \in Seq(Packets)
  BY <1>7, <1>9, ConcatProperties
<1>11. UNCHANGED <<open, waiting, work, encrypts, sent>>
  BY DEF Send
<1>12. TypeOK'
  BY <1>1, <1>3, <1>8, <1>9, <1>10, <1>11 DEF TypeOK, PcTypeOK
<1>13. \A v \in Workers : ~Busy(v)'
  BY <1>4, <1>6 DEF Busy
<1>14. OneTask'
  BY <1>5, <1>9, <1>11, <1>13 DEF OneTask
<1>15. \A v \in Workers : batch'[v] = <<>>
  BY <1>1, <1>4, <1>7 DEF HeldByOwner, Busy, TypeOK
<1>16. work' = <<>>
  BY <1>1, <1>4, <1>11 DEF HeldByOwner, Busy, Send
<1>17. HeldByOwner'
  BY <1>15, <1>16 DEF HeldByOwner
<1>18. QED
  BY <1>12, <1>14, <1>17 DEF PipelineInv

LEMMA ProcessSendKeeps ==
    ASSUME PipelineInv, NEW w \in Workers, ProcessSend(w)
    PROVE  PipelineInv'
<1>1. TypeOK /\ OneTask /\ HeldByOwner /\ w \in Threads
  BY ThreadsDiffer DEF PipelineInv
<1>2. pc' = pc \/ Goto(w, "close")
  BY DEF ProcessSend
<1>3. PcTypeOK'
  <2>1. CASE pc' = pc
    BY <1>1, <2>1 DEF TypeOK, PcTypeOK
  <2>2. CASE Goto(w, "close")
    BY <1>1, <2>2, LabelTypes DEF MayGoto
  <2>3. QED
    BY <1>2, <2>1, <2>2
<1>4. encrypts = 0 /\ sends = 1 /\ \A v \in Workers : ~Busy(v)
  BY <1>1 DEF OneTask, TypeOK, ProcessSend
<1>5. encrypts' = 0 /\ sends' = 0 /\ sendTask' = 0
  BY <1>4 DEF ProcessSend
<1>6. TypeOK'
  BY <1>1, <1>3, <1>5 DEF ProcessSend, TypeOK, PcTypeOK
<1>7. pc'[w] \in {"idle", "close"} /\ \A v \in Workers : v # w => pc'[v] = pc[v]
  BY <1>1, <1>2, NextLabel, ThreadsDiffer DEF ProcessSend
<1>8. \A v \in Workers : ~Busy(v)'
  BY <1>4, <1>7 DEF Busy
<1>9. OneTask'
  BY <1>5, <1>8 DEF OneTask
<1>10. work' = <<>> /\ \A v \in Workers : batch'[v] = <<>>
  BY <1>1, <1>4 DEF ProcessSend, HeldByOwner, Busy
<1>11. HeldByOwner'
  BY <1>10 DEF HeldByOwner
<1>12. QED
  BY <1>6, <1>9, <1>11 DEF PipelineInv

LEMMA StepKeeps == PipelineInv /\ [Next]_vars => PipelineInv'
<1> SUFFICES ASSUME PipelineInv, [Next]_vars PROVE PipelineInv'
  OBVIOUS
<1>1. CASE UNCHANGED vars
  BY <1>1 DEF vars, PipelineInv, TypeOK, OneTask, HeldByOwner, Busy
<1>2. CASE \E s \in Services, p \in Packets : Waiting(s, p)
  BY <1>2, WaitingKeeps
<1>3. CASE Disconnect
  BY <1>3, DisconnectKeeps
<1>4. CASE \E t \in Threads : CloseHost(t)
  BY <1>4, CloseHostKeeps
<1>5. CASE Controller
  BY <1>5, TestKeeps, ClaimKeeps DEF Controller
<1>6. CASE \E w \in Workers : Worker(w)
  BY <1>6, SwapListsKeeps, WriteBatchKeeps, SendKeeps, ProcessSendKeeps DEF Worker
<1>7. QED
  BY <1>1, <1>2, <1>3, <1>4, <1>5, <1>6 DEF Next

-----------------------------------------------------------------------------
(* The theorems on the send task *)

\* What BeginSendTask, Encrypt, Send and ProcessSend keep true: one context or
\* worker has the send task, and only it holds packets outside the waiting list.
THEOREM PipelineInvariant == Spec => []PipelineInv
<1>1. Init => PipelineInv
  BY InitInv
<1>2. PipelineInv /\ [Next]_vars => PipelineInv'
  BY StepKeeps
<1>3. QED
  BY <1>1, <1>2, PTL DEF Spec

\* The lists, the context of each worker and the counters have their types; the send
\* task counter is never above 1.
THEOREM TypeCorrect == Spec => []TypeOK
<1>1. PipelineInv => TypeOK
  BY DEF PipelineInv
<1>2. QED
  BY <1>1, PipelineInvariant, PTL

\* m_lSendTaskCount is a lock: it equals the number of contexts in the port and of
\* workers between Encrypt and Send, which is what keeps two workers off the
\* unguarded m_oSendWorkQueue.
THEOREM SendTaskLocks == Spec => []SendTaskIsALock
<1>1. PipelineInv => SendTaskIsALock
  <2> SUFFICES ASSUME PipelineInv PROVE SendTaskIsALock
    OBVIOUS
  <2> DEFINE B == {w \in Workers : pc[w] \in {"encrypt", "send"}}
  <2>1. encrypts \in Nat /\ sends \in Nat /\ sendTask \in 0 .. 1 /\ OneTask /\ HeldByOwner
    BY DEF PipelineInv, TypeOK
  <2>2. encrypts + sends + Cardinality(B) = sendTask
    <3>1. CASE \E w \in Workers : Busy(w)
      <4>1. PICK w \in Workers : Busy(w)
        BY <3>1
      <4>2. B = {w}
        BY <2>1, <4>1 DEF OneTask, Busy
      <4>3. Cardinality(B) = 1
        BY <4>2, FS_Singleton
      <4>4. encrypts + sends = 0 /\ sendTask = 1
        BY <2>1, <4>1 DEF OneTask
      <4>5. QED
        BY <2>1, <4>3, <4>4
    <3>2. CASE \A w \in Workers : ~Busy(w)
      <4>1. B = {}
        BY <3>2 DEF Busy
      <4>2. Cardinality(B) = 0
        BY <4>1, FS_EmptySet
      <4>3. encrypts + sends = sendTask
        BY <2>1, <3>2 DEF OneTask
      <4>4. QED
        BY <2>1, <4>2, <4>3
    <3>3. QED
      BY <3>1, <3>2
  <2>3. QED
    BY <2>1, <2>2 DEF SendTaskIsALock
<1>2. QED
  BY <1>1, PipelineInvariant, PTL

-----------------------------------------------------------------------------
(* The pipeline implements the channel *)

\* Held, of any assignment of packets to the workers.
HeldIn(b) == IF \E w \in Workers : b[w] # <<>>
             THEN b[CHOOSE w \in Workers : b[w] # <<>>]
             ELSE <<>>

LEMMA HeldByOne ==
    ASSUME NEW b, NEW w \in Workers, \A v \in Workers : v # w => b[v] = <<>>
    PROVE  HeldIn(b) = b[w]
<1>1. CASE b[w] = <<>>
  BY <1>1 DEF HeldIn
<1>2. CASE b[w] # <<>>
  <2>1. (CHOOSE v \in Workers : b[v] # <<>>) = w
    BY <1>2
  <2>2. QED
    BY <1>2, <2>1 DEF HeldIn
<1>3. QED
  BY <1>1, <1>2

LEMMA HeldByNone ==
    ASSUME NEW b, \A v \in Workers : b[v] = <<>>
    PROVE  HeldIn(b) = <<>>
BY DEF HeldIn

LEMMA PendingTypes ==
    ASSUME PipelineInv
    PROVE  /\ Held \in Seq(Packets) /\ work \in Seq(Packets) /\ waiting \in Seq(Packets)
           /\ Held \o work \in Seq(Packets) /\ Pending \in Seq(Packets)
<1>1. batch \in [Workers -> Seq(Packets)] /\ work \in Seq(Packets) /\ waiting \in Seq(Packets)
  BY DEF PipelineInv, TypeOK
<1>2. Held \in Seq(Packets)
  <2>1. CASE \E w \in Workers : batch[w] # <<>>
    <3>1. (CHOOSE w \in Workers : batch[w] # <<>>) \in Workers
      BY <2>1
    <3>2. QED
      BY <1>1, <2>1, <3>1 DEF Held
  <2>2. CASE ~ \E w \in Workers : batch[w] # <<>>
    BY <2>2, EmptySeq DEF Held
  <2>3. QED
    BY <2>1, <2>2
<1>3. Held \o work \in Seq(Packets)
  BY <1>1, <1>2, ConcatProperties
<1>4. Pending \in Seq(Packets)
  BY <1>1, <1>3, ConcatProperties DEF Pending
<1>5. QED
  BY <1>1, <1>2, <1>3, <1>4

\* What a step does to the channel, but for a packet that is put into it.
Moves ==
    \/ Channel!Break \/ Channel!Close
    \/ \E n \in 1 .. Len(Pending) : Channel!Transmit(n) \/ Channel!Lose(n)
    \/ UNCHANGED Channel!vars

LEMMA MovesAreSteps == Moves => [Channel!Next]_(Channel!vars)
BY DEF Moves, Channel!Next

\* A step that moves no packet to the system keeps the channel, or breaks it.
LEMMA StutterOrBreak ==
    ASSUME Pending' = Pending, UNCHANGED <<wire, open>>, Broken => Broken'
    PROVE  Moves
<1>1. CASE ~Broken /\ Broken'
  <2>1. Channel!Break
    BY <1>1 DEF Channel!Break, Pending, Broken
  <2>2. QED
    BY <2>1 DEF Moves
<1>2. CASE Broken' <=> Broken
  BY <1>2 DEF Moves, Channel!vars
<1>3. QED
  BY <1>1, <1>2

\* Only a thread that goes to close breaks the channel, and none that closes mends it.
LEMMA BrokenSteps ==
    ASSUME TypeOK, NEW t \in Threads, NEW label, Goto(t, label), pc[t] # "close", open' = open
    PROVE  /\ label = "close" => Broken'
           /\ Broken => Broken'
           /\ label # "close" => (Broken' <=> Broken)
BY NextLabel DEF Broken

LEMMA WaitingPuts ==
    ASSUME PipelineInv, NEW s \in Services, NEW p \in Packets, Waiting(s, p)
    PROVE  Channel!Put(p)
<1>1. TypeOK /\ s \in Threads
  BY ThreadsDiffer DEF PipelineInv
<1>2. PICK label \in {"idle", "close"} : Goto(s, label)
  BY DEF Waiting
<1>3. pc[s] # "close" /\ open' = open /\ wire' = wire
  BY DEF Waiting
<1>4. Broken' \in {Broken, TRUE}
  BY <1>1, <1>2, <1>3, BrokenSteps DEF Broken
<1>5. Held' = Held /\ work' = work /\ waiting' = waiting \o <<p>>
  BY PendingTypes, AppendIsConcat DEF Waiting, Held
<1>6. <<p>> \in Seq(Packets)
  OBVIOUS
<1>7. Pending' = Append(Pending, p)
  <2>1. (Held \o work) \o (waiting \o <<p>>) = ((Held \o work) \o waiting) \o <<p>>
    <3>1. /\ Held \o work \in Seq(Packets) /\ waiting \in Seq(Packets)
          /\ <<p>> \in Seq(Packets)
      BY <1>6, PendingTypes
    <3>2. QED
      BY <3>1, ConcatAssociative
  <2>2. Append(Pending, p) = Pending \o <<p>>
    BY PendingTypes, AppendIsConcat
  <2>3. QED
    BY <1>5, <2>1, <2>2 DEF Pending
<1>8. QED
  BY <1>3, <1>4, <1>7 DEF Channel!Put, Pending, Broken

LEMMA ClosesClose ==
    ASSUME PipelineInv, Disconnect \/ \E t \in Threads : CloseHost(t)
    PROVE  Moves
<1>1. open' = FALSE /\ UNCHANGED <<work, waiting, batch, wire>>
  BY DEF Disconnect, CloseHost
<1>2. Pending' = Pending
  BY <1>1 DEF Pending, Held
<1>3. Broken'
  BY <1>1 DEF Broken
<1>4. CASE open
  <2>1. Channel!Close
    BY <1>1, <1>2, <1>3, <1>4 DEF Channel!Close, Pending, Broken
  <2>2. QED
    BY <2>1 DEF Moves
<1>5. CASE ~open
  <2>1. open' = open
    BY <1>1, <1>5 DEF PipelineInv, TypeOK
  <2>2. QED
    BY <1>1, <1>2, <1>3, <2>1, StutterOrBreak
<1>6. QED
  BY <1>4, <1>5

LEMMA ControllerStutters ==
    ASSUME PipelineInv, Controller
    PROVE  Moves
<1>1. TypeOK /\ Ctl \in Threads /\ pc[Ctl] # "close"
  BY ThreadsDiffer DEF PipelineInv, Controller, TestWork, TestWaiting, Claim
<1>2. PICK label : Goto(Ctl, label)
  BY DEF Controller, TestWork, TestWaiting, Claim
<1>3. UNCHANGED <<open, work, waiting, batch, wire>>
  BY DEF Controller, TestWork, TestWaiting, Claim
<1>4. Pending' = Pending
  BY <1>3 DEF Pending, Held
<1>5. Broken => Broken'
  BY <1>1, <1>2, <1>3, BrokenSteps
<1>6. QED
  BY <1>3, <1>4, <1>5, StutterOrBreak

LEMMA SwapListsStutters ==
    ASSUME PipelineInv, NEW w \in Workers, SwapLists(w)
    PROVE  Moves
<1>1. TypeOK /\ OneTask /\ HeldByOwner /\ w \in Threads
  BY ThreadsDiffer DEF PipelineInv
<1>2. \A v \in Workers : ~Busy(v)
  BY <1>1 DEF OneTask, TypeOK, SwapLists
<1>3. work = <<>> /\ \A v \in Workers : batch[v] = <<>>
  BY <1>1, <1>2 DEF HeldByOwner, Busy
<1>4. Held = <<>> /\ Held' = <<>>
  BY <1>3 DEF Held, SwapLists
<1>5. work' = waiting /\ waiting' = <<>> /\ UNCHANGED <<wire, open>>
  BY <1>3 DEF SwapLists
<1>6. Pending' = Pending
  BY <1>3, <1>4, <1>5, PendingTypes, EmptySeq, ConcatEmptySeq DEF Pending
<1>7. Broken => Broken'
  BY <1>1, <1>5, BrokenSteps DEF SwapLists
<1>8. QED
  BY <1>5, <1>6, <1>7, StutterOrBreak

\* What does not fit goes back in front of what services sent meanwhile.
LEMMA WriteBatchStutters ==
    ASSUME PipelineInv, NEW w \in Workers, WriteBatch(w)
    PROVE  Moves
<1>1. TypeOK /\ OneTask /\ HeldByOwner /\ w \in Threads
  BY ThreadsDiffer DEF PipelineInv
<1>2. Busy(w) /\ \A v \in Workers : v # w => ~Busy(v)
  BY <1>1 DEF OneTask, WriteBatch, Busy
<1>3. \A v \in Workers : batch[v] = <<>>
  BY <1>1, <1>2 DEF HeldByOwner, Busy, WriteBatch
<1>4. PICK n \in 0 .. Len(work) :
        /\ batch' = [batch EXCEPT ![w] = SubSeq(work, 1, n)]
        /\ waiting' = SubSeq(work, n + 1, Len(work)) \o waiting
        /\ work' = <<>>
  BY <1>1, FittingRange DEF WriteBatch, TypeOK
<1> DEFINE front == SubSeq(work, 1, n)
           rest  == SubSeq(work, n + 1, Len(work))
<1>5. front \in Seq(Packets) /\ rest \in Seq(Packets) /\ front \o rest = work
  BY PendingTypes, Cut
<1>6. batch'[w] = front /\ \A v \in Workers : v # w => batch'[v] = <<>>
  BY <1>1, <1>3, <1>4 DEF TypeOK
<1> HIDE DEF front, rest
<1>7. Held = <<>>
  BY <1>3 DEF Held
<1>8. Held' = front
  <2>1. Held' = HeldIn(batch')
    BY DEF Held, HeldIn
  <2>2. QED
    BY <1>6, <2>1, HeldByOne
<1>9. Pending = (front \o rest) \o waiting
  BY <1>5, <1>7, PendingTypes, ConcatEmptySeq DEF Pending
<1>10. Pending' = front \o (rest \o waiting)
  BY <1>4, <1>5, <1>8, ConcatEmptySeq DEF Pending, rest
<1>11. Pending' = Pending
  <2>1. front \in Seq(Packets) /\ rest \in Seq(Packets) /\ waiting \in Seq(Packets)
    BY <1>5, PendingTypes
  <2>2. (front \o rest) \o waiting = front \o (rest \o waiting)
    BY <2>1, ConcatAssociative
  <2>3. QED
    BY <1>9, <1>10, <2>2
<1>12. UNCHANGED <<wire, open>>
  BY DEF WriteBatch
<1>13. Broken => Broken'
  BY <1>1, <1>12, BrokenSteps DEF WriteBatch
<1>14. QED
  BY <1>11, <1>12, <1>13, StutterOrBreak

\* WSASend takes all packets of the context, or they are lost and the host closes.
LEMMA SendTransmits ==
    ASSUME PipelineInv, NEW w \in Workers, Send(w)
    PROVE  Moves
<1>1. TypeOK /\ OneTask /\ HeldByOwner /\ w \in Threads
  BY ThreadsDiffer DEF PipelineInv
<1>2. Busy(w) /\ pc[w] = "send" /\ \A v \in Workers : v # w => ~Busy(v)
  BY <1>1 DEF OneTask, Send, Busy
<1>3. work = <<>> /\ \A v \in Workers : v # w => batch[v] = <<>>
  BY <1>1, <1>2 DEF HeldByOwner, Busy
<1>4. /\ batch' = [batch EXCEPT ![w] = <<>>] /\ UNCHANGED <<open, waiting, work>>
      /\ batch[w] \in Seq(Packets)
  BY <1>1 DEF Send, TypeOK
<1>5. Held = batch[w]
  <2>1. Held = HeldIn(batch)
    BY DEF Held, HeldIn
  <2>2. QED
    BY <1>3, <2>1, HeldByOne
<1>6. Held' = <<>>
  <2>1. \A v \in Workers : batch'[v] = <<>>
    BY <1>1, <1>3, <1>4 DEF TypeOK
  <2>2. QED
    BY <2>1 DEF Held
<1>7. Pending = batch[w] \o waiting /\ Pending' = waiting
  BY <1>3, <1>4, <1>5, <1>6, PendingTypes, EmptySeq, ConcatEmptySeq DEF Pending
<1>8. PICK k \in Nat : k = Len(batch[w])
  BY <1>4, LenProperties
<1>9. /\ SubSeq(Pending, 1, k) = batch[w]
      /\ SubSeq(Pending, k + 1, Len(Pending)) = waiting
  BY <1>8, <1>4, <1>7, PendingTypes, TakeFront
<1>10. batch[w] # <<>> => k \in 1 .. Len(Pending)
  BY <1>8, <1>4, <1>7, PendingTypes, EmptySeq, LenProperties, ConcatProperties
<1>11. CASE open /\ batch[w] # <<>> /\ wire' = wire \o batch[w] /\ Goto(w, "idle")
  <2>1. Broken' <=> Broken
    BY <1>1, <1>2, <1>4, <1>11, BrokenSteps
  <2>2. Channel!Transmit(k)
    BY <1>4, <1>7, <1>9, <1>11, <2>1 DEF Channel!Transmit, Channel!Take, Pending, Broken
  <2>3. \E n \in 1 .. Len(Pending) : Channel!Transmit(n)
    BY <1>10, <1>11, <2>2
  <2>4. QED
    BY <2>3 DEF Moves, Pending
<1>12. CASE wire' = wire /\ Goto(w, "close")
  <2>1. Broken' /\ (Broken => Broken')
    BY <1>1, <1>2, <1>4, <1>12, BrokenSteps
  <2>2. CASE batch[w] # <<>>
    <3>1. Channel!Lose(k)
      BY <1>4, <1>7, <1>9, <1>12, <2>1 DEF Channel!Lose, Channel!Take, Pending, Broken
    <3>2. \E n \in 1 .. Len(Pending) : Channel!Lose(n)
      BY <1>10, <2>2, <3>1
    <3>3. QED
      BY <3>2 DEF Moves, Pending
  <2>3. CASE batch[w] = <<>>
    <3>1. Pending' = Pending
      BY <1>7, <2>3, PendingTypes, ConcatEmptySeq
    <3>2. QED
      BY <1>4, <1>12, <2>1, <3>1, StutterOrBreak
  <2>4. QED
    BY <2>2, <2>3
<1>13. QED
  BY <1>11, <1>12 DEF Send

LEMMA ProcessSendStutters ==
    ASSUME PipelineInv, NEW w \in Workers, ProcessSend(w)
    PROVE  Moves
<1>1. TypeOK /\ w \in Threads /\ pc[w] # "close"
  BY ThreadsDiffer DEF PipelineInv, ProcessSend
<1>2. UNCHANGED <<open, work, waiting, batch, wire>>
  BY DEF ProcessSend
<1>3. Pending' = Pending
  BY <1>2 DEF Pending, Held
<1>4. Broken => Broken'
  <2>1. CASE pc' = pc
    BY <1>2, <2>1 DEF Broken
  <2>2. CASE Goto(w, "close")
    BY <1>1, <1>2, <2>2, BrokenSteps
  <2>3. QED
    BY <2>1, <2>2 DEF ProcessSend
<1>5. QED
  BY <1>2, <1>3, <1>4, StutterOrBreak

\* NetworkManager::Send as its callers see it: whatever the threads do, packets of a
\* connection leave in order, at most once, none after the close, and a packet is
\* lost only with a failure that some thread is about to close the connection for.
THEOREM PipelineIsAChannel == Spec => ImplementsChannel
<1>1. Init => Channel!Init
  <2> SUFFICES ASSUME Init PROVE Channel!Init
    OBVIOUS
  <2>1. Held = <<>> /\ work = <<>> /\ waiting = <<>> /\ wire = <<>> /\ open = TRUE
    BY DEF Init, Held
  <2>2. Held \o work \o waiting = <<>>
    BY <2>1
  <2>3. ~Broken
    BY <2>1 DEF Init, Broken
  <2>4. QED
    BY <2>1, <2>2, <2>3 DEF Channel!Init, Pending
<1>2. PipelineInv /\ [Next]_vars => [Channel!Next]_(Channel!vars)
  <2> SUFFICES ASSUME PipelineInv, [Next]_vars PROVE [Channel!Next]_(Channel!vars)
    OBVIOUS
  <2>1. CASE UNCHANGED vars
    BY <2>1 DEF vars, Channel!vars, Pending, Broken, Held
  <2>2. ASSUME NEW s \in Services, NEW p \in Packets, Waiting(s, p)
        PROVE  [Channel!Next]_(Channel!vars)
    BY <2>2, WaitingPuts DEF Channel!Next
  <2>3. CASE Disconnect \/ \E t \in Threads : CloseHost(t)
    BY <2>3, ClosesClose, MovesAreSteps
  <2>4. CASE Controller
    BY <2>4, ControllerStutters, MovesAreSteps
  <2>5. ASSUME NEW w \in Workers, Worker(w)
        PROVE  [Channel!Next]_(Channel!vars)
    BY <2>5, SwapListsStutters, WriteBatchStutters, SendTransmits, ProcessSendStutters, MovesAreSteps
       DEF Worker
  <2>6. QED
    BY <2>1, <2>2, <2>3, <2>4, <2>5 DEF Next
<1>3. QED
  BY <1>1, <1>2, PipelineInvariant, PTL DEF Spec, ImplementsChannel, Channel!Spec

-----------------------------------------------------------------------------
(* No packet is lost or doubled on the way *)

\* What a sequence with one more element at its end holds.
LEMMA OnceAppended ==
    ASSUME NEW a \in Seq(Packets), NEW b \in Seq(Packets), NEW p \in Packets,
           IsInjective(a \o b), p \notin Range(a \o b)
    PROVE  /\ IsInjective(a \o Append(b, p))
           /\ Range(a \o Append(b, p)) = Range(a \o b) \cup {p}
<1> DEFINE q == a \o b
           r == a \o Append(b, p)
<1>1. /\ Len(a) \in Nat /\ Len(b) \in Nat /\ q \in Seq(Packets) /\ r \in Seq(Packets)
      /\ Len(q) = Len(a) + Len(b) /\ Len(r) = Len(q) + 1 /\ Len(q) \in Nat
  OBVIOUS
<1>2. r = Append(q, p)
  OBVIOUS
<1>3. /\ \A i \in 1 .. Len(q) : r[i] = q[i]
      /\ r[Len(q) + 1] = p
  BY <1>1, <1>2
<1>4. /\ DOMAIN q = 1 .. Len(q) /\ DOMAIN r = 1 .. Len(r)
      /\ \A i \in 1 .. Len(r) : i \in 1 .. Len(q) \/ i = Len(q) + 1
      /\ 1 .. Len(q) \subseteq 1 .. Len(r) /\ Len(q) + 1 \in 1 .. Len(r)
  BY <1>1
<1> HIDE DEF q, r
<1>5. \A i \in 1 .. Len(q) : q[i] # p
  BY <1>4 DEF Range, q
<1>6. \A i, j \in 1 .. Len(q) : q[i] = q[j] => i = j
  BY <1>4 DEF IsInjective, q
<1>7. IsInjective(r)
  BY <1>3, <1>4, <1>5, <1>6 DEF IsInjective
<1>8. Range(r) = Range(q) \cup {p}
  BY <1>3, <1>4 DEF Range
<1>9. QED
  BY <1>7, <1>8 DEF q, r

\* What is left of a sequence when some of its middle is taken out.
LEMMA OnceCut ==
    ASSUME NEW a \in Seq(Packets), NEW b \in Seq(Packets), NEW n \in 0 .. Len(b),
           IsInjective(a \o b)
    PROVE  /\ IsInjective(a \o SubSeq(b, n + 1, Len(b)))
           /\ Range(a \o SubSeq(b, n + 1, Len(b))) \subseteq Range(a \o b)
<1> DEFINE c == SubSeq(b, n + 1, Len(b))
           q == a \o b
           r == a \o c
           At(i) == IF i <= Len(a) THEN i ELSE i + n
<1>1. /\ Len(a) \in Nat /\ Len(b) \in Nat /\ c \in Seq(Packets) /\ Len(c) = Len(b) - n
      /\ \A i \in 1 .. Len(c) : c[i] = b[n + i]
  BY Cut
<1> HIDE DEF c
<1>2. /\ q \in Seq(Packets) /\ r \in Seq(Packets)
      /\ Len(q) = Len(a) + Len(b) /\ Len(r) = Len(a) + Len(c)
  <2>1. c \in Seq(Packets)
    BY <1>1
  <2>2. q \in Seq(Packets) /\ Len(q) = Len(a) + Len(b)
    OBVIOUS
  <2>3. r \in Seq(Packets) /\ Len(r) = Len(a) + Len(c)
    BY <2>1
  <2>4. QED
    BY <2>2, <2>3
<1>3. ASSUME NEW i \in 1 .. Len(r) PROVE At(i) \in 1 .. Len(q) /\ r[i] = q[At(i)]
  <2>1. At(i) \in 1 .. Len(q)
    BY <1>1, <1>2
  <2>2. CASE i <= Len(a)
    BY <1>1, <1>2, <2>2
  <2>3. CASE i > Len(a)
    <3>1. i - Len(a) \in 1 .. Len(c) /\ r[i] = c[i - Len(a)]
      BY <1>1, <1>2, <2>3
    <3>2. (i + n) - Len(a) \in 1 .. Len(b) /\ q[i + n] = b[(i + n) - Len(a)]
      BY <1>1, <1>2, <2>3
    <3>3. n + (i - Len(a)) = (i + n) - Len(a)
      BY <1>1
    <3>4. QED
      BY <1>1, <2>1, <2>3, <3>1, <3>2, <3>3
  <2>4. QED
    BY <1>1, <2>1, <2>2, <2>3
<1>4. \A i, j \in 1 .. Len(r) : At(i) = At(j) => i = j
  <2>1. n \in Nat /\ Len(a) \in Nat
    BY <1>1
  <2>2. \A i, j \in Nat : At(i) = At(j) => i = j
    BY <2>1
  <2>3. 1 .. Len(r) \subseteq Nat
    BY <1>2
  <2> HIDE DEF At
  <2>4. QED
    BY <2>2, <2>3
<1>5. DOMAIN q = 1 .. Len(q) /\ DOMAIN r = 1 .. Len(r)
  BY <1>2
<1> HIDE DEF q, r, At
<1>6. \A i, j \in 1 .. Len(q) : q[i] = q[j] => i = j
  BY <1>5 DEF IsInjective, q
<1>7. IsInjective(r) /\ Range(r) \subseteq Range(q)
  BY <1>3, <1>4, <1>5, <1>6 DEF IsInjective, Range
<1>8. QED
  BY <1>7 DEF q, r, c

\* A service puts a packet nobody has sent before at the end of the line.
LEMMA WaitingKeepsPackets ==
    ASSUME PipelineInv, PacketsAreKept, NEW s \in Services, NEW p \in Packets, Waiting(s, p)
    PROVE  PacketsAreKept'
<1>1. /\ Pending' = Append(Pending, p) /\ Broken' \in {Broken, TRUE} /\ wire' = wire
  BY WaitingPuts DEF Channel!Put
<1>2. sent' = sent \cup {p} /\ p \notin sent
  BY DEF Waiting
<1>3. wire \in Seq(Packets) /\ Pending \in Seq(Packets)
  BY PendingTypes DEF PipelineInv, TypeOK
<1>4. IsInjective(wire \o Pending) /\ p \notin Range(wire \o Pending)
  BY <1>2 DEF PacketsAreKept
<1>5. /\ IsInjective((wire \o Pending)')
      /\ Range((wire \o Pending)') = Range(wire \o Pending) \cup {p}
  BY <1>1, <1>3, <1>4, OnceAppended
<1>6. QED
  BY <1>1, <1>2, <1>5 DEF PacketsAreKept

\* The system takes the packets at the front of the line; only a failure drops them.
LEMMA MovesKeepPackets ==
    ASSUME PipelineInv, PacketsAreKept, Moves, UNCHANGED sent
    PROVE  PacketsAreKept'
<1>1. wire \in Seq(Packets) /\ Pending \in Seq(Packets) /\ Len(Pending) \in Nat
  BY PendingTypes DEF PipelineInv, TypeOK
<1>2. CASE UNCHANGED <<wire, Pending>> /\ (Broken => Broken')
  BY <1>2 DEF PacketsAreKept
<1>3. ASSUME NEW n \in 1 .. Len(Pending), Channel!Transmit(n)
      PROVE  PacketsAreKept'
  <2> DEFINE front == SubSeq(Pending, 1, n)
             rest  == SubSeq(Pending, n + 1, Len(Pending))
  <2>1. wire' = wire \o front /\ Pending' = rest /\ Broken' = Broken
    BY <1>3 DEF Channel!Transmit, Channel!Take
  <2>2. front \in Seq(Packets) /\ rest \in Seq(Packets) /\ front \o rest = Pending
    BY <1>1, Cut
  <2> HIDE DEF front, rest
  <2>3. (wire \o front) \o rest = wire \o Pending
    <3>1. wire \in Seq(Packets) /\ front \in Seq(Packets) /\ rest \in Seq(Packets)
      BY <1>1, <2>2
    <3>2. (wire \o front) \o rest = wire \o (front \o rest)
      BY <3>1, ConcatAssociative
    <3>3. QED
      BY <2>2, <3>2
  <2>4. wire' \o Pending' = wire \o Pending
    BY <2>1, <2>3
  <2>5. QED
    BY <2>1, <2>4 DEF PacketsAreKept
<1>4. ASSUME NEW n \in 1 .. Len(Pending), Channel!Lose(n)
      PROVE  PacketsAreKept'
  <2> DEFINE rest == SubSeq(Pending, n + 1, Len(Pending))
  <2>1. wire' = wire /\ Pending' = rest /\ Broken'
    BY <1>4 DEF Channel!Lose, Channel!Take
  <2>2. n \in 0 .. Len(Pending) /\ IsInjective(wire \o Pending)
    BY <1>1 DEF PacketsAreKept
  <2>3. IsInjective(wire \o rest) /\ Range(wire \o rest) \subseteq Range(wire \o Pending)
    BY <1>1, <2>2, OnceCut
  <2> HIDE DEF rest
  <2>4. QED
    BY <2>1, <2>3 DEF PacketsAreKept
<1>5. CASE Channel!Break \/ Channel!Close \/ UNCHANGED Channel!vars
  <2>1. UNCHANGED <<wire, Pending>> /\ (Broken => Broken')
    BY <1>5 DEF Channel!Break, Channel!Close, Channel!vars
  <2>2. QED
    BY <1>2, <2>1
<1>6. QED
  BY <1>3, <1>4, <1>5 DEF Moves

\* Whatever the lists are swapped, cut and joined, each packet a service has sent is on
\* the wire or in one of them, once, until the connection breaks.
THEOREM PacketsStay == Spec => []PacketsAreKept
<1>1. Init => PacketsAreKept
  <2> SUFFICES ASSUME Init PROVE PacketsAreKept
    OBVIOUS
  <2>1. Held = <<>> /\ work = <<>> /\ waiting = <<>> /\ wire = <<>> /\ sent = {}
    BY DEF Init, Held
  <2>2. wire \o Pending = <<>>
    BY <2>1 DEF Pending
  <2>3. QED
    BY <2>1, <2>2 DEF PacketsAreKept, IsInjective, Range
<1>2. PipelineInv /\ PacketsAreKept /\ [Next]_vars => PacketsAreKept'
  <2> SUFFICES ASSUME PipelineInv, PacketsAreKept, [Next]_vars PROVE PacketsAreKept'
    OBVIOUS
  <2>1. CASE UNCHANGED vars
    BY <2>1 DEF vars, PacketsAreKept, Pending, Broken, Held
  <2>2. ASSUME NEW s \in Services, NEW p \in Packets, Waiting(s, p) PROVE PacketsAreKept'
    BY <2>2, WaitingKeepsPackets
  <2>3. CASE Disconnect \/ \E t \in Threads : CloseHost(t)
    BY <2>3, ClosesClose, MovesKeepPackets DEF Disconnect, CloseHost
  <2>4. CASE Controller
    BY <2>4, ControllerStutters, MovesKeepPackets
       DEF Controller, TestWork, TestWaiting, Claim
  <2>5. ASSUME NEW w \in Workers, Worker(w) PROVE PacketsAreKept'
    <3>1. Moves
      BY <2>5, SwapListsStutters, WriteBatchStutters, SendTransmits, ProcessSendStutters DEF Worker
    <3>2. UNCHANGED sent
      BY <2>5 DEF Worker, SwapLists, WriteBatch, Send, ProcessSend
    <3>3. QED
      BY <3>1, <3>2, MovesKeepPackets
  <2>6. QED
    BY <2>1, <2>2, <2>3, <2>4, <2>5 DEF Next
<1>3. QED
  BY <1>1, <1>2, PipelineInvariant, PTL DEF Spec

=============================================================================
