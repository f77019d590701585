-------------------------- MODULE ContextPool_proofs --------------------------
(***************************************************************************)
(* Proofs about ContextPool for any number of contexts and worker threads,   *)
(* whatever the counts of new contexts read.                                 *)
(***************************************************************************)
EXTENDS ContextPool, FiniteSetTheorems, SequenceTheorems, TLAPS

USE PoolAssumption DEF Threads

\* A sound context is one with a count of 0 or more to start with.
LEMMA SoundStart ==
    ASSUME NEW c \in Sound
    PROVE  c \in Contexts /\ InitialRefs[c] \in Nat /\ (c \in Zeroed <=> InitialRefs[c] = 0)
BY DEF Sound, Zeroed

\* What a thread may do next is well typed.
LEMMA CallTypes ==
    ASSUME TypeOK, NEW t \in Threads
    PROVE  /\ call[t] = Idle \/ call[t].ctx \in Contexts
           /\ call[t].pc # "idle" => call[t].ctx \in Contexts /\ call[t].ctx # NoContext
<1>1. call[t] \in Calls
  BY DEF TypeOK
<1>2. QED
  BY <1>1 DEF Calls, Idle

\* The size of a set of threads that one thread joins or leaves.
LEMMA OneChanges ==
    ASSUME NEW S, NEW T, IsFiniteSet(S), NEW t, \A u : u # t => (u \in T <=> u \in S)
    PROVE  /\ Cardinality(S) \in Nat /\ Cardinality(T) \in Nat
           /\ (t \in S <=> t \in T) => Cardinality(T) = Cardinality(S)
           /\ t \in S /\ t \notin T => Cardinality(T) = Cardinality(S) - 1
           /\ t \notin S /\ t \in T => Cardinality(T) = Cardinality(S) + 1
<1>1. Cardinality(S) \in Nat
  BY FS_CardinalityType
<1>2. CASE t \in S <=> t \in T
  <2>1. S = T
    BY <1>2
  <2>2. QED
    BY <1>1, <1>2, <2>1
<1>3. CASE t \in S /\ t \notin T
  <2>1. T = S \ {t}
    BY <1>3
  <2>2. QED
    BY <1>1, <1>3, <2>1, FS_RemoveElement, FS_CardinalityType
<1>4. CASE t \notin S /\ t \in T
  <2>1. T = S \cup {t}
    BY <1>4
  <2>2. QED
    BY <1>1, <1>4, <2>1, FS_AddElement, FS_CardinalityType
<1>5. QED
  BY <1>2, <1>3, <1>4

\* The references of threads are finitely many.
LEMMA FiniteHolders ==
    ASSUME NEW c
    PROVE  IsFiniteSet(Holders(c)) /\ IsFiniteSet(Posting(c))
<1>1. IsFiniteSet(Threads)
  BY FS_AddElement
<1>2. Holders(c) \subseteq Threads /\ Posting(c) \subseteq Threads
  BY DEF Holders, Posting
<1>3. QED
  BY <1>1, <1>2, FS_Subset

HoldingPcs == {"own", "encrypt", "posting", "late", "release"}

\* A step of one thread with one context changes the counts of that context alone.
LEMMA CallChanges ==
    ASSUME TypeOK, NEW t \in Threads, NEW c \in Contexts, NEW e \in Calls,
           call' = [call EXCEPT ![t] = e],
           call[t] = Idle \/ call[t].ctx = c, e = Idle \/ e.ctx = c
    PROVE  /\ \A d \in Contexts : d # c =>
                /\ Cardinality(Holders(d)') = Cardinality(Holders(d))
                /\ Cardinality(Posting(d)') = Cardinality(Posting(d))
           /\ Cardinality(Holders(c)) \in Nat /\ Cardinality(Posting(c)) \in Nat
           /\ Cardinality(Holders(c)') = Cardinality(Holders(c))
                - (IF call[t].pc \in HoldingPcs THEN 1 ELSE 0)
                + (IF e.pc \in HoldingPcs THEN 1 ELSE 0)
           /\ Cardinality(Posting(c)') = Cardinality(Posting(c))
                - (IF call[t].pc = "posting" THEN 1 ELSE 0)
                + (IF e.pc = "posting" THEN 1 ELSE 0)
<1>1. call'[t] = e /\ \A u \in Threads : u # t => call'[u] = call[u]
  BY DEF TypeOK
<1>2. \A x \in Calls : x = Idle => x.pc \notin HoldingPcs /\ x.pc # "posting"
  BY DEF Idle, HoldingPcs
<1>3. call[t] \in Calls
  BY DEF TypeOK
<1>4. \A d : /\ \A u : u # t => (u \in Holders(d)' <=> u \in Holders(d))
             /\ \A u : u # t => (u \in Posting(d)' <=> u \in Posting(d))
             /\ t \in Holders(d) <=> call[t].ctx = d /\ call[t].pc \in HoldingPcs
             /\ t \in Holders(d)' <=> e.ctx = d /\ e.pc \in HoldingPcs
             /\ t \in Posting(d) <=> call[t].ctx = d /\ call[t].pc = "posting"
             /\ t \in Posting(d)' <=> e.ctx = d /\ e.pc = "posting"
  BY <1>1 DEF Holders, Posting, HoldingPcs
<1>5. ASSUME NEW d \in Contexts
      PROVE  /\ Cardinality(Holders(d)) \in Nat /\ Cardinality(Posting(d)) \in Nat
             /\ d # c => /\ Cardinality(Holders(d)') = Cardinality(Holders(d))
                         /\ Cardinality(Posting(d)') = Cardinality(Posting(d))
  <2>1. IsFiniteSet(Holders(d)) /\ IsFiniteSet(Posting(d))
    BY FiniteHolders
  <2>2. d # c => (t \in Holders(d) <=> t \in Holders(d)')
                 /\ (t \in Posting(d) <=> t \in Posting(d)')
    BY <1>2, <1>3, <1>4
  <2>3. /\ Cardinality(Holders(d)) \in Nat
        /\ (t \in Holders(d) <=> t \in Holders(d)') => Cardinality(Holders(d)') = Cardinality(Holders(d))
    BY <1>4, <2>1, OneChanges
  <2>4. /\ Cardinality(Posting(d)) \in Nat
        /\ (t \in Posting(d) <=> t \in Posting(d)') => Cardinality(Posting(d)') = Cardinality(Posting(d))
    BY <1>4, <2>1, OneChanges
  <2>5. QED
    BY <2>2, <2>3, <2>4
<1>6. Cardinality(Holders(c)') = Cardinality(Holders(c))
                - (IF call[t].pc \in HoldingPcs THEN 1 ELSE 0)
                + (IF e.pc \in HoldingPcs THEN 1 ELSE 0)
  <2>1. IsFiniteSet(Holders(c))
    BY FiniteHolders
  <2>2. /\ t \in Holders(c) <=> call[t].pc \in HoldingPcs
        /\ t \in Holders(c)' <=> e.pc \in HoldingPcs
    BY <1>2, <1>3, <1>4
  <2>3. /\ Cardinality(Holders(c)) \in Nat
        /\ (t \in Holders(c) <=> t \in Holders(c)') => Cardinality(Holders(c)') = Cardinality(Holders(c))
        /\ t \in Holders(c) /\ t \notin Holders(c)' => Cardinality(Holders(c)') = Cardinality(Holders(c)) - 1
        /\ t \notin Holders(c) /\ t \in Holders(c)' => Cardinality(Holders(c)') = Cardinality(Holders(c)) + 1
    BY <1>4, <2>1, OneChanges
  <2>4. QED
    BY <2>2, <2>3
<1>7. Cardinality(Posting(c)') = Cardinality(Posting(c))
                - (IF call[t].pc = "posting" THEN 1 ELSE 0)
                + (IF e.pc = "posting" THEN 1 ELSE 0)
  <2>1. IsFiniteSet(Posting(c))
    BY FiniteHolders
  <2>2. /\ t \in Posting(c) <=> call[t].pc = "posting"
        /\ t \in Posting(c)' <=> e.pc = "posting"
    BY <1>2, <1>3, <1>4
  <2>3. /\ Cardinality(Posting(c)) \in Nat
        /\ (t \in Posting(c) <=> t \in Posting(c)') => Cardinality(Posting(c)') = Cardinality(Posting(c))
        /\ t \in Posting(c) /\ t \notin Posting(c)' => Cardinality(Posting(c)') = Cardinality(Posting(c)) - 1
        /\ t \notin Posting(c) /\ t \in Posting(c)' => Cardinality(Posting(c)') = Cardinality(Posting(c)) + 1
    BY <1>4, <2>1, OneChanges
  <2>4. QED
    BY <2>2, <2>3
<1>8. QED
  BY <1>5, <1>6, <1>7

\* What is allocated was free or new: nothing referred to it if it is sound, and the rest
\* of the free list stays as it is.
LEMMA Allocated ==
    ASSUME PoolInv, NEW c \in Contexts, Allocate(c)
    PROVE  /\ refs' = [refs EXCEPT ![c] = @ + 1]
           /\ c \in Sound => allocated' = allocated \cup {c}
           /\ allocated' \subseteq Contexts
           /\ \A d \in Contexts : d # c => (d \in allocated' <=> d \in allocated)
           /\ c \in Sound => Unreferenced(c) /\ \A t \in Threads : call[t].ctx # c
           /\ freeList' \in Seq(Contexts)
           /\ c \in Sound => \A k \in 1 .. Len(freeList') : freeList'[k] # c
           /\ \A k \in 1 .. Len(freeList') :
                 \E n \in 1 .. Len(freeList) : freeList'[k] = freeList[n]
           /\ \A n, k \in 1 .. Len(freeList') :
                 freeList'[n] \in Sound /\ freeList'[n] = freeList'[k] => n = k
           /\ \A n \in 1 .. Len(freeList) : freeList[n] # c =>
                 \E k \in 1 .. Len(freeList') : freeList'[k] = freeList[n]
<1>1. freeList \in Seq(Contexts) /\ refs' = [refs EXCEPT ![c] = @ + 1] /\ allocated \subseteq Contexts
  BY DEF PoolInv, TypeOK, Allocate
<1>2. CASE freeList # <<>> /\ c = Head(freeList) /\ freeList' = Tail(freeList) /\ UNCHANGED allocated
  <2>1. /\ Len(freeList) \in Nat /\ Len(freeList) # 0 /\ c = freeList[1]
        /\ freeList' \in Seq(Contexts) /\ Len(freeList') = Len(freeList) - 1
        /\ \A k \in 1 .. Len(freeList') : freeList'[k] = freeList[k + 1]
    BY <1>1, <1>2, EmptySeq, HeadTailProperties
  <2>2. \A k \in 1 .. Len(freeList') :
          k \in Nat /\ k + 1 \in 1 .. Len(freeList) /\ k + 1 # 1 /\ freeList'[k] = freeList[k + 1]
    BY <2>1
  <2>3. 1 \in 1 .. Len(freeList)
    BY <2>1
  <2>4. /\ c \in Sound => Unreferenced(c) /\ \A t \in Threads : call[t].ctx # c
        /\ \A n, k \in 1 .. Len(freeList) :
              freeList[n] \in Sound /\ freeList[n] = freeList[k] => n = k
    BY <2>1, <2>3 DEF PoolInv, RecycledAlone
  <2>5. ASSUME NEW n \in 1 .. Len(freeList'), NEW k \in 1 .. Len(freeList'),
               freeList'[n] \in Sound, freeList'[n] = freeList'[k]
        PROVE  n = k
    <3>1. n + 1 = k + 1 /\ n \in Nat /\ k \in Nat
      BY <2>2, <2>4, <2>5
    <3>2. QED
      BY <3>1
  <2>6. ASSUME NEW n \in 1 .. Len(freeList), freeList[n] # c
        PROVE  \E k \in 1 .. Len(freeList') : freeList'[k] = freeList[n]
    <3>1. n - 1 \in 1 .. Len(freeList') /\ (n - 1) + 1 = n
      BY <2>1, <2>6
    <3>2. QED
      BY <2>1, <3>1
  <2>7. c \in Sound => \A k \in 1 .. Len(freeList') : freeList'[k] # c
    BY <2>1, <2>2, <2>3, <2>4
  <2>8. c \in Sound => allocated' = allocated \cup {c}
    BY <1>2, <2>1, <2>3 DEF PoolInv, RecycledAlone
  <2>9. /\ allocated' \subseteq Contexts
        /\ \A d \in Contexts : d # c => (d \in allocated' <=> d \in allocated)
    BY <1>1, <1>2
  <2>10. \A k \in 1 .. Len(freeList') : \E n \in 1 .. Len(freeList) : freeList'[k] = freeList[n]
    BY <2>2
  <2>11. QED
    BY <1>1, <2>1, <2>4, <2>5, <2>6, <2>7, <2>8, <2>9, <2>10
<1>3. CASE freeList = <<>> /\ c \in Contexts \ allocated /\ allocated' = allocated \cup {c} /\ UNCHANGED freeList
  <2>1. c \in Sound => Unreferenced(c) /\ \A t \in Threads : call[t].ctx # c
    BY <1>3 DEF PoolInv, RecycledAlone
  <2>2. Len(freeList) = 0 /\ freeList' = freeList
    BY <1>1, <1>3, EmptySeq
  <2>3. 1 .. Len(freeList) = {}
    BY <2>2
  <2>4. QED
    BY <1>1, <1>3, <2>1, <2>2, <2>3
<1>4. QED
  BY <1>2, <1>3 DEF Allocate

\* The same for the references counted for an operation not yet started.
LEMMA PostingChanges ==
    ASSUME TypeOK, NEW t \in Threads, NEW c \in Contexts, NEW e \in Calls,
           call' = [call EXCEPT ![t] = e],
           call[t] = Idle \/ call[t].ctx = c, e = Idle \/ e.ctx = c
    PROVE  Cardinality(Posting(c)') = Cardinality(Posting(c))
                - (IF call[t].pc = "posting" THEN 1 ELSE 0)
                + (IF e.pc = "posting" THEN 1 ELSE 0)
BY CallChanges

OwningPcs == {"own", "encrypt", "posting"}

\* The references a thread holds.
References(x) == (IF x.pc \in HoldingPcs THEN 1 ELSE 0) + (IF x.pc = "posting" THEN 1 ELSE 0)

\* Thread t goes on with call e: it and the operation it may start keep their
\* references to context c, and no other context is concerned.
HandsOn(t, c, e) ==
    /\ call' = [call EXCEPT ![t] = e]
    /\ call[t] = Idle \/ call[t].ctx = c
    /\ e = Idle \/ e.ctx = c
    /\ ~Clearing(t) /\ e.pc \notin {"reset", "push"}
    /\ UNCHANGED <<freeList, allocated>>
    /\ refs' \in [Contexts -> Int] /\ port' \in [Contexts -> Nat] /\ queued' \in [Contexts -> Nat]
    /\ \A d \in Contexts : d # c =>
          refs'[d] = refs[d] /\ port'[d] = port[d] /\ queued'[d] = queued[d]
    /\ ~Unreferenced(c) /\ (c \in Zeroed => ~Unreferenced(c)')
    /\ \A u \in Threads : u # t /\ Owning(u) /\ call[u].ctx = c =>
          e.pc \notin OwningPcs /\ port'[c] = 0 /\ queued'[c] = 0
    /\ port'[c] + queued'[c] <= 1
    /\ e.pc \in OwningPcs => port'[c] = 0 /\ queued'[c] = 0
    /\ refs'[c] = refs[c] + port'[c] - port[c] + queued'[c] - queued[c]
                   + References(e) - References(call[t])

\* A sound context passes from one user to the next: it is referred to before the step,
\* and after it unless its count stays above 0 for ever, and every reference is counted.
LEMMA HandedOn ==
    ASSUME PoolInv, NEW t \in Threads, NEW c \in Sound, NEW e \in Calls, HandsOn(t, c, e)
    PROVE  PoolInv'
<1>0. c \in Contexts /\ Sound \subseteq Contexts /\ \A d \in Sound : InitialRefs[d] \in Nat
  BY SoundStart DEF Sound
<1>1. TypeOK /\ call'[t] = e /\ \A u \in Threads : u # t => call'[u] = call[u]
  BY DEF PoolInv, TypeOK, HandsOn
<1>2. TypeOK'
  BY <1>1 DEF TypeOK, HandsOn
<1>3. /\ call' = [call EXCEPT ![t] = e]
      /\ call[t] = Idle \/ call[t].ctx = c
      /\ e = Idle \/ e.ctx = c
  BY DEF HandsOn
<1>4. /\ \A d \in Contexts : d # c =>
            refs'[d] = refs[d] /\ port'[d] = port[d] /\ queued'[d] = queued[d]
      /\ refs'[c] = refs[c] + port'[c] - port[c] + queued'[c] - queued[c]
                    + References(e) - References(call[t])
  BY DEF HandsOn
<1>5. TypeOK
  BY <1>1
<1>6. \A d \in Contexts : d # c =>
        /\ Cardinality(Holders(d)') = Cardinality(Holders(d))
        /\ Cardinality(Posting(d)') = Cardinality(Posting(d))
  BY <1>0, <1>3, <1>5, CallChanges
<1>7. Counted'
  <2>1. ASSUME NEW d \in Sound, d # c
        PROVE  refs'[d] = InitialRefs[d] + Cardinality(Holders(d)') + Cardinality(Posting(d)')
                          + port'[d] + queued'[d]
    <3>1. /\ Cardinality(Holders(d)') = Cardinality(Holders(d))
          /\ Cardinality(Posting(d)') = Cardinality(Posting(d))
      BY <1>0, <1>6, <2>1
    <3>2. QED
      BY <1>0, <1>4, <2>1, <3>1 DEF PoolInv, Counted
  <2>2. refs'[c] = InitialRefs[c] + Cardinality(Holders(c)') + Cardinality(Posting(c)')
                   + port'[c] + queued'[c]
    <3>1. /\ Cardinality(Holders(c)) \in Nat /\ Cardinality(Posting(c)) \in Nat
          /\ Cardinality(Holders(c)') = Cardinality(Holders(c))
                - (IF call[t].pc \in HoldingPcs THEN 1 ELSE 0)
                + (IF e.pc \in HoldingPcs THEN 1 ELSE 0)
          /\ Cardinality(Posting(c)') = Cardinality(Posting(c))
                - (IF call[t].pc = "posting" THEN 1 ELSE 0)
                + (IF e.pc = "posting" THEN 1 ELSE 0)
      <4>1. Cardinality(Holders(c)) \in Nat /\ Cardinality(Posting(c)) \in Nat
        BY <1>0, <1>3, <1>5, CallChanges
      <4>2. Cardinality(Holders(c)') = Cardinality(Holders(c))
                - (IF call[t].pc \in HoldingPcs THEN 1 ELSE 0)
                + (IF e.pc \in HoldingPcs THEN 1 ELSE 0)
        BY <1>0, <1>3, <1>5, CallChanges
      <4>3. Cardinality(Posting(c)') = Cardinality(Posting(c))
                - (IF call[t].pc = "posting" THEN 1 ELSE 0)
                + (IF e.pc = "posting" THEN 1 ELSE 0)
        BY <1>0, <1>3, <1>5, PostingChanges
      <4>4. QED
        BY <4>1, <4>2, <4>3
    <3>2. refs[c] = InitialRefs[c] + Cardinality(Holders(c)) + Cardinality(Posting(c))
                    + port[c] + queued[c]
      BY DEF PoolInv, Counted
    <3>3. /\ port[c] \in Nat /\ queued[c] \in Nat /\ port'[c] \in Nat /\ queued'[c] \in Nat
          /\ InitialRefs[c] \in Nat
      BY <1>0, <1>1, <1>2 DEF TypeOK
    <3>4. /\ References(e) = (IF e.pc \in HoldingPcs THEN 1 ELSE 0) + (IF e.pc = "posting" THEN 1 ELSE 0)
          /\ References(call[t]) = (IF call[t].pc \in HoldingPcs THEN 1 ELSE 0)
                                  + (IF call[t].pc = "posting" THEN 1 ELSE 0)
      BY DEF References
    <3>5. refs'[c] = refs[c] + port'[c] - port[c] + queued'[c] - queued[c]
                    + References(e) - References(call[t])
      BY <1>4
    <3>6. /\ refs'[c] = InitialRefs[c]
                      + (Cardinality(Holders(c)) - (IF call[t].pc \in HoldingPcs THEN 1 ELSE 0)
                          + (IF e.pc \in HoldingPcs THEN 1 ELSE 0))
                      + (Cardinality(Posting(c)) - (IF call[t].pc = "posting" THEN 1 ELSE 0)
                          + (IF e.pc = "posting" THEN 1 ELSE 0))
                      + port'[c] + queued'[c]
      <4>1. Cardinality(Holders(c)) \in Nat /\ Cardinality(Posting(c)) \in Nat
        BY <3>1
      <4>2. QED
        BY <3>2, <3>3, <3>4, <3>5, <4>1
    <3>7. QED
      BY <3>1, <3>6
  <2>3. QED
    BY <2>1, <2>2 DEF Counted
<1> USE DEF HandsOn
<1>8. OwnedOnce'
  <2>1. ASSUME NEW d \in Sound PROVE port'[d] + queued'[d] <= 1
    BY <1>0 DEF PoolInv, OwnedOnce
  <2>2. ASSUME NEW u \in Threads, Owning(u)', call'[u].ctx \in Sound
        PROVE  port'[call'[u].ctx] = 0 /\ queued'[call'[u].ctx] = 0
    <3>1. CASE u = t
      BY <1>1, <2>2, <3>1 DEF Owning, OwningPcs, Idle
    <3>2. CASE u # t
      <4>1. Owning(u) /\ call'[u] = call[u] /\ call[u].ctx \in Sound /\ call[u].ctx \in Contexts
        BY <1>0, <1>1, <2>2, <3>2 DEF Owning
      <4>2. QED
        BY <3>2, <4>1 DEF PoolInv, OwnedOnce
    <3>3. QED
      BY <3>1, <3>2
  <2>3. ASSUME NEW u \in Threads, NEW v \in Threads, Owning(u)', Owning(v)',
               call'[u].ctx \in Sound, call'[u].ctx = call'[v].ctx
        PROVE  u = v
    <3>1. CASE u # t /\ v # t
      BY <1>1, <2>3, <3>1 DEF PoolInv, OwnedOnce, Owning
    <3>2. CASE u = t /\ v # t
      <4>1. e.pc \in OwningPcs /\ e.ctx = c /\ Owning(v) /\ call[v].ctx = c
        BY <1>1, <2>3, <3>2 DEF Owning, OwningPcs, Idle
      <4>2. QED
        BY <3>2, <4>1
    <3>3. CASE u # t /\ v = t
      <4>1. e.pc \in OwningPcs /\ e.ctx = c /\ Owning(u) /\ call[u].ctx = c
        BY <1>1, <2>3, <3>3 DEF Owning, OwningPcs, Idle
      <4>2. QED
        BY <3>3, <4>1
    <3>4. QED
      BY <3>1, <3>2, <3>3
  <2>4. QED
    BY <2>1, <2>2, <2>3 DEF OwnedOnce
<1>9. /\ c \in allocated /\ \A n \in 1 .. Len(freeList) : freeList[n] # c /\ freeList[n] \in Contexts
      /\ \A u \in Threads : Clearing(u) => call[u].ctx # c
  <2>1. RecycledAlone
    BY DEF PoolInv
  <2>2. c \in allocated /\ \A u \in Threads : Clearing(u) => call[u].ctx # c
    BY <2>1 DEF RecycledAlone
  <2>3. \A n \in 1 .. Len(freeList) : freeList[n] # c
    BY <2>1 DEF RecycledAlone
  <2>4. \A n \in 1 .. Len(freeList) : freeList[n] \in Contexts
    BY <1>1, ElementOfSeq DEF TypeOK
  <2>5. QED
    BY <2>2, <2>3, <2>4
<1>10. ASSUME NEW d \in Contexts, d # c PROVE Unreferenced(d)' <=> Unreferenced(d)
  <2>1. ~(call[t].ctx = d /\ Holding(t)) /\ ~(call'[t].ctx = d /\ Holding(t)')
    BY <1>1, <1>10 DEF Holding, Idle
  <2>2. \A u \in Threads : u # t => (call'[u].ctx = call[u].ctx /\ (Holding(u)' <=> Holding(u)))
    BY <1>1 DEF Holding
  <2>3. QED
    BY <1>10, <2>1, <2>2 DEF Unreferenced
<1>11. /\ \A u \in Threads : Clearing(u)' <=> Clearing(u)
       /\ \A u \in Threads : Clearing(u) => call'[u] = call[u] /\ call[u].ctx \in Contexts
       /\ \A u \in Threads, d \in Contexts : d # c => (call'[u].ctx = d <=> call[u].ctx = d)
  BY <1>1, CallTypes DEF Clearing, Idle
<1>12. RecycledAlone'
  <2>1. RecycledAlone
    BY DEF PoolInv
  <2>2. ASSUME NEW d \in Sound \ allocated'
        PROVE  Unreferenced(d)' /\ \A u \in Threads : call'[u].ctx # d
    BY <1>0, <1>9, <1>10, <1>11, <2>1, <2>2 DEF RecycledAlone
  <2>3. ASSUME NEW n \in 1 .. Len(freeList'), freeList'[n] \in Sound
        PROVE  /\ Unreferenced(freeList[n])'
               /\ \A u \in Threads : call'[u].ctx # freeList'[n]
               /\ freeList'[n] \in allocated'
    <3>1. PICK d \in Sound : d = freeList[n] /\ d # c /\ d \in Contexts
      BY <1>0, <1>9, <2>3
    <3>2. Unreferenced(d) /\ d \in allocated /\ \A u \in Threads : call[u].ctx # d
      BY <2>1, <2>3, <3>1 DEF RecycledAlone
    <3>3. Unreferenced(d)' /\ freeList'[n] = d /\ \A u \in Threads : call'[u].ctx # d
      BY <1>10, <1>11, <3>1, <3>2
    <3>4. QED
      BY <3>1, <3>2, <3>3 DEF Unreferenced
  <2>4. ASSUME NEW u \in Threads, Clearing(u)', call'[u].ctx \in Sound
        PROVE  InitialRefs[call'[u].ctx] = 0 /\ Unreferenced(call[u].ctx)'
    <3>1. PICK d \in Sound : d = call[u].ctx /\ d # c /\ d \in Contexts /\ call'[u] = call[u]
      BY <1>0, <1>9, <1>11, <2>4
    <3>2. InitialRefs[d] = 0 /\ Unreferenced(d)
      BY <1>11, <2>1, <2>4, <3>1 DEF RecycledAlone
    <3>3. Unreferenced(d)'
      BY <1>10, <3>1, <3>2
    <3>4. QED
      BY <3>1, <3>2, <3>3 DEF Unreferenced
  <2>5. \A n, k \in 1 .. Len(freeList') :
          freeList'[n] \in Sound /\ freeList'[n] = freeList'[k] => n = k
    BY <2>1 DEF RecycledAlone
  <2>6. \A u, v \in Threads :
          Clearing(u)' /\ call'[u].ctx \in Sound /\ call'[v].ctx = call'[u].ctx => u = v
    BY <1>0, <1>9, <1>11, <2>1 DEF RecycledAlone
  <2>7. QED
    BY <2>2, <2>3, <2>4, <2>5, <2>6 DEF RecycledAlone
<1>13. Kept'
  <2>1. ASSUME NEW d \in allocated \cap Zeroed, Unreferenced(d)'
        PROVE  \/ \E n \in 1 .. Len(freeList) : freeList[n] = d
               \/ \E u \in Threads : Clearing(u)' /\ call'[u].ctx = d
    <3>1. d \in Contexts /\ d # c
      BY <1>1, <2>1 DEF TypeOK
    <3>2. \/ \E n \in 1 .. Len(freeList) : freeList[n] = d
          \/ \E u \in Threads : Clearing(u) /\ call[u].ctx = d
      BY <1>10, <2>1, <3>1 DEF PoolInv, Kept
    <3>3. QED
      BY <1>11, <3>1, <3>2
  <2>2. QED
    BY <2>1 DEF Kept
<1>14. QED
  BY <1>2, <1>7, <1>8, <1>12, <1>13 DEF PoolInv

\* Before the network starts every context is new or free, and counts nothing.
LEMMA InitPoolInv ==
    ASSUME Init
    PROVE  PoolInv
<1>1. /\ \A t \in Threads : call[t] = Idle
      /\ \A c \in Contexts : refs[c] = InitialRefs[c] /\ queued[c] = 0 /\ port[c] = 0
      /\ allocated = Reserved
  BY DEF Init
<1>2. /\ freeList \in [1 .. Cardinality(Reserved) -> Reserved]
      /\ \A n, k \in 1 .. Cardinality(Reserved) : freeList[n] = freeList[k] => n = k
  BY DEF Init, Bijection, Injection, IsInjective
<1>3. Cardinality(Reserved) \in Nat
  BY FS_CardinalityType
<1>4. freeList \in Seq(Reserved) /\ Len(freeList) = Cardinality(Reserved)
  BY <1>2, <1>3
<1>5. \A n \in 1 .. Len(freeList) : freeList[n] \in Reserved /\ freeList[n] \in Contexts
  BY <1>2, <1>4
<1>6. freeList \in Seq(Contexts)
  BY <1>2, <1>3
<1>7. TypeOK
  BY <1>6 DEF Init, TypeOK, Calls
<1>8. Counted
  <2>1. \A c \in Contexts : Holders(c) = {} /\ Posting(c) = {}
    BY <1>1 DEF Holders, Posting, Idle
  <2>2. \A c \in Sound : c \in Contexts /\ InitialRefs[c] \in Nat
    BY SoundStart
  <2>3. \A c \in Sound : Cardinality(Holders(c)) = 0 /\ Cardinality(Posting(c)) = 0
    BY <2>1, <2>2, FS_EmptySet
  <2>4. QED
    BY <1>1, <2>2, <2>3 DEF Counted
<1>9. /\ \A t \in Threads : ~Holding(t) /\ ~Owning(t) /\ ~Clearing(t) /\ call[t].ctx = NoContext
      /\ \A c \in Contexts : Unreferenced(c)
  BY <1>1 DEF Holding, Owning, Clearing, Unreferenced, Idle
<1>10. OwnedOnce
  BY <1>1, <1>9, SoundStart DEF OwnedOnce
<1>11. RecycledAlone
  BY <1>1, <1>2, <1>4, <1>5, <1>9, SoundStart DEF RecycledAlone
<1>12. Kept
  <2>1. \A c \in Reserved : \E n \in 1 .. Cardinality(Reserved) : freeList[n] = c
    BY DEF Init, Bijection, Surjection
  <2>2. QED
    BY <1>1, <1>4, <2>1 DEF Kept
<1>13. QED
  BY <1>7, <1>8, <1>10, <1>11, <1>12 DEF PoolInv

\* The controller takes over the reference of its queue.
LEMMA PopKeepsPoolInv ==
    ASSUME PoolInv, NEW c \in Contexts, c \in Sound, Pop(c)
    PROVE  PoolInv'
<1> DEFINE e == In("own", c)
<1>1. /\ TypeOK /\ call[Ctl] = Idle /\ queued[c] > 0 /\ call' = [call EXCEPT ![Ctl] = e]
      /\ queued' = [queued EXCEPT ![c] = @ - 1] /\ UNCHANGED <<refs, freeList, allocated, port>>
  BY DEF Pop, PoolInv
<1>2. queued[c] = 1 /\ port[c] = 0 /\ \A u \in Threads : Owning(u) => call[u].ctx # c
  BY <1>1 DEF PoolInv, OwnedOnce, TypeOK
<1>3. /\ e \in Calls /\ e.ctx = c /\ e.pc = "own" /\ call[Ctl].pc = "idle" /\ Ctl \in Threads
      /\ call'[Ctl] = e
  BY <1>1 DEF In, Calls, Idle, TypeOK
<1>4. /\ queued'[c] = 0 /\ queued' \in [Contexts -> Nat]
      /\ \A d \in Contexts : d # c => queued'[d] = queued[d]
  BY <1>1, <1>2 DEF TypeOK
<1>5. ~Unreferenced(c) /\ ~Unreferenced(c)'
  BY <1>2, <1>3 DEF Unreferenced, Holding
<1>6. /\ refs' \in [Contexts -> Int] /\ port' \in [Contexts -> Nat] /\ refs[c] \in Int
      /\ ~Clearing(Ctl)
  BY <1>1, <1>3 DEF TypeOK, Clearing
<1>7. References(e) = 1 /\ References(call[Ctl]) = 0
  BY <1>3 DEF References, HoldingPcs
<1>8. refs'[c] = refs[c] + port'[c] - port[c] + queued'[c] - queued[c]
                  + References(e) - References(call[Ctl])
  BY <1>1, <1>2, <1>4, <1>6, <1>7
<1> HIDE DEF e
<1>9. /\ e.pc \notin {"reset", "push"} /\ port'[c] + queued'[c] <= 1
      /\ e.pc \in OwningPcs => port'[c] = 0 /\ queued'[c] = 0
      /\ \A u \in Threads : u # Ctl /\ Owning(u) /\ call[u].ctx = c =>
           e.pc \notin OwningPcs /\ port'[c] = 0 /\ queued'[c] = 0
      /\ call[Ctl] = Idle \/ call[Ctl].ctx = c
      /\ e = Idle \/ e.ctx = c
      /\ UNCHANGED <<freeList, allocated>>
  BY <1>1, <1>2, <1>3, <1>4
<1>10. \A d \in Contexts : d # c =>
         refs'[d] = refs[d] /\ port'[d] = port[d] /\ queued'[d] = queued[d]
  BY <1>1, <1>4
<1>11. HandsOn(Ctl, c, e)
  BY <1>1, <1>2, <1>3, <1>4, <1>5, <1>6, <1>8, <1>9, <1>10 DEF HandsOn
<1>12. QED
  BY <1>1, <1>3, <1>11, HandedOn

\* A worker takes over the reference of a completed operation.
LEMMA DequeueKeepsPoolInv ==
    ASSUME PoolInv, NEW w \in Workers, NEW c \in Contexts, c \in Sound, Dequeue(w, c)
    PROVE  PoolInv'
<1> DEFINE e == In("own", c)
<1>1. /\ TypeOK /\ call[w] = Idle /\ port[c] > 0 /\ call' = [call EXCEPT ![w] = e]
      /\ port' = [port EXCEPT ![c] = @ - 1] /\ UNCHANGED <<refs, freeList, allocated, queued>>
  BY DEF Dequeue, PoolInv
<1>2. port[c] = 1 /\ queued[c] = 0 /\ \A u \in Threads : Owning(u) => call[u].ctx # c
  BY <1>1 DEF PoolInv, OwnedOnce, TypeOK
<1>3. /\ e \in Calls /\ e.ctx = c /\ e.pc = "own" /\ call[w].pc = "idle" /\ w \in Threads
      /\ call'[w] = e
  BY <1>1 DEF In, Calls, Idle, TypeOK
<1>4. /\ port'[c] = 0 /\ port' \in [Contexts -> Nat]
      /\ \A d \in Contexts : d # c => port'[d] = port[d]
  BY <1>1, <1>2 DEF TypeOK
<1>5. ~Unreferenced(c) /\ ~Unreferenced(c)'
  BY <1>2, <1>3 DEF Unreferenced, Holding
<1>6. /\ refs' \in [Contexts -> Int] /\ queued' \in [Contexts -> Nat] /\ refs[c] \in Int
      /\ ~Clearing(w)
  BY <1>1, <1>3 DEF TypeOK, Clearing
<1>7. References(e) = 1 /\ References(call[w]) = 0
  BY <1>3 DEF References, HoldingPcs
<1>8. refs'[c] = refs[c] + port'[c] - port[c] + queued'[c] - queued[c]
                  + References(e) - References(call[w])
  BY <1>1, <1>2, <1>4, <1>6, <1>7
<1> HIDE DEF e
<1>9. /\ e.pc \notin {"reset", "push"} /\ port'[c] + queued'[c] <= 1
      /\ e.pc \in OwningPcs => port'[c] = 0 /\ queued'[c] = 0
      /\ \A u \in Threads : u # w /\ Owning(u) /\ call[u].ctx = c =>
           e.pc \notin OwningPcs /\ port'[c] = 0 /\ queued'[c] = 0
      /\ call[w] = Idle \/ call[w].ctx = c
      /\ e = Idle \/ e.ctx = c
      /\ UNCHANGED <<freeList, allocated>>
  BY <1>1, <1>2, <1>3, <1>4
<1>10. \A d \in Contexts : d # c =>
         refs'[d] = refs[d] /\ port'[d] = port[d] /\ queued'[d] = queued[d]
  BY <1>1, <1>4
<1>11. HandsOn(w, c, e)
  BY <1>1, <1>2, <1>3, <1>4, <1>5, <1>6, <1>8, <1>9, <1>10 DEF HandsOn
<1>12. QED
  BY <1>1, <1>3, <1>11, HandedOn

\* BeginSendTask passes its reference to the completion port.
LEMMA PostedKeepsPoolInv ==
    ASSUME PoolInv, NEW c \in Sound, c = call[Ctl].ctx, call[Ctl].pc = "encrypt",
           call' = [call EXCEPT ![Ctl] = Idle], port' = [port EXCEPT ![c] = @ + 1],
           refs' = refs, UNCHANGED <<freeList, allocated, queued>>
    PROVE  PoolInv'
<1> DEFINE e == Idle
<1>1. TypeOK /\ c \in Contexts /\ Ctl \in Threads /\ call' = [call EXCEPT ![Ctl] = e]
  <2>1. TypeOK
    BY DEF PoolInv
  <2>2. QED
    BY <2>1, CallTypes
<1>2. /\ port[c] = 0 /\ queued[c] = 0 /\ Holding(Ctl) /\ ~Clearing(Ctl)
      /\ \A u \in Threads : Owning(u) /\ call[u].ctx = c => u = Ctl
  BY <1>1 DEF PoolInv, OwnedOnce, Owning, Holding, Clearing
<1>3. e \in Calls /\ (e = Idle \/ e.ctx = c) /\ e.pc = "idle" /\ call'[Ctl] = e
  BY <1>1 DEF In, Calls, Idle, TypeOK
<1>4. /\ port'[c] = 1 /\ queued'[c] = 0 /\ refs[c] \in Int /\ refs'[c] = refs[c] + (0)
      /\ refs' \in [Contexts -> Int] /\ port' \in [Contexts -> Nat] /\ queued' \in [Contexts -> Nat]
      /\ \A d \in Contexts : d # c =>
           refs'[d] = refs[d] /\ port'[d] = port[d] /\ queued'[d] = queued[d]
  BY <1>1, <1>2 DEF TypeOK
<1>5. ~Unreferenced(c) /\ ~Unreferenced(c)'
  <2>1. ~Unreferenced(c)
    BY <1>1, <1>2 DEF Unreferenced
  <2>2. port'[c] # 0
    BY <1>1, <1>3, <1>4 DEF In, Holding
  <2>3. ~Unreferenced(c)'
    BY <1>1, <2>2 DEF Unreferenced
  <2>4. QED
    BY <2>1, <2>3
<1>6. References(e) = 0 /\ References(call[Ctl]) = 1
  BY <1>3 DEF References, HoldingPcs
<1>7. refs'[c] = refs[c] + port'[c] - port[c] + queued'[c] - queued[c]
                  + References(e) - References(call[Ctl])
  BY <1>2, <1>4, <1>6
<1>8. /\ e.pc \notin {"reset", "push"} /\ port'[c] + queued'[c] <= 1
      /\ e.pc \in OwningPcs => port'[c] = 0 /\ queued'[c] = 0
      /\ \A u \in Threads : u # Ctl /\ Owning(u) /\ call[u].ctx = c =>
           e.pc \notin OwningPcs /\ port'[c] = 0 /\ queued'[c] = 0
      /\ call[Ctl] = Idle \/ call[Ctl].ctx = c
      /\ UNCHANGED <<freeList, allocated>>
  BY <1>1, <1>2, <1>3, <1>4 DEF OwningPcs
<1> HIDE DEF e
<1>9. HandsOn(Ctl, c, e)
  BY <1>1, <1>2, <1>3, <1>4, <1>5, <1>7, <1>8 DEF HandsOn
<1>10. QED
  BY <1>1, <1>3, <1>9, HandedOn

\* BeginSendTask could not post, and releases.
LEMMA NotPostedKeepsPoolInv ==
    ASSUME PoolInv, NEW c \in Sound, c = call[Ctl].ctx, call[Ctl].pc = "encrypt",
           call' = [call EXCEPT ![Ctl] = In("release", c)], port' = port,
           refs' = refs, UNCHANGED <<freeList, allocated, queued>>
    PROVE  PoolInv'
<1> DEFINE e == In("release", c)
<1>1. TypeOK /\ c \in Contexts /\ Ctl \in Threads /\ call' = [call EXCEPT ![Ctl] = e]
  <2>1. TypeOK
    BY DEF PoolInv
  <2>2. QED
    BY <2>1, CallTypes
<1>2. /\ port[c] = 0 /\ queued[c] = 0 /\ Holding(Ctl) /\ ~Clearing(Ctl)
      /\ \A u \in Threads : Owning(u) /\ call[u].ctx = c => u = Ctl
  BY <1>1 DEF PoolInv, OwnedOnce, Owning, Holding, Clearing
<1>3. e \in Calls /\ (e = Idle \/ e.ctx = c) /\ e.pc = "release" /\ call'[Ctl] = e
  BY <1>1 DEF In, Calls, Idle, TypeOK
<1>4. /\ port'[c] = 0 /\ queued'[c] = 0 /\ refs[c] \in Int /\ refs'[c] = refs[c] + (0)
      /\ refs' \in [Contexts -> Int] /\ port' \in [Contexts -> Nat] /\ queued' \in [Contexts -> Nat]
      /\ \A d \in Contexts : d # c =>
           refs'[d] = refs[d] /\ port'[d] = port[d] /\ queued'[d] = queued[d]
  BY <1>1, <1>2 DEF TypeOK
<1>5. ~Unreferenced(c) /\ ~Unreferenced(c)'
  <2>1. ~Unreferenced(c)
    BY <1>1, <1>2 DEF Unreferenced
  <2>2. call'[Ctl].ctx = c /\ Holding(Ctl)'
    BY <1>1, <1>3, <1>4 DEF In, Holding
  <2>3. ~Unreferenced(c)'
    BY <1>1, <2>2 DEF Unreferenced
  <2>4. QED
    BY <2>1, <2>3
<1>6. References(e) = 1 /\ References(call[Ctl]) = 1
  BY <1>3 DEF References, HoldingPcs
<1>7. refs'[c] = refs[c] + port'[c] - port[c] + queued'[c] - queued[c]
                  + References(e) - References(call[Ctl])
  BY <1>2, <1>4, <1>6
<1>8. /\ e.pc \notin {"reset", "push"} /\ port'[c] + queued'[c] <= 1
      /\ e.pc \in OwningPcs => port'[c] = 0 /\ queued'[c] = 0
      /\ \A u \in Threads : u # Ctl /\ Owning(u) /\ call[u].ctx = c =>
           e.pc \notin OwningPcs /\ port'[c] = 0 /\ queued'[c] = 0
      /\ call[Ctl] = Idle \/ call[Ctl].ctx = c
      /\ UNCHANGED <<freeList, allocated>>
  BY <1>1, <1>2, <1>3, <1>4 DEF OwningPcs
<1> HIDE DEF e
<1>9. HandsOn(Ctl, c, e)
  BY <1>1, <1>2, <1>3, <1>4, <1>5, <1>7, <1>8 DEF HandsOn
<1>10. QED
  BY <1>1, <1>3, <1>9, HandedOn

\* A reference is counted for the operation to be started.
LEMMA CountedKeepsPoolInv ==
    ASSUME PoolInv, NEW t \in Threads, NEW c \in Sound, c = call[t].ctx, call[t].pc = "own",
           call' = [call EXCEPT ![t] = In("posting", c)], port' = port,
           refs' = [refs EXCEPT ![c] = @ + 1], UNCHANGED <<freeList, allocated, queued>>
    PROVE  PoolInv'
<1> DEFINE e == In("posting", c)
<1>1. TypeOK /\ c \in Contexts /\ t \in Threads /\ call' = [call EXCEPT ![t] = e]
  <2>1. TypeOK
    BY DEF PoolInv
  <2>2. QED
    BY <2>1, CallTypes
<1>2. /\ port[c] = 0 /\ queued[c] = 0 /\ Holding(t) /\ ~Clearing(t)
      /\ \A u \in Threads : Owning(u) /\ call[u].ctx = c => u = t
  BY <1>1 DEF PoolInv, OwnedOnce, Owning, Holding, Clearing
<1>3. e \in Calls /\ (e = Idle \/ e.ctx = c) /\ e.pc = "posting" /\ call'[t] = e
  BY <1>1 DEF In, Calls, Idle, TypeOK
<1>4. /\ port'[c] = 0 /\ queued'[c] = 0 /\ refs[c] \in Int /\ refs'[c] = refs[c] + (1)
      /\ refs' \in [Contexts -> Int] /\ port' \in [Contexts -> Nat] /\ queued' \in [Contexts -> Nat]
      /\ \A d \in Contexts : d # c =>
           refs'[d] = refs[d] /\ port'[d] = port[d] /\ queued'[d] = queued[d]
  BY <1>1, <1>2 DEF TypeOK
<1>5. ~Unreferenced(c) /\ ~Unreferenced(c)'
  <2>1. ~Unreferenced(c)
    BY <1>1, <1>2 DEF Unreferenced
  <2>2. call'[t].ctx = c /\ Holding(t)'
    BY <1>1, <1>3, <1>4 DEF In, Holding
  <2>3. ~Unreferenced(c)'
    BY <1>1, <2>2 DEF Unreferenced
  <2>4. QED
    BY <2>1, <2>3
<1>6. References(e) = 2 /\ References(call[t]) = 1
  BY <1>3 DEF References, HoldingPcs
<1>7. refs'[c] = refs[c] + port'[c] - port[c] + queued'[c] - queued[c]
                  + References(e) - References(call[t])
  BY <1>2, <1>4, <1>6
<1>8. /\ e.pc \notin {"reset", "push"} /\ port'[c] + queued'[c] <= 1
      /\ e.pc \in OwningPcs => port'[c] = 0 /\ queued'[c] = 0
      /\ \A u \in Threads : u # t /\ Owning(u) /\ call[u].ctx = c =>
           e.pc \notin OwningPcs /\ port'[c] = 0 /\ queued'[c] = 0
      /\ call[t] = Idle \/ call[t].ctx = c
      /\ UNCHANGED <<freeList, allocated>>
  BY <1>1, <1>2, <1>3, <1>4 DEF OwningPcs
<1> HIDE DEF e
<1>9. HandsOn(t, c, e)
  BY <1>1, <1>2, <1>3, <1>4, <1>5, <1>7, <1>8 DEF HandsOn
<1>10. QED
  BY <1>1, <1>3, <1>9, HandedOn

\* The operation starts, and owns that reference.
LEMMA StartedKeepsPoolInv ==
    ASSUME PoolInv, NEW t \in Threads, NEW c \in Sound, c = call[t].ctx, call[t].pc = "posting",
           NEW pc \in {"release", "late"}, call' = [call EXCEPT ![t] = In(pc, c)],
           port' = [port EXCEPT ![c] = @ + 1],
           refs' = refs, UNCHANGED <<freeList, allocated, queued>>
    PROVE  PoolInv'
<1> DEFINE e == In(pc, c)
<1>1. TypeOK /\ c \in Contexts /\ t \in Threads /\ call' = [call EXCEPT ![t] = e]
  <2>1. TypeOK
    BY DEF PoolInv
  <2>2. QED
    BY <2>1, CallTypes
<1>2. /\ port[c] = 0 /\ queued[c] = 0 /\ Holding(t) /\ ~Clearing(t)
      /\ \A u \in Threads : Owning(u) /\ call[u].ctx = c => u = t
  BY <1>1 DEF PoolInv, OwnedOnce, Owning, Holding, Clearing
<1>3. e \in Calls /\ (e = Idle \/ e.ctx = c) /\ e.pc \in {"release", "late"} /\ call'[t] = e
  BY <1>1 DEF In, Calls, Idle, TypeOK
<1>4. /\ port'[c] = 1 /\ queued'[c] = 0 /\ refs[c] \in Int /\ refs'[c] = refs[c] + (0)
      /\ refs' \in [Contexts -> Int] /\ port' \in [Contexts -> Nat] /\ queued' \in [Contexts -> Nat]
      /\ \A d \in Contexts : d # c =>
           refs'[d] = refs[d] /\ port'[d] = port[d] /\ queued'[d] = queued[d]
  BY <1>1, <1>2 DEF TypeOK
<1>5. ~Unreferenced(c) /\ ~Unreferenced(c)'
  <2>1. ~Unreferenced(c)
    BY <1>1, <1>2 DEF Unreferenced
  <2>2. call'[t].ctx = c /\ Holding(t)'
    BY <1>1, <1>3, <1>4 DEF In, Holding
  <2>3. ~Unreferenced(c)'
    BY <1>1, <2>2 DEF Unreferenced
  <2>4. QED
    BY <2>1, <2>3
<1>6. References(e) = 1 /\ References(call[t]) = 2
  BY <1>3 DEF References, HoldingPcs
<1>7. refs'[c] = refs[c] + port'[c] - port[c] + queued'[c] - queued[c]
                  + References(e) - References(call[t])
  BY <1>2, <1>4, <1>6
<1>8. /\ e.pc \notin {"reset", "push"} /\ port'[c] + queued'[c] <= 1
      /\ e.pc \in OwningPcs => port'[c] = 0 /\ queued'[c] = 0
      /\ \A u \in Threads : u # t /\ Owning(u) /\ call[u].ctx = c =>
           e.pc \notin OwningPcs /\ port'[c] = 0 /\ queued'[c] = 0
      /\ call[t] = Idle \/ call[t].ctx = c
      /\ UNCHANGED <<freeList, allocated>>
  BY <1>1, <1>2, <1>3, <1>4 DEF OwningPcs
<1> HIDE DEF e
<1>9. HandsOn(t, c, e)
  BY <1>1, <1>2, <1>3, <1>4, <1>5, <1>7, <1>8 DEF HandsOn
<1>10. QED
  BY <1>1, <1>3, <1>9, HandedOn

\* The operation fails at once, and its reference is taken back.
LEMMA NotStartedKeepsPoolInv ==
    ASSUME PoolInv, NEW t \in Threads, NEW c \in Sound, c = call[t].ctx, call[t].pc = "posting",
           call' = [call EXCEPT ![t] = In("release", c)], port' = port,
           refs' = [refs EXCEPT ![c] = @ - 1], UNCHANGED <<freeList, allocated, queued>>
    PROVE  PoolInv'
<1> DEFINE e == In("release", c)
<1>1. TypeOK /\ c \in Contexts /\ t \in Threads /\ call' = [call EXCEPT ![t] = e]
  <2>1. TypeOK
    BY DEF PoolInv
  <2>2. QED
    BY <2>1, CallTypes
<1>2. /\ port[c] = 0 /\ queued[c] = 0 /\ Holding(t) /\ ~Clearing(t)
      /\ \A u \in Threads : Owning(u) /\ call[u].ctx = c => u = t
  BY <1>1 DEF PoolInv, OwnedOnce, Owning, Holding, Clearing
<1>3. e \in Calls /\ (e = Idle \/ e.ctx = c) /\ e.pc = "release" /\ call'[t] = e
  BY <1>1 DEF In, Calls, Idle, TypeOK
<1>4. /\ port'[c] = 0 /\ queued'[c] = 0 /\ refs[c] \in Int /\ refs'[c] = refs[c] + (-1)
      /\ refs' \in [Contexts -> Int] /\ port' \in [Contexts -> Nat] /\ queued' \in [Contexts -> Nat]
      /\ \A d \in Contexts : d # c =>
           refs'[d] = refs[d] /\ port'[d] = port[d] /\ queued'[d] = queued[d]
  BY <1>1, <1>2 DEF TypeOK
<1>5. ~Unreferenced(c) /\ ~Unreferenced(c)'
  <2>1. ~Unreferenced(c)
    BY <1>1, <1>2 DEF Unreferenced
  <2>2. call'[t].ctx = c /\ Holding(t)'
    BY <1>1, <1>3, <1>4 DEF In, Holding
  <2>3. ~Unreferenced(c)'
    BY <1>1, <2>2 DEF Unreferenced
  <2>4. QED
    BY <2>1, <2>3
<1>6. References(e) = 1 /\ References(call[t]) = 2
  BY <1>3 DEF References, HoldingPcs
<1>7. refs'[c] = refs[c] + port'[c] - port[c] + queued'[c] - queued[c]
                  + References(e) - References(call[t])
  BY <1>2, <1>4, <1>6
<1>8. /\ e.pc \notin {"reset", "push"} /\ port'[c] + queued'[c] <= 1
      /\ e.pc \in OwningPcs => port'[c] = 0 /\ queued'[c] = 0
      /\ \A u \in Threads : u # t /\ Owning(u) /\ call[u].ctx = c =>
           e.pc \notin OwningPcs /\ port'[c] = 0 /\ queued'[c] = 0
      /\ call[t] = Idle \/ call[t].ctx = c
      /\ UNCHANGED <<freeList, allocated>>
  BY <1>1, <1>2, <1>3, <1>4 DEF OwningPcs
<1> HIDE DEF e
<1>9. HandsOn(t, c, e)
  BY <1>1, <1>2, <1>3, <1>4, <1>5, <1>7, <1>8 DEF HandsOn
<1>10. QED
  BY <1>1, <1>3, <1>9, HandedOn

\* A handler ends without an operation.
LEMMA FinishedKeepsPoolInv ==
    ASSUME PoolInv, NEW t \in Threads, NEW c \in Sound, c = call[t].ctx, call[t].pc = "own",
           call' = [call EXCEPT ![t] = In("release", c)], port' = port,
           refs' = refs, UNCHANGED <<freeList, allocated, queued>>
    PROVE  PoolInv'
<1> DEFINE e == In("release", c)
<1>1. TypeOK /\ c \in Contexts /\ t \in Threads /\ call' = [call EXCEPT ![t] = e]
  <2>1. TypeOK
    BY DEF PoolInv
  <2>2. QED
    BY <2>1, CallTypes
<1>2. /\ port[c] = 0 /\ queued[c] = 0 /\ Holding(t) /\ ~Clearing(t)
      /\ \A u \in Threads : Owning(u) /\ call[u].ctx = c => u = t
  BY <1>1 DEF PoolInv, OwnedOnce, Owning, Holding, Clearing
<1>3. e \in Calls /\ (e = Idle \/ e.ctx = c) /\ e.pc = "release" /\ call'[t] = e
  BY <1>1 DEF In, Calls, Idle, TypeOK
<1>4. /\ port'[c] = 0 /\ queued'[c] = 0 /\ refs[c] \in Int /\ refs'[c] = refs[c] + (0)
      /\ refs' \in [Contexts -> Int] /\ port' \in [Contexts -> Nat] /\ queued' \in [Contexts -> Nat]
      /\ \A d \in Contexts : d # c =>
           refs'[d] = refs[d] /\ port'[d] = port[d] /\ queued'[d] = queued[d]
  BY <1>1, <1>2 DEF TypeOK
<1>5. ~Unreferenced(c) /\ ~Unreferenced(c)'
  <2>1. ~Unreferenced(c)
    BY <1>1, <1>2 DEF Unreferenced
  <2>2. call'[t].ctx = c /\ Holding(t)'
    BY <1>1, <1>3, <1>4 DEF In, Holding
  <2>3. ~Unreferenced(c)'
    BY <1>1, <2>2 DEF Unreferenced
  <2>4. QED
    BY <2>1, <2>3
<1>6. References(e) = 1 /\ References(call[t]) = 1
  BY <1>3 DEF References, HoldingPcs
<1>7. refs'[c] = refs[c] + port'[c] - port[c] + queued'[c] - queued[c]
                  + References(e) - References(call[t])
  BY <1>2, <1>4, <1>6
<1>8. /\ e.pc \notin {"reset", "push"} /\ port'[c] + queued'[c] <= 1
      /\ e.pc \in OwningPcs => port'[c] = 0 /\ queued'[c] = 0
      /\ \A u \in Threads : u # t /\ Owning(u) /\ call[u].ctx = c =>
           e.pc \notin OwningPcs /\ port'[c] = 0 /\ queued'[c] = 0
      /\ call[t] = Idle \/ call[t].ctx = c
      /\ UNCHANGED <<freeList, allocated>>
  BY <1>1, <1>2, <1>3, <1>4 DEF OwningPcs
<1> HIDE DEF e
<1>9. HandsOn(t, c, e)
  BY <1>1, <1>2, <1>3, <1>4, <1>5, <1>7, <1>8 DEF HandsOn
<1>10. QED
  BY <1>1, <1>3, <1>9, HandedOn

\* After its late use of the context, the thread releases what it holds.
LEMMA LateUseKeepsPoolInv ==
    ASSUME PoolInv, NEW t \in Threads, NEW c \in Sound, c = call[t].ctx, call[t].pc = "late",
           call' = [call EXCEPT ![t] = In("release", c)], port' = port,
           refs' = refs, UNCHANGED <<freeList, allocated, queued>>
    PROVE  PoolInv'
<1> DEFINE e == In("release", c)
<1>1. TypeOK /\ c \in Contexts /\ t \in Threads /\ call' = [call EXCEPT ![t] = e]
  <2>1. TypeOK
    BY DEF PoolInv
  <2>2. QED
    BY <2>1, CallTypes
<1>2. /\ port[c] + queued[c] <= 1 /\ Holding(t) /\ ~Clearing(t)
      /\ \A u \in Threads : Owning(u) /\ call[u].ctx = c => port[c] = 0 /\ queued[c] = 0
  BY <1>1 DEF PoolInv, OwnedOnce, Owning, Holding, Clearing
<1>3. e \in Calls /\ (e = Idle \/ e.ctx = c) /\ e.pc = "release" /\ call'[t] = e
  BY <1>1 DEF In, Calls, Idle, TypeOK
<1>4. /\ port[c] \in Nat /\ queued[c] \in Nat /\ refs[c] \in Int
      /\ refs' \in [Contexts -> Int] /\ port' \in [Contexts -> Nat] /\ queued' \in [Contexts -> Nat]
      /\ \A d \in Contexts : refs'[d] = refs[d] /\ port'[d] = port[d] /\ queued'[d] = queued[d]
  BY <1>1 DEF TypeOK
<1>5. ~Unreferenced(c) /\ ~Unreferenced(c)'
  <2>1. ~Unreferenced(c)
    BY <1>1, <1>2 DEF Unreferenced
  <2>2. call'[t].ctx = c /\ Holding(t)'
    BY <1>1, <1>3, <1>4 DEF In, Holding
  <2>3. ~Unreferenced(c)'
    BY <1>1, <2>2 DEF Unreferenced
  <2>4. QED
    BY <2>1, <2>3
<1>6. References(e) = 1 /\ References(call[t]) = 1
  BY <1>3 DEF References, HoldingPcs
<1>7. refs'[c] = refs[c] + port'[c] - port[c] + queued'[c] - queued[c]
                  + References(e) - References(call[t])
  BY <1>1, <1>4, <1>6
<1>8. /\ e.pc \notin {"reset", "push"} /\ port'[c] + queued'[c] <= 1
      /\ e.pc \notin OwningPcs
      /\ \A u \in Threads : u # t /\ Owning(u) /\ call[u].ctx = c =>
           e.pc \notin OwningPcs /\ port'[c] = 0 /\ queued'[c] = 0
      /\ call[t] = Idle \/ call[t].ctx = c
      /\ UNCHANGED <<freeList, allocated>>
  BY <1>1, <1>2, <1>3, <1>4 DEF OwningPcs
<1> HIDE DEF e
<1>9. HandsOn(t, c, e)
  BY <1>1, <1>2, <1>3, <1>4, <1>5, <1>7, <1>8 DEF HandsOn
<1>10. QED
  BY <1>1, <1>3, <1>9, HandedOn

\* What PostQueued, CountReference, StartOperation, LateUse and FinishHandler do to a
\* sound context.
LEMMA HandlersKeepPoolInv ==
    ASSUME PoolInv,
           \/ PostQueued /\ call[Ctl].ctx \in Sound
           \/ \E t \in Threads :
                /\ CountReference(t) \/ StartOperation(t) \/ LateUse(t) \/ FinishHandler(t)
                /\ call[t].ctx \in Sound
    PROVE  PoolInv'
<1>1. CASE PostQueued /\ call[Ctl].ctx \in Sound
  BY <1>1, PostedKeepsPoolInv, NotPostedKeepsPoolInv DEF PostQueued
<1>2. ASSUME NEW t \in Threads, CountReference(t), call[t].ctx \in Sound PROVE PoolInv'
  BY <1>2, CountedKeepsPoolInv DEF CountReference
<1>3. ASSUME NEW t \in Threads, StartOperation(t), call[t].ctx \in Sound PROVE PoolInv'
  BY <1>3, StartedKeepsPoolInv, NotStartedKeepsPoolInv DEF StartOperation
<1>4. ASSUME NEW t \in Threads, FinishHandler(t), call[t].ctx \in Sound PROVE PoolInv'
  BY <1>4, FinishedKeepsPoolInv DEF FinishHandler
<1>5. ASSUME NEW t \in Threads, LateUse(t), call[t].ctx \in Sound PROVE PoolInv'
  BY <1>5, LateUseKeepsPoolInv DEF LateUse
<1>6. QED
  BY <1>1, <1>2, <1>3, <1>4, <1>5

\* A context that leaves the pool is listed no longer, and referred to at once.
LEMMA AllocationKeeps ==
    ASSUME PoolInv, NEW c \in Contexts, c \in Sound, Allocate(c), TypeOK',
           ~Unreferenced(c)',
           \A d \in Contexts : d # c => (Unreferenced(d)' <=> Unreferenced(d)),
           \A t \in Threads : Clearing(t)' <=> Clearing(t),
           \A t \in Threads, d \in Contexts : d # c => (call'[t].ctx = d <=> call[t].ctx = d),
           \A t \in Threads : Clearing(t) => call'[t] = call[t]
    PROVE  RecycledAlone' /\ Kept'
<1>1. /\ allocated' = allocated \cup {c} /\ freeList' \in Seq(Contexts)
      /\ \A t \in Threads : call[t].ctx # c
      /\ \A k \in 1 .. Len(freeList') : freeList'[k] # c
      /\ \A k \in 1 .. Len(freeList') : \E n \in 1 .. Len(freeList) : freeList'[k] = freeList[n]
      /\ \A n, k \in 1 .. Len(freeList') :
           freeList'[n] \in Sound /\ freeList'[n] = freeList'[k] => n = k
      /\ \A n \in 1 .. Len(freeList) : freeList[n] # c =>
           \E k \in 1 .. Len(freeList') : freeList'[k] = freeList[n]
  BY Allocated
<1>2. \A d \in Sound : d \in Contexts
  BY DEF Sound
<1>3. RecycledAlone /\ TypeOK /\ Kept
  BY DEF PoolInv
<1>4. ASSUME NEW d \in Sound \ allocated'
      PROVE  Unreferenced(d)' /\ \A t \in Threads : call'[t].ctx # d
  <2>1. d # c /\ d \in Sound \ allocated /\ d \in Contexts
    BY <1>1, <1>2, <1>4
  <2>2. Unreferenced(d) /\ \A t \in Threads : call[t].ctx # d
    BY <1>3, <2>1 DEF RecycledAlone
  <2>3. QED
    BY <2>1, <2>2
<1>5. ASSUME NEW k \in 1 .. Len(freeList'), freeList'[k] \in Sound
      PROVE  /\ Unreferenced(freeList[k])'
             /\ \A t \in Threads : call'[t].ctx # freeList'[k]
             /\ freeList'[k] \in allocated'
  <2>1. PICK n \in 1 .. Len(freeList) : freeList'[k] = freeList[n]
    BY <1>1
  <2>2. PICK d \in Sound : d = freeList[n] /\ d # c /\ d \in Contexts
    BY <1>1, <1>2, <1>5, <2>1
  <2>3. Unreferenced(d) /\ d \in allocated /\ \A t \in Threads : call[t].ctx # d
    BY <1>3, <2>2 DEF RecycledAlone
  <2>4. Unreferenced(d)' /\ freeList'[k] = d
    BY <2>1, <2>2, <2>3
  <2>5. Unreferenced(freeList[k])'
    BY <2>4 DEF Unreferenced
  <2>6. QED
    BY <1>1, <2>2, <2>3, <2>4, <2>5
<1>6. ASSUME NEW t \in Threads, Clearing(t)', call'[t].ctx \in Sound
      PROVE  InitialRefs[call'[t].ctx] = 0 /\ Unreferenced(call[t].ctx)'
  <2>1. PICK d \in Sound : d = call[t].ctx /\ d # c /\ d \in Contexts /\ call'[t] = call[t] /\ Clearing(t)
    BY <1>1, <1>2, <1>6
  <2>2. InitialRefs[d] = 0 /\ Unreferenced(d)
    BY <1>3, <2>1 DEF RecycledAlone
  <2>3. Unreferenced(d)'
    BY <2>1, <2>2
  <2>4. QED
    BY <2>1, <2>2, <2>3 DEF Unreferenced
<1>7. ASSUME NEW t \in Threads, NEW u \in Threads,
             Clearing(t)', call'[t].ctx \in Sound, call'[u].ctx = call'[t].ctx
      PROVE  t = u
  <2>1. PICK d \in Sound : d = call[t].ctx /\ d # c /\ d \in Contexts /\ call'[t] = call[t] /\ Clearing(t)
    BY <1>1, <1>2, <1>7
  <2>2. call[u].ctx = call[t].ctx
    BY <1>7, <2>1
  <2>3. QED
    BY <1>3, <2>1, <2>2 DEF RecycledAlone
<1>8. RecycledAlone'
  BY <1>1, <1>4, <1>5, <1>6, <1>7 DEF RecycledAlone
<1>9. ASSUME NEW d \in allocated' \cap Zeroed, Unreferenced(d)'
      PROVE  \/ \E k \in 1 .. Len(freeList') : freeList'[k] = d
             \/ \E t \in Threads : Clearing(t)' /\ call'[t].ctx = d
  <2>1. d # c /\ d \in allocated \cap Zeroed /\ d \in Contexts
    BY <1>1, <1>3, <1>9 DEF TypeOK
  <2>2. Unreferenced(d)
    BY <1>9, <2>1
  <2>3. CASE \E n \in 1 .. Len(freeList) : freeList[n] = d
    BY SMTT(40), <1>1, <2>1, <2>3
  <2>4. CASE \E t \in Threads : Clearing(t) /\ call[t].ctx = d
    BY <2>1, <2>4
  <2>5. QED
    BY <1>3, <2>1, <2>2, <2>3, <2>4 DEF Kept
<1>10. Kept'
  BY <1>9 DEF Kept
<1>11. QED
  BY <1>8, <1>10

\* A request allocates a context and queues it for the controller.
LEMMA DispatchKeepsPoolInv ==
    ASSUME PoolInv, NEW c \in Contexts, c \in Sound, Dispatch(c)
    PROVE  PoolInv'
<1>1. /\ TypeOK /\ Allocate(c) /\ call' = call /\ port' = port /\ queued' = [queued EXCEPT ![c] = @ + 1]
  BY DEF Dispatch, PoolInv
<1>2. /\ refs' = [refs EXCEPT ![c] = @ + 1] /\ Unreferenced(c) /\ \A t \in Threads : call[t].ctx # c
      /\ freeList' \in Seq(Contexts) /\ allocated' = allocated \cup {c}
  BY <1>1, Allocated
<1>3. /\ port[c] = 0 /\ queued[c] = 0 /\ queued'[c] = 1 /\ queued' \in [Contexts -> Nat]
      /\ refs' \in [Contexts -> Int] /\ refs'[c] = refs[c] + 1
      /\ \A d \in Contexts : d # c => refs'[d] = refs[d] /\ queued'[d] = queued[d]
  BY <1>1, <1>2 DEF TypeOK, Unreferenced
<1>4. TypeOK'
  BY <1>1, <1>2, <1>3 DEF TypeOK
<1>5. Counted'
  <2>1. \A d : Holders(d)' = Holders(d) /\ Posting(d)' = Posting(d)
    BY <1>1 DEF Holders, Posting
  <2>2. \A d \in Contexts : Cardinality(Holders(d)) \in Nat /\ Cardinality(Posting(d)) \in Nat
    BY FiniteHolders, FS_CardinalityType
  <2>3. ASSUME NEW d \in Sound
        PROVE  refs'[d] = InitialRefs[d] + Cardinality(Holders(d)) + Cardinality(Posting(d))
                          + port'[d] + queued'[d]
    <3>1. refs[d] = InitialRefs[d] + Cardinality(Holders(d)) + Cardinality(Posting(d))
                    + port[d] + queued[d]
      BY DEF PoolInv, Counted
    <3>2. port[d] \in Nat /\ queued[d] \in Nat /\ d \in Contexts /\ InitialRefs[d] \in Nat
      BY <1>1, SoundStart DEF TypeOK
    <3>3. QED
      BY <1>1, <1>3, <2>2, <3>1, <3>2
  <2>4. QED
    BY <2>1, <2>3 DEF Counted
<1>6. OwnedOnce'
  <2>1. \A t \in Threads : Owning(t) => call[t].ctx \in Contexts
    BY <1>1, CallTypes DEF Owning
  <2>2. QED
    BY <1>1, <1>2, <1>3, <2>1, SoundStart DEF PoolInv, OwnedOnce, Owning
<1>7. /\ ~Unreferenced(c)'
      /\ \A d \in Contexts : d # c => (Unreferenced(d)' <=> Unreferenced(d))
      /\ \A t \in Threads : Clearing(t)' <=> Clearing(t)
  BY <1>1, <1>3 DEF Unreferenced, Clearing, Holding
<1>8. RecycledAlone' /\ Kept'
  BY <1>1, <1>4, <1>7, AllocationKeeps
<1>9. QED
  BY <1>4, <1>5, <1>6, <1>8 DEF PoolInv

\* The controller allocates a context to accept with or to encrypt in.
LEMMA AllocateForKeepsPoolInv ==
    ASSUME PoolInv, NEW c \in Contexts, c \in Sound, NEW pc \in {"own", "encrypt"}, AllocateFor(pc, c)
    PROVE  PoolInv'
<1> DEFINE e == In(pc, c)
<1>1. /\ TypeOK /\ Allocate(c) /\ call[Ctl] = Idle /\ call' = [call EXCEPT ![Ctl] = e]
      /\ port' = port /\ queued' = queued
  BY DEF AllocateFor, PoolInv
<1>2. /\ refs' = [refs EXCEPT ![c] = @ + 1] /\ Unreferenced(c) /\ \A t \in Threads : call[t].ctx # c
      /\ freeList' \in Seq(Contexts) /\ allocated' = allocated \cup {c}
  BY <1>1, Allocated
<1>3. /\ port[c] = 0 /\ queued[c] = 0
      /\ refs' \in [Contexts -> Int] /\ refs'[c] = refs[c] + 1
      /\ \A d \in Contexts : d # c => refs'[d] = refs[d]
  BY <1>1, <1>2 DEF TypeOK, Unreferenced
<1>4. /\ e \in Calls /\ e.ctx = c /\ e.pc \in {"own", "encrypt"} /\ Ctl \in Threads /\ call'[Ctl] = e
      /\ \A t \in Threads : t # Ctl => call'[t] = call[t]
      /\ call[Ctl].pc = "idle" /\ call[Ctl].ctx = NoContext
  BY <1>1 DEF In, Calls, Idle, TypeOK
<1>5. TypeOK'
  BY <1>1, <1>2, <1>3, <1>4 DEF TypeOK
<1>6. Counted'
  <2>1. /\ call[Ctl] = Idle \/ call[Ctl].ctx = c
        /\ e = Idle \/ e.ctx = c
    BY <1>1, <1>4
  <2>2. ASSUME NEW d \in Sound, d # c
        PROVE  refs'[d] = InitialRefs[d] + Cardinality(Holders(d)') + Cardinality(Posting(d)')
                          + port'[d] + queued'[d]
    <3>1. refs[d] = InitialRefs[d] + Cardinality(Holders(d)) + Cardinality(Posting(d))
                    + port[d] + queued[d]
      BY DEF PoolInv, Counted
    <3>2. /\ Cardinality(Holders(d)') = Cardinality(Holders(d))
          /\ Cardinality(Posting(d)') = Cardinality(Posting(d))
      BY <1>1, <1>4, <2>1, <2>2, SoundStart, CallChanges
    <3>3. QED
      BY <1>1, <1>3, <2>2, <3>1, <3>2, SoundStart
  <2>3. refs'[c] = InitialRefs[c] + Cardinality(Holders(c)') + Cardinality(Posting(c)')
                          + port'[c] + queued'[c]
    <3>1. Cardinality(Holders(c)) \in Nat /\ Cardinality(Posting(c)) \in Nat
      BY FiniteHolders, FS_CardinalityType
    <3>2. Cardinality(Holders(c)') = Cardinality(Holders(c))
                - (IF call[Ctl].pc \in HoldingPcs THEN 1 ELSE 0)
                + (IF e.pc \in HoldingPcs THEN 1 ELSE 0)
      BY <1>1, <1>4, <2>1, CallChanges
    <3>3. Cardinality(Posting(c)') = Cardinality(Posting(c))
                - (IF call[Ctl].pc = "posting" THEN 1 ELSE 0)
                + (IF e.pc = "posting" THEN 1 ELSE 0)
      BY <1>1, <1>4, <2>1, PostingChanges
    <3>4. /\ call[Ctl].pc \notin HoldingPcs /\ call[Ctl].pc # "posting"
          /\ e.pc \in HoldingPcs /\ e.pc # "posting"
      BY <1>4 DEF HoldingPcs
    <3>5. /\ Cardinality(Holders(c)') = Cardinality(Holders(c)) + 1
          /\ Cardinality(Posting(c)') = Cardinality(Posting(c))
      BY <3>1, <3>2, <3>3, <3>4
    <3>6. refs[c] = InitialRefs[c] + Cardinality(Holders(c)) + Cardinality(Posting(c))
                    + port[c] + queued[c]
      BY DEF PoolInv, Counted
    <3>7. InitialRefs[c] \in Nat /\ port[c] \in Nat /\ queued[c] \in Nat
      BY <1>1, SoundStart DEF TypeOK
    <3>8. QED
      BY <1>1, <1>3, <3>1, <3>5, <3>6, <3>7
  <2>4. QED
    BY <2>2, <2>3 DEF Counted
<1>7. OwnedOnce'
  <2>1. \A t \in Threads : Owning(t)' => call'[t].ctx \in Contexts /\ (t # Ctl => Owning(t))
    BY <1>1, <1>4, CallTypes DEF Owning
  <2>2. \A t \in Threads : t # Ctl => call'[t].ctx # c
    BY <1>2, <1>4
  <2>3. QED
    BY <1>1, <1>3, <1>4, <2>1, <2>2, SoundStart DEF PoolInv, OwnedOnce, Owning
<1>8. /\ ~Unreferenced(c)'
      /\ \A d \in Contexts : d # c => (Unreferenced(d)' <=> Unreferenced(d))
      /\ \A t \in Threads : Clearing(t)' <=> Clearing(t)
      /\ \A t \in Threads, d \in Contexts : d # c => (call'[t].ctx = d <=> call[t].ctx = d)
  <2>1. Holding(Ctl)' /\ ~Holding(Ctl) /\ \A t \in Threads : t # Ctl => (Holding(t)' <=> Holding(t))
    BY <1>4 DEF Holding
  <2>2. ~Clearing(Ctl)' /\ ~Clearing(Ctl) /\ \A t \in Threads : t # Ctl => (Clearing(t)' <=> Clearing(t))
    BY <1>4 DEF Clearing
  <2>3. ~Unreferenced(c)'
    BY <1>4, <2>1 DEF Unreferenced
  <2>4. \A t \in Threads, d \in Contexts : d # c => (call'[t].ctx = d <=> call[t].ctx = d)
    BY <1>4
  <2>5. ASSUME NEW d \in Contexts, d # c PROVE Unreferenced(d)' <=> Unreferenced(d)
    BY <1>1, <1>4, <2>1, <2>4, <2>5 DEF Unreferenced
  <2>6. QED
    BY <2>2, <2>3, <2>4, <2>5
<1>9. \A t \in Threads : Clearing(t) => call'[t] = call[t]
  BY <1>4 DEF Clearing
<1>10. RecycledAlone' /\ Kept'
  BY <1>1, <1>5, <1>8, <1>9, AllocationKeeps
<1>11. QED
  BY <1>5, <1>6, <1>7, <1>10 DEF PoolInv

\* What is added up is nothing if the sum is unchanged.
LEMMA SumIsZero ==
    ASSUME NEW i \in Nat, NEW a \in Nat, NEW b \in Nat, NEW p \in Nat, NEW q \in Nat
    PROVE  i + a + b + p + q = i <=> a = 0 /\ b = 0 /\ p = 0 /\ q = 0
OBVIOUS

\* A count that is still what it started with is that of a context that nothing refers to.
LEMMA NoneCounted ==
    ASSUME NEW c \in Contexts, c \in Sound, TypeOK, Counted
    PROVE  refs[c] = InitialRefs[c] <=> Unreferenced(c)
<1>1. /\ IsFiniteSet(Holders(c)) /\ IsFiniteSet(Posting(c))
      /\ Cardinality(Holders(c)) \in Nat /\ Cardinality(Posting(c)) \in Nat
  BY FiniteHolders, FS_CardinalityType
<1>2. /\ Cardinality(Holders(c)) = 0 <=> Holders(c) = {}
      /\ Cardinality(Posting(c)) = 0 <=> Posting(c) = {}
  BY <1>1, FS_EmptySet
<1>3. /\ refs[c] = InitialRefs[c] + Cardinality(Holders(c)) + Cardinality(Posting(c))
                    + port[c] + queued[c]
      /\ port[c] \in Nat /\ queued[c] \in Nat /\ InitialRefs[c] \in Nat
  BY SoundStart DEF Counted, TypeOK
<1>4. Holders(c) = {} => Posting(c) = {}
  BY DEF Holders, Posting
<1>5. Holders(c) = {} <=> \A t \in Threads : call[t].ctx = c => ~Holding(t)
  BY DEF Holders, Holding
<1>6. refs[c] = InitialRefs[c] <=> /\ Cardinality(Holders(c)) = 0 /\ Cardinality(Posting(c)) = 0
                      /\ port[c] = 0 /\ queued[c] = 0
  <2>1. InitialRefs[c] + Cardinality(Holders(c)) + Cardinality(Posting(c)) + port[c] + queued[c]
          = InitialRefs[c]
        <=> /\ Cardinality(Holders(c)) = 0 /\ Cardinality(Posting(c)) = 0
            /\ port[c] = 0 /\ queued[c] = 0
    <3>1. PICK i \in Nat, a \in Nat, b \in Nat, p \in Nat, q \in Nat :
            /\ i = InitialRefs[c] /\ a = Cardinality(Holders(c)) /\ b = Cardinality(Posting(c))
            /\ p = port[c] /\ q = queued[c]
      BY <1>1, <1>3
    <3>2. i + a + b + p + q = i <=> a = 0 /\ b = 0 /\ p = 0 /\ q = 0
      BY SumIsZero
    <3>3. QED
      BY <3>1, <3>2
  <2>2. QED
    BY <1>3, <2>1
<1>7. QED
  BY <1>2, <1>4, <1>5, <1>6 DEF Unreferenced

\* A thread that released its reference, and was not the last.
LEMMA NotLastKeepsPoolInv ==
    ASSUME PoolInv, NEW t \in Threads, NEW c \in Sound, c = call[t].ctx, call[t].pc = "release",
           refs' = [refs EXCEPT ![c] = @ - 1], refs[c] - 1 > 0,
           call' = [call EXCEPT ![t] = Idle], UNCHANGED <<freeList, allocated, queued, port>>
    PROVE  PoolInv'
<1>1. TypeOK /\ c \in Contexts /\ Idle \in Calls
  <2>1. TypeOK
    BY DEF PoolInv
  <2>2. QED
    BY <2>1, CallTypes DEF Calls
<1>2. /\ port[c] \in Nat /\ queued[c] \in Nat /\ port[c] + queued[c] <= 1
      /\ refs[c] \in Int /\ refs'[c] = refs[c] - 1 /\ refs' \in [Contexts -> Int]
      /\ \A d \in Contexts : d # c => refs'[d] = refs[d]
      /\ Holding(t) /\ ~Clearing(t) /\ call'[t] = Idle
      /\ \A u \in Threads : u # t => call'[u] = call[u]
  BY <1>1 DEF PoolInv, OwnedOnce, TypeOK, Holding, Clearing
<1>3. References(call[t]) = 1 /\ References(Idle) = 0 /\ Idle.pc = "idle"
  BY DEF References, HoldingPcs, Idle
<1>4. ~Unreferenced(c)
  BY <1>2 DEF Unreferenced
<1>5. c \in Zeroed => ~Unreferenced(c)'
  <2>1. refs[c] = InitialRefs[c] + Cardinality(Holders(c)) + Cardinality(Posting(c))
                  + port[c] + queued[c]
    BY <1>1 DEF PoolInv, Counted
  <2>2. /\ Cardinality(Holders(c)) \in Nat /\ Cardinality(Posting(c)) \in Nat
        /\ IsFiniteSet(Holders(c)) /\ IsFiniteSet(Posting(c))
    BY FiniteHolders, FS_CardinalityType
  <2>3. Cardinality(Holders(c)') = Cardinality(Holders(c))
                - (IF call[t].pc \in HoldingPcs THEN 1 ELSE 0)
                + (IF Idle.pc \in HoldingPcs THEN 1 ELSE 0)
    BY <1>1, CallChanges
  <2>4. call[t].pc \in HoldingPcs /\ Idle.pc \notin HoldingPcs
    BY <1>3 DEF HoldingPcs
  <2>5. Cardinality(Holders(c)') = Cardinality(Holders(c)) - 1
    BY <2>2, <2>3, <2>4
  <2>6. ASSUME c \in Zeroed, Unreferenced(c)' PROVE FALSE
    <3>1. port[c] = 0 /\ queued[c] = 0 /\ Holders(c)' = {}
      BY <2>6 DEF Unreferenced, Holders, Holding
    <3>2. \A u \in Threads : u # t => u \notin Posting(c)
      BY <1>2, <3>1 DEF Holders, Posting
    <3>3. Posting(c) = {}
      BY <3>2 DEF Posting
    <3>4. Cardinality(Holders(c)') = 0 /\ Cardinality(Posting(c)) = 0
      BY <3>1, <3>3, FS_EmptySet
    <3>5. QED
      BY <1>2, <2>1, <2>2, <2>5, <2>6, <3>1, <3>4, SoundStart
  <2>7. QED
    BY <2>6
<1>6. refs'[c] = refs[c] + port'[c] - port[c] + queued'[c] - queued[c]
                  + References(Idle) - References(call[t])
  BY <1>2, <1>3
<1>7. /\ \A d \in Contexts : d # c =>
           refs'[d] = refs[d] /\ port'[d] = port[d] /\ queued'[d] = queued[d]
      /\ port' \in [Contexts -> Nat] /\ queued' \in [Contexts -> Nat]
      /\ port'[c] + queued'[c] <= 1
      /\ UNCHANGED <<freeList, allocated>>
  BY <1>1, <1>2 DEF TypeOK
<1>8. /\ Idle.pc \notin {"reset", "push"} /\ Idle.pc \notin OwningPcs
      /\ call[t] = Idle \/ call[t].ctx = c
  BY <1>3 DEF OwningPcs
<1>9. \A u \in Threads : u # t /\ Owning(u) /\ call[u].ctx = c =>
        Idle.pc \notin OwningPcs /\ port'[c] = 0 /\ queued'[c] = 0
  BY <1>8 DEF PoolInv, OwnedOnce
<1>10. HandsOn(t, c, Idle)
  BY <1>1, <1>2, <1>4, <1>5, <1>6, <1>7, <1>8, <1>9 DEF HandsOn
<1>11. QED
  BY <1>1, <1>2, <1>3, <1>4, <1>10, HandedOn

\* What PushFree does to the free list.
LEMMA PushedLast ==
    ASSUME NEW s \in Seq(Contexts), NEW c \in Contexts, NEW r, r = Append(s, c)
    PROVE  /\ r \in Seq(Contexts) /\ Len(r) = Len(s) + 1 /\ Len(s) \in Nat
           /\ \A k \in 1 .. Len(s) : k \in 1 .. Len(r) /\ r[k] = s[k]
           /\ \A n \in 1 .. Len(r) : n \in 1 .. Len(s) \/ n = Len(r)
           /\ r[Len(r)] = c /\ Len(r) \in 1 .. Len(r)
<1>1. r \in Seq(Contexts) /\ Len(r) = Len(s) + 1 /\ Len(s) \in Nat
  BY LenProperties
<1>2. r[Len(s) + 1] = c /\ \A k \in 1 .. Len(s) : r[k] = s[k]
  BY LenProperties
<1>3. QED
  BY <1>1, <1>2

\* A sum of at most one, of which one part is not nothing, is that part.
LEMMA SumIsOne ==
    ASSUME NEW i \in Nat, NEW a \in Nat \ {0}, NEW b \in Nat, NEW p \in Nat, NEW q \in Nat,
           i + a + b + p + q - 1 <= 0
    PROVE  /\ a = 1 /\ b = 0 /\ p = 0 /\ q = 0 /\ i = 0
           /\ i + a + b + p + q = 1
OBVIOUS

\* What a step of Release does to a context that nothing refers to any more.
RecyclingStep(t, c, e) ==
    /\ \/ e = In("reset", c) /\ call[t].pc = "release" /\ refs[c] - 1 <= 0
          /\ refs' = [refs EXCEPT ![c] = @ - 1] /\ freeList' = freeList
       \/ e = In("push", c) /\ call[t].pc = "reset"
          /\ refs' = [refs EXCEPT ![c] = 0] /\ freeList' = freeList
       \/ e = Idle /\ call[t].pc = "push"
          /\ UNCHANGED refs /\ freeList' = Append(freeList, c)
    /\ UNCHANGED <<allocated, queued, port>>

\* It is the last one to use it, and puts it back into the free list.
LEMMA RecyclingKeeps ==
    ASSUME PoolInv, NEW t \in Threads, NEW c \in Contexts, c \in Sound, c = call[t].ctx,
           NEW e \in Calls, call' = [call EXCEPT ![t] = e], RecyclingStep(t, c, e)
    PROVE  PoolInv'
<1> USE DEF RecyclingStep
<1>0. /\ \A d \in Sound : d \in Contexts /\ InitialRefs[d] \in Nat
      /\ \A d \in Zeroed : d \in Sound
  BY SoundStart DEF Sound, Zeroed
<1>1. TypeOK /\ Counted /\ OwnedOnce /\ RecycledAlone /\ Kept
  BY DEF PoolInv
<1>2. call'[t] = e /\ (\A u \in Threads : u # t => call'[u] = call[u]) /\ e.pc \notin HoldingPcs
      /\ e.pc # "posting" /\ call[t].pc # "posting" /\ (e = Idle \/ e.ctx = c)
  BY <1>1 DEF TypeOK, In, Idle, HoldingPcs
<1>3. /\ c \in Contexts /\ freeList \in Seq(Contexts) /\ freeList' \in Seq(Contexts)
      /\ freeList' = freeList \/ freeList' = Append(freeList, c)
  <2>1. c \in Contexts /\ freeList \in Seq(Contexts)
    BY <1>1, CallTypes DEF TypeOK
  <2>2. freeList' = freeList \/ freeList' = Append(freeList, c)
    OBVIOUS
  <2>3. QED
    BY <2>1, <2>2, PushedLast
<1>4. refs' \in [Contexts -> Int] /\ \A d \in Contexts : d # c => refs'[d] = refs[d]
  BY <1>1 DEF TypeOK
<1>5. TypeOK'
  BY <1>1, <1>3, <1>4 DEF TypeOK
<1>6. Counted' /\ refs'[c] = 0 /\ InitialRefs[c] = 0
  <2>1. ASSUME NEW d \in Sound, d # c
        PROVE  refs'[d] = InitialRefs[d] + Cardinality(Holders(d)') + Cardinality(Posting(d)')
                          + port'[d] + queued'[d]
    <3>1. /\ Cardinality(Holders(d)') = Cardinality(Holders(d))
          /\ Cardinality(Posting(d)') = Cardinality(Posting(d))
      BY <1>0, <1>1, <1>2, <2>1, CallChanges
    <3>2. QED
      BY <1>0, <1>1, <1>4, <2>1, <3>1 DEF Counted
  <2>2. /\ Cardinality(Holders(c)) \in Nat /\ Cardinality(Posting(c)) \in Nat
        /\ port[c] \in Nat /\ queued[c] \in Nat /\ refs[c] \in Int /\ InitialRefs[c] \in Nat
        /\ refs[c] = InitialRefs[c] + Cardinality(Holders(c)) + Cardinality(Posting(c))
                     + port[c] + queued[c]
    BY <1>0, <1>1, FiniteHolders, FS_CardinalityType DEF TypeOK, Counted
  <2>3. Cardinality(Holders(c)') = Cardinality(Holders(c))
                - (IF call[t].pc \in HoldingPcs THEN 1 ELSE 0)
                + (IF e.pc \in HoldingPcs THEN 1 ELSE 0)
    BY <1>1, <1>2, CallChanges
  <2>4. Cardinality(Posting(c)') = Cardinality(Posting(c))
                - (IF call[t].pc = "posting" THEN 1 ELSE 0)
                + (IF e.pc = "posting" THEN 1 ELSE 0)
    <3>1. /\ TypeOK /\ t \in Threads /\ c \in Contexts /\ e \in Calls
          /\ call' = [call EXCEPT ![t] = e]
          /\ call[t] = Idle \/ call[t].ctx = c
          /\ e = Idle \/ e.ctx = c
      BY <1>1, <1>2
    <3> HIDE DEF RecyclingStep
    <3>2. QED
      BY <3>1, PostingChanges
  <2>5. Cardinality(Posting(c)') = Cardinality(Posting(c))
    BY <1>2, <2>2, <2>4
  <2>6. /\ refs'[c] = InitialRefs[c] + Cardinality(Holders(c)') + Cardinality(Posting(c)')
                      + port'[c] + queued'[c]
        /\ refs'[c] = 0 /\ InitialRefs[c] = 0
    <3>1. CASE call[t].pc = "release"
      <4>1. call[t].pc \in HoldingPcs /\ refs[c] - 1 <= 0 /\ refs'[c] = refs[c] - 1
        BY <1>1, <3>1 DEF HoldingPcs, TypeOK
      <4>2. Cardinality(Holders(c)') = Cardinality(Holders(c)) - 1
        BY <1>2, <2>2, <2>3, <4>1
      <4>3. t \in Holders(c)
        BY <3>1 DEF Holders
      <4>4. Cardinality(Holders(c)) # 0
        BY <4>3, FiniteHolders, FS_EmptySet
      <4>5. QED
        <5>1. /\ Cardinality(Holders(c)) = 1 /\ Cardinality(Posting(c)) = 0
              /\ port[c] = 0 /\ queued[c] = 0 /\ InitialRefs[c] = 0 /\ refs[c] = 1
          <6>1. InitialRefs[c] + Cardinality(Holders(c)) + Cardinality(Posting(c))
                  + port[c] + queued[c] - 1 <= 0
            BY <2>2, <4>1
          <6>2. Cardinality(Holders(c)) \in Nat \ {0}
            BY <2>2, <4>4
          <6>3. QED
            <7>1. PICK i \in Nat, a \in Nat \ {0}, b \in Nat, p \in Nat, q \in Nat :
                    /\ i = InitialRefs[c] /\ a = Cardinality(Holders(c))
                    /\ b = Cardinality(Posting(c)) /\ p = port[c] /\ q = queued[c]
              BY <2>2, <6>2
            <7>2. i + a + b + p + q - 1 <= 0
              BY <6>1, <7>1
            <7>3. /\ a = 1 /\ b = 0 /\ p = 0 /\ q = 0 /\ i = 0
                  /\ i + a + b + p + q = 1
              BY <7>2, SumIsOne
            <7>4. QED
              BY <2>2, <7>1, <7>3
        <5>2. QED
          BY <2>5, <4>1, <4>2, <5>1
    <3>2. CASE call[t].pc \in {"reset", "push"}
      <4>1. call[t].pc \notin HoldingPcs
        BY <3>2 DEF HoldingPcs
      <4>2. Cardinality(Holders(c)') = Cardinality(Holders(c))
        BY <1>2, <2>2, <2>3, <4>1
      <4>3. Unreferenced(c) /\ InitialRefs[c] = 0
        BY <1>1, <3>2 DEF RecycledAlone, Clearing
      <4>4. refs[c] = 0
        BY <1>1, <4>3, NoneCounted
      <4>5. refs'[c] = 0
        BY <1>1, <3>2, <4>4 DEF TypeOK
      <4>6. QED
        BY <2>2, <2>5, <4>2, <4>3, <4>4, <4>5
    <3>3. QED
      BY <3>1, <3>2
  <2>7. QED
    BY <2>1, <2>6 DEF Counted
<1>7. OwnedOnce'
  <2>1. \A u \in Threads : Owning(u)' => Owning(u) /\ u # t /\ call'[u] = call[u]
    BY <1>2 DEF Owning, HoldingPcs
  <2>2. QED
    BY <1>1, <2>1 DEF OwnedOnce
<1>8. Unreferenced(c)'
  <2>1. refs[c] - 1 = 0 \/ call[t].pc # "release"
    BY <1>1, <1>6 DEF TypeOK
  <2>2. CASE call[t].pc # "release"
    <3>1. Unreferenced(c)
      BY <1>1, <2>2 DEF RecycledAlone, Clearing
    <3>2. QED
      BY <1>2, <3>1 DEF Unreferenced, Holding, HoldingPcs
  <2>3. CASE call[t].pc = "release"
    <3>1. /\ Cardinality(Holders(c)) \in Nat /\ Cardinality(Posting(c)) \in Nat
          /\ port[c] \in Nat /\ queued[c] \in Nat
          /\ refs[c] = Cardinality(Holders(c)) + Cardinality(Posting(c)) + port[c] + queued[c]
          /\ IsFiniteSet(Holders(c)) /\ t \in Holders(c) /\ refs[c] = 1
      <4>1. IsFiniteSet(Holders(c)) /\ IsFiniteSet(Posting(c))
        BY FiniteHolders
      <4>2. Cardinality(Holders(c)) \in Nat /\ Cardinality(Posting(c)) \in Nat
        BY <4>1, FS_CardinalityType
      <4>3. /\ port[c] \in Nat /\ queued[c] \in Nat /\ refs[c] \in Int
            /\ refs[c] = Cardinality(Holders(c)) + Cardinality(Posting(c)) + port[c] + queued[c]
        <5>1. port[c] \in Nat /\ queued[c] \in Nat /\ refs[c] \in Int /\ InitialRefs[c] = 0
          BY <1>1, <1>3, <1>6 DEF TypeOK
        <5>2. refs[c] = InitialRefs[c] + Cardinality(Holders(c)) + Cardinality(Posting(c))
                        + port[c] + queued[c]
          BY <1>1 DEF Counted
        <5>3. QED
          BY <4>2, <5>1, <5>2
      <4>4. t \in Holders(c)
        BY <2>3 DEF Holders
      <4>5. refs[c] = 1
        BY <2>1, <2>3, <4>3
      <4>6. QED
        BY <4>1, <4>2, <4>3, <4>4, <4>5
    <3>2. Cardinality(Holders(c)) # 0
      BY <3>1, FS_EmptySet
    <3>3. port[c] = 0 /\ queued[c] = 0 /\ Cardinality(Holders(c)) = 1
      BY <3>1, <3>2
    <3>4. PICK x : Holders(c) = {x}
      BY <3>1, <3>3, FS_Singleton
    <3>5. \A u \in Threads : call[u].ctx = c /\ Holding(u) => u = t
      BY <3>1, <3>4 DEF Holders, Holding
    <3>6. QED
      BY <1>2, <3>3, <3>5 DEF Unreferenced, Holding, HoldingPcs
  <2>4. QED
    BY <2>2, <2>3
<1>9. ASSUME NEW d \in Contexts, d # c PROVE Unreferenced(d)' <=> Unreferenced(d)
  <2>1. call[t].ctx # d /\ ~(call'[t].ctx = d /\ Holding(t)')
    BY <1>2, <1>9 DEF Holding, HoldingPcs
  <2>2. \A u \in Threads : u # t => (call'[u].ctx = call[u].ctx /\ (Holding(u)' <=> Holding(u)))
    BY <1>2 DEF Holding
  <2>3. QED
    BY <2>1, <2>2 DEF Unreferenced
<1>10. /\ c \in allocated
       /\ \A n \in 1 .. Len(freeList) : freeList[n] # c /\ freeList[n] \in Contexts
  <2>1. \A n \in 1 .. Len(freeList) : freeList[n] \in Contexts
    BY <1>1, ElementOfSeq DEF TypeOK
  <2>2. QED
    BY <1>1, <2>1 DEF RecycledAlone
<1>11. \A u \in Threads : u # t /\ call[u].ctx = c => ~Clearing(u) /\ ~Holding(u)
  <2>1. ASSUME NEW u \in Threads, u # t, call[u].ctx = c PROVE ~Clearing(u) /\ ~Holding(u)
    <3>1. ~Clearing(u)
      BY <1>1, <2>1 DEF RecycledAlone
    <3>2. ~Holding(u)'
      BY <1>2, <1>8, <2>1 DEF Unreferenced
    <3>3. QED
      BY <1>2, <2>1, <3>1, <3>2 DEF Holding
  <2>2. QED
    BY <2>1
<1>12. \A u \in Threads : u # t => call[u].ctx # c
  <2>1. \A u \in Threads : Holding(u) \/ Clearing(u) \/ call[u] = Idle
    BY <1>1 DEF TypeOK, Calls, Holding, Clearing
  <2>2. QED
    BY <1>11, <2>1 DEF Idle
<1>13. \A n, k \in 1 .. Len(freeList) :
          freeList[n] \in Sound /\ freeList[n] = freeList[k] => n = k
  BY <1>1 DEF RecycledAlone
<1>14. /\ \A n \in 1 .. Len(freeList') : freeList'[n] = c \/ \E k \in 1 .. Len(freeList) : freeList'[n] = freeList[k]
       /\ \A k \in 1 .. Len(freeList) : \E n \in 1 .. Len(freeList') : freeList'[n] = freeList[k]
       /\ (\E n \in 1 .. Len(freeList') : freeList'[n] = c) <=> e = Idle
       /\ \A n, k \in 1 .. Len(freeList') :
             freeList'[n] \in Sound /\ freeList'[n] = freeList'[k] => n = k
  <2>1. CASE freeList' = freeList /\ e # Idle
    BY <1>10, <1>13, <2>1
  <2>2. CASE freeList' = Append(freeList, c) /\ e = Idle
    <3>1. /\ Len(freeList') = Len(freeList) + 1 /\ Len(freeList) \in Nat
          /\ \A k \in 1 .. Len(freeList) : k \in 1 .. Len(freeList') /\ freeList'[k] = freeList[k]
          /\ \A n \in 1 .. Len(freeList') : n \in 1 .. Len(freeList) \/ n = Len(freeList')
          /\ freeList'[Len(freeList')] = c /\ Len(freeList') \in 1 .. Len(freeList')
      BY <1>3, <2>2, PushedLast
    <3>2. ASSUME NEW n \in 1 .. Len(freeList'), NEW k \in 1 .. Len(freeList'),
                 freeList'[n] \in Sound, freeList'[n] = freeList'[k]
          PROVE  n = k
      <4>1. CASE n \in 1 .. Len(freeList) /\ k \in 1 .. Len(freeList)
        BY <1>13, <3>1, <3>2, <4>1
      <4>2. CASE n = Len(freeList') \/ k = Len(freeList')
        BY <1>10, <3>1, <3>2, <4>2
      <4>3. QED
        BY <3>1, <4>1, <4>2
    <3>3. QED
      BY <2>2, <3>1, <3>2
  <2>3. (freeList' = freeList /\ e # Idle) \/ (freeList' = Append(freeList, c) /\ e = Idle)
    BY DEF In, Idle
  <2>4. QED
    BY <2>1, <2>2, <2>3
<1>15. RecycledAlone'
  <2>1. ASSUME NEW d \in Sound \ allocated'
        PROVE  Unreferenced(d)' /\ \A u \in Threads : call'[u].ctx # d
    <3>1. d # c /\ d \in Sound \ allocated /\ d \in Contexts /\ d # NoContext
      BY <1>0, <1>10, <2>1
    <3>2. Unreferenced(d) /\ \A u \in Threads : call[u].ctx # d
      BY <1>1, <3>1 DEF RecycledAlone
    <3>3. QED
      BY <1>2, <1>9, <3>1, <3>2 DEF Idle
  <2>2. ASSUME NEW n \in 1 .. Len(freeList'), freeList'[n] \in Sound
        PROVE  /\ Unreferenced(freeList[n])'
               /\ \A u \in Threads : call'[u].ctx # freeList'[n]
               /\ freeList'[n] \in allocated'
    <3>1. CASE freeList'[n] = c
      <4>1. e = Idle
        BY <1>14, <3>1
      <4>2. \A u \in Threads : call'[u].ctx # c
        BY <1>2, <1>12, <4>1 DEF Idle
      <4>3. QED
        BY <1>8, <1>10, <3>1, <4>2 DEF Unreferenced
    <3>2. CASE freeList'[n] # c
      <4>1. PICK k \in 1 .. Len(freeList) : freeList'[n] = freeList[k]
        BY <1>14, <3>2
      <4>2. PICK d \in Contexts : d = freeList[k] /\ d # c /\ d \in Sound /\ d # NoContext
        BY <1>10, <2>2, <4>1
      <4>3. Unreferenced(d) /\ d \in allocated /\ \A u \in Threads : call[u].ctx # d
        BY <1>1, <4>2 DEF RecycledAlone
      <4>4. Unreferenced(d)' /\ freeList'[n] = d /\ \A u \in Threads : call'[u].ctx # d
        BY <1>2, <1>9, <4>1, <4>2, <4>3 DEF Idle
      <4>5. QED
        BY <4>3, <4>4 DEF Unreferenced
    <3>3. QED
      BY <3>1, <3>2
  <2>3. ASSUME NEW u \in Threads, Clearing(u)', call'[u].ctx \in Sound
        PROVE  InitialRefs[call'[u].ctx] = 0 /\ Unreferenced(call[u].ctx)'
    <3>1. CASE u = t
      <4>1. call'[u].ctx = c
        BY <1>2, <2>3, <3>1 DEF Clearing, Idle
      <4>2. QED
        BY <1>6, <1>8, <4>1 DEF Unreferenced
    <3>2. CASE u # t
      <4>1. Clearing(u) /\ call'[u] = call[u]
        BY <1>2, <2>3, <3>2 DEF Clearing
      <4>2. call[u].ctx \in Contexts /\ call[u].ctx # c /\ call[u].ctx \in Sound
        BY <1>1, <1>12, <2>3, <3>2, <4>1, CallTypes DEF Clearing
      <4>3. PICK d \in Contexts : d = call[u].ctx /\ d # c /\ d \in Sound
        BY <4>2
      <4>4. Unreferenced(d)' /\ call'[u].ctx = d /\ InitialRefs[d] = 0
        BY <1>1, <1>9, <4>1, <4>3 DEF RecycledAlone
      <4>5. QED
        BY <4>4 DEF Unreferenced
    <3>3. QED
      BY <3>1, <3>2
  <2>4. ASSUME NEW u \in Threads, NEW v \in Threads,
               Clearing(u)', call'[u].ctx \in Sound, call'[v].ctx = call'[u].ctx
        PROVE  u = v
    <3>1. CASE u = t
      <4>1. call'[u].ctx = c
        BY <1>2, <2>4, <3>1 DEF Clearing, Idle
      <4>2. QED
        BY <1>2, <1>12, <2>4, <3>1, <4>1
    <3>2. CASE u # t
      <4>1. /\ Clearing(u) /\ call'[u] = call[u] /\ call[u].ctx # c
            /\ call[u].ctx \in Contexts /\ call[u].ctx \in Sound
        BY <1>1, <1>2, <1>12, <2>4, <3>2, CallTypes DEF Clearing
      <4>2. v # t
        BY <1>2, <2>4, <4>1 DEF Idle
      <4>3. QED
        BY <1>1, <1>2, <2>4, <4>1, <4>2 DEF RecycledAlone
    <3>3. QED
      BY <3>1, <3>2
  <2>5. QED
    BY <1>14, <2>1, <2>2, <2>3, <2>4 DEF RecycledAlone
<1>16. Kept'
  <2>1. ASSUME NEW d \in allocated' \cap Zeroed, Unreferenced(d)'
        PROVE  \/ \E n \in 1 .. Len(freeList') : freeList'[n] = d
               \/ \E u \in Threads : Clearing(u)' /\ call'[u].ctx = d
    <3>1. CASE d = c
      <4>1. CASE e = Idle
        BY <1>14, <3>1, <4>1
      <4>2. CASE e # Idle
        <5>1. Clearing(t)' /\ call'[t].ctx = c
          BY <1>2, <4>2 DEF Clearing, In
        <5>2. QED
          BY <3>1, <5>1
      <4>3. QED
        BY <4>1, <4>2
    <3>2. CASE d # c
      <4>1. d \in Contexts /\ d \in allocated \cap Zeroed /\ Unreferenced(d)
        BY <1>1, <1>9, <2>1, <3>2 DEF TypeOK
      <4>2. CASE \E n \in 1 .. Len(freeList) : freeList[n] = d
        BY <1>14, <4>2
      <4>3. CASE \E u \in Threads : Clearing(u) /\ call[u].ctx = d
        <5>1. PICK u \in Threads : Clearing(u) /\ call[u].ctx = d
          BY <4>3
        <5>2. u # t /\ call'[u] = call[u]
          BY <1>2, <3>2, <5>1
        <5>3. QED
          BY <5>1, <5>2 DEF Clearing
      <4>4. QED
        BY <1>1, <4>1, <4>2, <4>3 DEF Kept
    <3>3. QED
      BY <3>1, <3>2
  <2>2. QED
    BY <2>1 DEF Kept
<1>17. QED
  BY <1>5, <1>6, <1>7, <1>15, <1>16 DEF PoolInv


\* The steps of Release: only the last reference recycles the context.
LEMMA ReleaseKeepsPoolInv ==
    ASSUME PoolInv, NEW t \in Threads, Release(t), call[t].ctx \in Sound
    PROVE  PoolInv'
<1>1. TypeOK /\ Idle \in Calls
  BY DEF PoolInv, Calls
<1>2. call[t].pc # "idle" => call[t].ctx \in Contexts
  BY <1>1, CallTypes
<1>3. \A c \in Contexts : In("reset", c) \in Calls /\ In("push", c) \in Calls
  BY DEF In, Calls
<1>4. CASE Decrease(t)
  <2>1. PICK c \in Contexts : c = call[t].ctx
    BY <1>2, <1>4 DEF Decrease
  <2>2. CASE refs[c] - 1 > 0
    BY <1>4, <2>1, <2>2, NotLastKeepsPoolInv DEF Decrease
  <2>3. CASE ~(refs[c] - 1 > 0)
    <3>1. refs[c] \in Int
      BY <1>1 DEF TypeOK
    <3>2. refs[c] - 1 <= 0
      BY <2>3, <3>1
    <3>3. /\ call[t].pc = "release" /\ refs' = [refs EXCEPT ![c] = @ - 1] /\ freeList' = freeList
          /\ call' = [call EXCEPT ![t] = In("reset", c)] /\ UNCHANGED <<allocated, queued, port>>
      BY <1>4, <2>1, <2>3 DEF Decrease
    <3>4. QED
      BY <1>3, <2>1, <3>2, <3>3, RecyclingKeeps DEF RecyclingStep
  <2>4. QED
    BY <2>2, <2>3
<1>5. CASE ResetContext(t)
  <2>1. PICK c \in Contexts : c = call[t].ctx
    BY <1>2, <1>5 DEF ResetContext
  <2>2. /\ call[t].pc = "reset" /\ refs' = [refs EXCEPT ![c] = 0] /\ freeList' = freeList
        /\ call' = [call EXCEPT ![t] = In("push", c)] /\ UNCHANGED <<allocated, queued, port>>
    BY <1>5, <2>1 DEF ResetContext
  <2>3. QED
    BY <1>3, <2>1, <2>2, RecyclingKeeps DEF RecyclingStep
<1>6. CASE PushFree(t)
  <2>1. PICK c \in Contexts : c = call[t].ctx
    BY <1>2, <1>6 DEF PushFree
  <2>2. /\ call[t].pc = "push" /\ UNCHANGED refs /\ freeList' = Append(freeList, c)
        /\ call' = [call EXCEPT ![t] = Idle] /\ UNCHANGED <<allocated, queued, port>>
    BY <1>6, <2>1 DEF PushFree
  <2>3. QED
    BY <1>1, <2>1, <2>2, RecyclingKeeps DEF RecyclingStep
<1>7. QED
  BY <1>4, <1>5, <1>6 DEF Release

\* A step that concerns context c alone, and leaves every other one where it is.
Aside(c) ==
    /\ \A d \in Contexts : d # c =>
          /\ refs'[d] = refs[d] /\ port'[d] = port[d] /\ queued'[d] = queued[d]
          /\ d \in allocated' <=> d \in allocated
    /\ \A u \in Threads :
          \/ call'[u] = call[u]
          \/ call[u].ctx \in {c, NoContext} /\ call'[u].ctx \in {c, NoContext}
    /\ \A k \in 1 .. Len(freeList') : freeList'[k] # c =>
          \E n \in 1 .. Len(freeList) : freeList'[k] = freeList[n]
    /\ \A n \in 1 .. Len(freeList) : freeList[n] # c =>
          \E k \in 1 .. Len(freeList') : freeList'[k] = freeList[n]
    /\ \A n, k \in 1 .. Len(freeList') :
          freeList'[n] \in Sound /\ freeList'[n] = freeList'[k] => n = k

\* A context whose count started below 0 may be recycled while it is used, but what
\* happens to it never disturbs a sound context.
LEMMA AsideKeeps ==
    ASSUME PoolInv, TypeOK', NEW c \in Contexts \ Sound, Aside(c)
    PROVE  PoolInv'
<1>1. TypeOK /\ Counted /\ OwnedOnce /\ RecycledAlone /\ Kept
  BY DEF PoolInv
<1>2. \A d \in Sound : d \in Contexts /\ d # c /\ d # NoContext
  BY DEF Sound
<1>3. \A d \in Sound : /\ refs'[d] = refs[d] /\ port'[d] = port[d] /\ queued'[d] = queued[d]
                       /\ d \in allocated' <=> d \in allocated
  BY <1>2 DEF Aside
<1>4. \A u \in Threads, d \in Sound :
        /\ call'[u].ctx = d <=> call[u].ctx = d
        /\ call[u].ctx = d => call'[u] = call[u]
  BY <1>2 DEF Aside
<1>5. \A d \in Sound : Holders(d)' = Holders(d) /\ Posting(d)' = Posting(d)
  <2>1. SUFFICES ASSUME NEW d \in Sound
                 PROVE  Holders(d)' = Holders(d) /\ Posting(d)' = Posting(d)
    OBVIOUS
  <2>2. \A u \in Threads : /\ u \in Holders(d)' <=> u \in Holders(d)
                           /\ u \in Posting(d)' <=> u \in Posting(d)
    BY <1>4 DEF Holders, Posting
  <2>3. QED
    BY <2>2 DEF Holders, Posting
<1>6. \A d \in Sound : Unreferenced(d)' <=> Unreferenced(d)
  <2>1. SUFFICES ASSUME NEW d \in Sound PROVE Unreferenced(d)' <=> Unreferenced(d)
    OBVIOUS
  <2>2. \A u \in Threads : call'[u].ctx = d <=> call[u].ctx = d
    BY <1>4
  <2>3. \A u \in Threads : call[u].ctx = d => (Holding(u)' <=> Holding(u))
    BY <1>4 DEF Holding
  <2>4. QED
    BY <1>3, <2>2, <2>3 DEF Unreferenced
<1>7. Counted'
  BY <1>1, <1>3, <1>5 DEF Counted
<1>8. OwnedOnce'
  <2>1. \A u \in Threads : Owning(u)' /\ call'[u].ctx \in Sound =>
          Owning(u) /\ call[u].ctx \in Sound /\ call'[u] = call[u]
    BY <1>4 DEF Owning
  <2>2. QED
    BY <1>1, <1>3, <2>1 DEF OwnedOnce
<1>9. RecycledAlone'
  <2>1. ASSUME NEW d \in Sound \ allocated'
        PROVE  Unreferenced(d)' /\ \A u \in Threads : call'[u].ctx # d
    BY <1>1, <1>3, <1>4, <1>6, <2>1 DEF RecycledAlone
  <2>2. ASSUME NEW n \in 1 .. Len(freeList'), freeList'[n] \in Sound
        PROVE  /\ Unreferenced(freeList[n])'
               /\ \A u \in Threads : call'[u].ctx # freeList'[n]
               /\ freeList'[n] \in allocated'
    <3>1. PICK d \in Sound : d = freeList'[n]
      BY <2>2
    <3>2. PICK k \in 1 .. Len(freeList) : freeList[k] = d
      BY <1>2, <3>1 DEF Aside
    <3>3. Unreferenced(d) /\ d \in allocated /\ \A u \in Threads : call[u].ctx # d
      BY <1>1, <3>2 DEF RecycledAlone
    <3>4. Unreferenced(d)' /\ d \in allocated' /\ \A u \in Threads : call'[u].ctx # d
      BY <1>3, <1>4, <1>6, <3>3
    <3>5. QED
      BY <3>1, <3>4 DEF Unreferenced
  <2>3. ASSUME NEW u \in Threads, Clearing(u)', call'[u].ctx \in Sound
        PROVE  InitialRefs[call'[u].ctx] = 0 /\ Unreferenced(call[u].ctx)'
    <3>1. PICK d \in Sound : d = call[u].ctx /\ call'[u] = call[u] /\ Clearing(u)
      BY <1>4, <2>3 DEF Clearing
    <3>2. InitialRefs[d] = 0 /\ Unreferenced(d)
      BY <1>1, <3>1 DEF RecycledAlone
    <3>3. Unreferenced(d)'
      BY <1>6, <3>2
    <3>4. QED
      BY <3>1, <3>2, <3>3 DEF Unreferenced
  <2>4. ASSUME NEW u \in Threads, NEW v \in Threads,
               Clearing(u)', call'[u].ctx \in Sound, call'[v].ctx = call'[u].ctx
        PROVE  u = v
    <3>1. Clearing(u) /\ call[u].ctx \in Sound /\ call[v].ctx = call[u].ctx
      BY <1>4, <2>4 DEF Clearing
    <3>2. QED
      BY <1>1, <3>1 DEF RecycledAlone
  <2>5. QED
    BY <2>1, <2>2, <2>3, <2>4 DEF RecycledAlone, Aside
<1>10. Kept'
  <2>1. ASSUME NEW d \in allocated' \cap Zeroed, Unreferenced(d)'
        PROVE  \/ \E n \in 1 .. Len(freeList') : freeList'[n] = d
               \/ \E u \in Threads : Clearing(u)' /\ call'[u].ctx = d
    <3>1. d \in Sound /\ d \in allocated \cap Zeroed /\ Unreferenced(d)
      BY <1>3, <1>6, <2>1 DEF Sound, Zeroed
    <3>2. CASE \E n \in 1 .. Len(freeList) : freeList[n] = d
      BY <1>2, <3>1, <3>2 DEF Aside
    <3>3. CASE \E u \in Threads : Clearing(u) /\ call[u].ctx = d
      BY <1>4, <3>1, <3>3 DEF Clearing
    <3>4. QED
      BY <1>1, <3>1, <3>2, <3>3 DEF Kept
  <2>2. QED
    BY <2>1 DEF Kept
<1>11. QED
  BY <1>7, <1>8, <1>9, <1>10 DEF PoolInv

\* An unsound context is allocated: the free list keeps all others.
LEMMA AllocatedAside ==
    ASSUME PoolInv, NEW c \in Contexts \ Sound,
           Dispatch(c) \/ \E pc \in {"own", "encrypt"} : AllocateFor(pc, c)
    PROVE  PoolInv'
<1>1. TypeOK /\ Allocate(c) /\ port' = port
  BY DEF PoolInv, Dispatch, AllocateFor
<1>2. /\ refs' = [refs EXCEPT ![c] = @ + 1] /\ freeList' \in Seq(Contexts) /\ allocated' \subseteq Contexts
      /\ \A d \in Contexts : d # c => (d \in allocated' <=> d \in allocated)
      /\ \A k \in 1 .. Len(freeList') : \E n \in 1 .. Len(freeList) : freeList'[k] = freeList[n]
      /\ \A n, k \in 1 .. Len(freeList') :
            freeList'[n] \in Sound /\ freeList'[n] = freeList'[k] => n = k
      /\ \A n \in 1 .. Len(freeList) : freeList[n] # c =>
            \E k \in 1 .. Len(freeList') : freeList'[k] = freeList[n]
  BY <1>1, Allocated
<1>3. /\ queued' \in [Contexts -> Nat] /\ call' \in [Threads -> Calls]
      /\ \A d \in Contexts : d # c => queued'[d] = queued[d]
      /\ \A u \in Threads : call'[u] = call[u] \/ (call[u].ctx = NoContext /\ call'[u].ctx = c)
  <2>1. CASE Dispatch(c)
    BY <1>1, <2>1 DEF Dispatch, TypeOK
  <2>2. ASSUME NEW pc \in {"own", "encrypt"}, AllocateFor(pc, c)
        PROVE  /\ queued' = queued /\ call' \in [Threads -> Calls]
               /\ \A u \in Threads :
                     call'[u] = call[u] \/ (call[u].ctx = NoContext /\ call'[u].ctx = c)
    <3>1. In(pc, c) \in Calls /\ In(pc, c).ctx = c /\ Idle.ctx = NoContext
      BY DEF In, Calls, Idle
    <3>2. QED
      BY <1>1, <2>2, <3>1 DEF AllocateFor, TypeOK
  <2>3. QED
    BY <1>1, <2>1, <2>2 DEF TypeOK
<1>4. TypeOK' /\ \A d \in Contexts : d # c => refs'[d] = refs[d]
  <2>1. refs' \in [Contexts -> Int] /\ \A d \in Contexts : d # c => refs'[d] = refs[d]
    BY <1>1, <1>2 DEF TypeOK
  <2>2. port' \in [Contexts -> Nat]
    BY <1>1 DEF TypeOK
  <2>3. QED
    BY <1>2, <1>3, <2>1, <2>2 DEF TypeOK
<1>5. Aside(c)
  BY <1>1, <1>2, <1>3, <1>4 DEF Aside
<1>6. QED
  BY <1>4, <1>5, AsideKeeps

\* Any other step with an unsound context.
LEMMA HandledAside ==
    ASSUME PoolInv, NEW t \in Threads, NEW c \in Contexts \ Sound,
           \/ Pop(c) /\ t = Ctl
           \/ t \in Workers /\ Dequeue(t, c)
           \/ PostQueued /\ t = Ctl /\ call[t].ctx = c
           \/ call[t].ctx = c /\ CountReference(t)
           \/ call[t].ctx = c /\ StartOperation(t)
           \/ call[t].ctx = c /\ LateUse(t)
           \/ call[t].ctx = c /\ FinishHandler(t)
           \/ call[t].ctx = c /\ Release(t)
    PROVE  PoolInv'
<1>1. TypeOK /\ RecycledAlone
  BY DEF PoolInv
<1>2. \A pc \in {"own", "encrypt", "posting", "late", "release", "reset", "push"} :
        In(pc, c) \in Calls /\ In(pc, c).ctx = c
  BY DEF In, Calls
<1>3. Idle \in Calls /\ Idle.ctx = NoContext
  BY DEF Calls, Idle
<1>4. /\ call[t].ctx \in {c, NoContext}
      /\ \E e \in Calls : e.ctx \in {c, NoContext} /\ call' = [call EXCEPT ![t] = e]
  <2>1. CASE Pop(c) /\ t = Ctl
    BY <1>2, <1>3, <2>1 DEF Pop
  <2>2. CASE t \in Workers /\ Dequeue(t, c)
    BY <1>2, <1>3, <2>2 DEF Dequeue
  <2>3. CASE PostQueued /\ t = Ctl /\ call[t].ctx = c
    BY <1>2, <1>3, <2>3 DEF PostQueued
  <2>4. CASE call[t].ctx = c /\ CountReference(t)
    BY <1>2, <1>3, <2>4 DEF CountReference
  <2>5. CASE call[t].ctx = c /\ StartOperation(t)
    BY <1>2, <1>3, <2>5 DEF StartOperation
  <2>6. CASE call[t].ctx = c /\ (LateUse(t) \/ FinishHandler(t))
    BY <1>2, <1>3, <2>6 DEF LateUse, FinishHandler
  <2>7. CASE call[t].ctx = c /\ Release(t)
    BY <1>2, <1>3, <2>7 DEF Release, Decrease, ResetContext, PushFree
  <2>8. QED
    BY <2>1, <2>2, <2>3, <2>4, <2>5, <2>6, <2>7
<1>5. /\ call' \in [Threads -> Calls]
      /\ \A u \in Threads :
            \/ call'[u] = call[u]
            \/ call[u].ctx \in {c, NoContext} /\ call'[u].ctx \in {c, NoContext}
  BY <1>1, <1>4 DEF TypeOK
<1>6. allocated' = allocated
  BY DEF Pop, Dequeue, PostQueued, CountReference, StartOperation, LateUse, FinishHandler,
         Release, Decrease, ResetContext, PushFree
<1>7. refs' \in [Contexts -> Int] /\ \A d \in Contexts : d # c => refs'[d] = refs[d]
  BY <1>1 DEF TypeOK, Pop, Dequeue, PostQueued, CountReference, StartOperation, LateUse,
              FinishHandler, Release, Decrease, ResetContext, PushFree
<1>8. queued' \in [Contexts -> Nat] /\ \A d \in Contexts : d # c => queued'[d] = queued[d]
  BY <1>1 DEF TypeOK, Pop, Dequeue, PostQueued, CountReference, StartOperation, LateUse,
              FinishHandler, Release, Decrease, ResetContext, PushFree
<1>9. port' \in [Contexts -> Nat] /\ \A d \in Contexts : d # c => port'[d] = port[d]
  <2>1. \/ port' = port
        \/ port' = [port EXCEPT ![c] = @ + 1]
        \/ port' = [port EXCEPT ![c] = @ - 1] /\ port[c] > 0
    BY DEF Pop, Dequeue, PostQueued, CountReference, StartOperation, LateUse, FinishHandler,
           Release, Decrease, ResetContext, PushFree
  <2>2. CASE port' = port
    BY <1>1, <2>2 DEF TypeOK
  <2>3. CASE port' = [port EXCEPT ![c] = @ + 1]
    BY <1>1, <2>3 DEF TypeOK
  <2>4. CASE port' = [port EXCEPT ![c] = @ - 1] /\ port[c] > 0
    <3>1. port[c] \in Nat /\ port[c] - 1 \in Nat
      BY <1>1, <2>4 DEF TypeOK
    <3>2. QED
      BY <1>1, <2>4, <3>1 DEF TypeOK
  <2>5. QED
    BY <2>1, <2>2, <2>3, <2>4
<1>10. freeList' = freeList \/ freeList' = Append(freeList, c)
  BY DEF Pop, Dequeue, PostQueued, CountReference, StartOperation, LateUse, FinishHandler,
         Release, Decrease, ResetContext, PushFree
<1>11. /\ freeList' \in Seq(Contexts)
       /\ \A k \in 1 .. Len(freeList') : freeList'[k] # c =>
             \E n \in 1 .. Len(freeList) : freeList'[k] = freeList[n]
       /\ \A n \in 1 .. Len(freeList) : freeList[n] # c =>
             \E k \in 1 .. Len(freeList') : freeList'[k] = freeList[n]
       /\ \A n, k \in 1 .. Len(freeList') :
             freeList'[n] \in Sound /\ freeList'[n] = freeList'[k] => n = k
  <2>1. freeList \in Seq(Contexts)
        /\ \A n, k \in 1 .. Len(freeList) :
              freeList[n] \in Sound /\ freeList[n] = freeList[k] => n = k
    BY <1>1 DEF TypeOK, RecycledAlone
  <2>2. CASE freeList' = freeList
    BY <2>1, <2>2
  <2>3. CASE freeList' = Append(freeList, c)
    <3>1. /\ freeList' \in Seq(Contexts) /\ Len(freeList') = Len(freeList) + 1 /\ Len(freeList) \in Nat
          /\ \A k \in 1 .. Len(freeList) : k \in 1 .. Len(freeList') /\ freeList'[k] = freeList[k]
          /\ \A n \in 1 .. Len(freeList') : n \in 1 .. Len(freeList) \/ n = Len(freeList')
          /\ freeList'[Len(freeList')] = c
      BY <2>1, <2>3, PushedLast
    <3>2. QED
      BY <2>1, <3>1
  <2>4. QED
    BY <1>10, <2>2, <2>3
<1>12. TypeOK'
  BY <1>1, <1>5, <1>6, <1>7, <1>8, <1>9, <1>11 DEF TypeOK
<1>13. Aside(c)
  BY <1>5, <1>6, <1>7, <1>8, <1>9, <1>11 DEF Aside
<1>14. QED
  BY <1>12, <1>13, AsideKeeps

\* Every step keeps the invariant.
LEMMA NextKeepsPoolInv ==
    ASSUME PoolInv, [Next]_vars
    PROVE  PoolInv'
<1>1. ASSUME NEW c \in Contexts, Dispatch(c) PROVE PoolInv'
  BY <1>1, DispatchKeepsPoolInv, AllocatedAside
<1>2. ASSUME NEW c \in Contexts, Pop(c) PROVE PoolInv'
  <2>1. CASE c \in Sound
    BY <1>2, <2>1, PopKeepsPoolInv
  <2>2. CASE c \notin Sound
    BY <1>2, <2>2, HandledAside
  <2>3. QED
    BY <2>1, <2>2
<1>3. ASSUME NEW c \in Contexts, NEW pc \in {"own", "encrypt"}, AllocateFor(pc, c) PROVE PoolInv'
  BY <1>3, AllocateForKeepsPoolInv, AllocatedAside
<1>4. ASSUME NEW w \in Workers, NEW c \in Contexts, Dequeue(w, c) PROVE PoolInv'
  <2>1. CASE c \in Sound
    BY <1>4, <2>1, DequeueKeepsPoolInv
  <2>2. CASE c \notin Sound
    BY <1>4, <2>2, HandledAside
  <2>3. QED
    BY <2>1, <2>2
<1>5. ASSUME NEW t \in Threads,
             \/ PostQueued /\ t = Ctl
             \/ CountReference(t) \/ StartOperation(t) \/ LateUse(t) \/ FinishHandler(t)
             \/ Release(t)
      PROVE  PoolInv'
  <2>1. call[t].ctx \in Contexts
    <3>1. call[t].pc # "idle"
      BY <1>5 DEF PostQueued, CountReference, StartOperation, LateUse, FinishHandler,
                  Release, Decrease, ResetContext, PushFree
    <3>2. QED
      BY <3>1, CallTypes DEF PoolInv
  <2>2. CASE call[t].ctx \in Sound
    BY <1>5, <2>2, HandlersKeepPoolInv, ReleaseKeepsPoolInv
  <2>3. CASE call[t].ctx \notin Sound
    BY <1>5, <2>1, <2>3, HandledAside
  <2>4. QED
    BY <2>2, <2>3
<1>6. CASE UNCHANGED vars
  <2>1. /\ refs' = refs /\ freeList' = freeList /\ allocated' = allocated
        /\ queued' = queued /\ port' = port /\ call' = call
    BY <1>6 DEF vars
  <2>2. TypeOK'
    BY <2>1 DEF PoolInv, TypeOK
  <2>3. Counted'
    BY <2>1 DEF PoolInv, Counted, Holders, Posting
  <2>4. OwnedOnce'
    BY <2>1 DEF PoolInv, OwnedOnce, Owning
  <2>5. RecycledAlone' /\ Kept'
    BY <2>1 DEF PoolInv, RecycledAlone, Kept, Unreferenced, Holding, Clearing
  <2>6. QED
    BY <2>2, <2>3, <2>4, <2>5 DEF PoolInv
<1>7. QED
  BY <1>1, <1>2, <1>3, <1>4, <1>5, <1>6 DEF Next

\* The invariant behind the rest, whatever the counts of new contexts read: every reference
\* to a sound context is counted, at most one operation goes on with it, it is recycled by
\* one thread while nobody else refers to it, and, if it started at 0, never lost.
THEOREM PoolInvariant == Spec => []PoolInv
<1>1. Init => PoolInv
  BY InitPoolInv
<1>2. PoolInv /\ [Next]_vars => PoolInv'
  BY NextKeepsPoolInv
<1>3. QED
  BY <1>1, <1>2, PTL DEF Spec

\* Counts, lists and threads stay well typed: no count of the two queues is negative.
THEOREM PoolTypeCorrect == Spec => []TypeOK
<1>1. PoolInv => TypeOK
  BY DEF PoolInv
<1>2. QED
  BY PoolInvariant, <1>1, PTL

\* m_nReferenceCount of a sound context is the number of references and what it started
\* with, whatever the interleaving.
THEOREM CountsAreExact == Spec => []RefsAreExact
<1>1. PoolInv => RefsAreExact
  BY DEF PoolInv, TypeOK, Counted, RefsAreExact
<1>2. QED
  BY PoolInvariant, <1>1, PTL

\* NetworkContextPoolPO::Release never puts a sound context into the free list that an
\* operation or a thread still uses, nor one that is there already; contexts whose count
\* started below 0 and are recycled while they are used do not change that.
THEOREM FreeIsIdle == Spec => []FreeContextsAreIdle
<1>1. PoolInv => FreeContextsAreIdle
  <2>1. SUFFICES ASSUME PoolInv, NEW n \in DOMAIN freeList, freeList[n] \in Sound
                 PROVE  /\ InNoUse(freeList[n]) /\ Recycling(freeList[n]) = {}
                        /\ \A k \in DOMAIN freeList : freeList[k] = freeList[n] => k = n
    BY DEF FreeContextsAreIdle
  <2>2. DOMAIN freeList = 1 .. Len(freeList)
    BY <2>1, LenProperties DEF PoolInv, TypeOK
  <2>3. Unreferenced(freeList[n]) /\ \A t \in Threads : call[t].ctx # freeList[n]
    BY <2>1, <2>2 DEF PoolInv, RecycledAlone
  <2>4. Holders(freeList[n]) = {} /\ Recycling(freeList[n]) = {}
    BY <2>3 DEF Holders, Recycling
  <2>5. \A k \in DOMAIN freeList : freeList[k] = freeList[n] => k = n
    BY <2>1, <2>2 DEF PoolInv, RecycledAlone
  <2>6. QED
    BY <2>3, <2>4, <2>5 DEF InNoUse, Unreferenced
<1>2. QED
  BY PoolInvariant, <1>1, PTL

\* A set whose elements are all equal has at most one.
LEMMA AtMostOneThread ==
    ASSUME NEW S, \A x, y \in S : x = y
    PROVE  Cardinality(S) \in {0, 1} /\ (S = {} => Cardinality(S) = 0)
<1>1. CASE S = {}
  BY <1>1, FS_EmptySet
<1>2. CASE S # {}
  <2>1. PICK x : x \in S
    BY <1>2
  <2>2. S = {x}
    BY <2>1
  <2>3. QED
    BY <1>2, <2>2, FS_Singleton
<1>3. QED
  BY <1>1, <1>2

\* The OVERLAPPED of a sound context is never given to two operations at once.
THEOREM UsersExclude == Spec => []OneOperationOfAContext
<1>1. PoolInv => OneOperationOfAContext
  <2>1. SUFFICES ASSUME PoolInv, NEW c \in Sound
                 PROVE  Cardinality(Owners(c)) + port[c] + queued[c] <= 1
    BY DEF OneOperationOfAContext
  <2>2. \A t, u \in Owners(c) : t = u
    BY <2>1 DEF PoolInv, OwnedOnce, Owners, Owning
  <2>3. Owners(c) # {} => port[c] = 0 /\ queued[c] = 0
    BY <2>1 DEF PoolInv, OwnedOnce, Owners, Owning
  <2>4. Cardinality(Owners(c)) \in {0, 1} /\ (Owners(c) = {} => Cardinality(Owners(c)) = 0)
    BY <2>2, AtMostOneThread
  <2>5. port[c] \in Nat /\ queued[c] \in Nat /\ port[c] + queued[c] <= 1
    BY <2>1, SoundStart DEF PoolInv, TypeOK, OwnedOnce
  <2>6. QED
    BY <2>3, <2>4, <2>5
<1>2. QED
  BY PoolInvariant, <1>1, PTL

\* A context whose count started at 0 and that nothing refers to is in the free list, or a
\* thread is putting it there.
THEOREM NothingLeaks == Spec => []NoContextLeaks
<1>1. PoolInv => NoContextLeaks
  <2>1. SUFFICES ASSUME PoolInv, NEW c \in allocated \cap Zeroed, InNoUse(c)
                 PROVE  (\E n \in DOMAIN freeList : freeList[n] = c) \/ Recycling(c) # {}
    BY DEF NoContextLeaks
  <2>2. DOMAIN freeList = 1 .. Len(freeList)
    BY <2>1, LenProperties DEF PoolInv, TypeOK
  <2>3. Unreferenced(c)
    BY <2>1 DEF InNoUse, Unreferenced, Holders, Holding
  <2>4. \/ \E n \in 1 .. Len(freeList) : freeList[n] = c
        \/ \E t \in Threads : Clearing(t) /\ call[t].ctx = c
    BY <2>1, <2>3 DEF PoolInv, Kept
  <2>5. QED
    BY <2>2, <2>4 DEF Recycling, Clearing
<1>2. QED
  BY PoolInvariant, <1>1, PTL

=============================================================================
