------------------------------ MODULE ContextPool ------------------------------
(***************************************************************************)
(* NetworkContextPO and its pool: who may use the OVERLAPPED and the buffer  *)
(* of a context, and when it goes back to the free list.                     *)
(*                                                                          *)
(* A context is allocated by a request (NetworkManager::Connect, Listen,     *)
(* Join, Close), which queues it for the controller, or by the controller    *)
(* itself for an accept or an encrypt.  Each reference, of a thread, of the  *)
(* queue of the controller or of an operation in the completion port, is     *)
(* counted in m_nReferenceCount, by hand and without a lock.                 *)
(*                                                                          *)
(* The constructor leaves m_nReferenceCount unset (NetworkContextPO.hxx:48):  *)
(* InitialRefs is what each context finds on the heap there, any number.  A   *)
(* count so near the largest long that it would wrap is left out, and so are  *)
(* types, addresses and data of a context and the order of the two queues.    *)
(***************************************************************************)
EXTENDS Integers, Sequences, FiniteSets, Functions

CONSTANTS
    Contexts,    \* the contexts the process may construct
    Reserved,    \* those that NetworkContextPoolPO::Reserve constructs
    NoContext,
    Workers,     \* IOCP threads
    Ctl,         \* the controller thread
    InitialRefs  \* what the unset m_nReferenceCount of each context reads

ASSUME PoolAssumption ==
    /\ NoContext \notin Contexts
    /\ Reserved \subseteq Contexts
    /\ IsFiniteSet(Reserved)
    /\ IsFiniteSet(Workers)
    /\ Ctl \notin Workers
    /\ InitialRefs \in [Contexts -> Int]

Threads == Workers \cup {Ctl}

VARIABLES
    refs,       \* m_nReferenceCount of each context
    freeList,   \* m_oFreeList
    allocated,  \* m_oAllocatedList
    queued,     \* how often each context is in m_oMsgQueue of the controller
    port,       \* how often each context is the OVERLAPPED of an operation
    call        \* what each thread does, with which context

vars == <<refs, freeList, allocated, queued, port, call>>

\* own: the thread may still start an operation on the context; encrypt: it is
\* about to post it; posting: it has counted a reference for an operation and not
\* started it; late: the operation is pending and the thread still writes the context;
\* release, reset, push: the steps of Release.
Idle == [pc |-> "idle", ctx |-> NoContext]
In(pc, c) == [pc |-> pc, ctx |-> c]
Calls == {Idle} \cup
    [pc : {"own", "encrypt", "posting", "late", "release", "reset", "push"}, ctx : Contexts]

Init ==
    /\ refs = InitialRefs
    /\ freeList \in Bijection(1 .. Cardinality(Reserved), Reserved)
    /\ allocated = Reserved
    /\ queued = [c \in Contexts |-> 0]
    /\ port   = [c \in Contexts |-> 0]
    /\ call   = [t \in Threads |-> Idle]

-----------------------------------------------------------------------------
\* NetworkContextPoolPO::Allocate: the front of the free list, or a new context.
Allocate(c) ==
    /\ \/ /\ freeList # <<>>
          /\ c = Head(freeList)
          /\ freeList' = Tail(freeList)
          /\ UNCHANGED allocated
       \/ /\ freeList = <<>>
          /\ c \in Contexts \ allocated
          /\ allocated' = allocated \cup {c}
          /\ UNCHANGED freeList
    /\ refs' = [refs EXCEPT ![c] = @ + 1]

\* NetworkManager::Connect, Listen, Join and Close, by any thread: until it is
\* queued, nobody else can reach the context.
Dispatch(c) ==
    /\ Allocate(c)
    /\ queued' = [queued EXCEPT ![c] = @ + 1]
    /\ UNCHANGED <<port, call>>

\* NetworkControllerPO::ProcessThread takes a context from its queue.
Pop(c) ==
    /\ call[Ctl] = Idle
    /\ queued[c] > 0
    /\ queued' = [queued EXCEPT ![c] = @ - 1]
    /\ call'   = [call EXCEPT ![Ctl] = In("own", c)]
    /\ UNCHANGED <<refs, freeList, allocated, port>>

\* UpdateListener allocates a context to accept with, BeginSendTask one to encrypt in.
AllocateFor(pc, c) ==
    /\ call[Ctl] = Idle
    /\ Allocate(c)
    /\ call' = [call EXCEPT ![Ctl] = In(pc, c)]
    /\ UNCHANGED <<queued, port>>

\* BeginSendTask: PostQueuedCompletionStatus passes the reference on, or fails.
PostQueued ==
    LET c == call[Ctl].ctx IN
    /\ call[Ctl].pc = "encrypt"
    /\ \/ /\ port' = [port EXCEPT ![c] = @ + 1]
          /\ call' = [call EXCEPT ![Ctl] = Idle]
       \/ /\ call' = [call EXCEPT ![Ctl] = In("release", c)]
          /\ UNCHANGED port
    /\ UNCHANGED <<refs, freeList, allocated, queued>>

\* mutant: a wait that returned nothing is taken for a completion
DequeueUntested(w, c) ==
    /\ call[w] = Idle
    /\ port' = [port EXCEPT ![c] = @ - 1]
    /\ call' = [call EXCEPT ![w] = In("own", c)]
    /\ UNCHANGED <<refs, freeList, allocated, queued>>

\* NetworkWorkerPO::ProcessThread takes a completion.
Dequeue(w, c) ==
    /\ call[w] = Idle
    /\ port[c] > 0
    /\ port' = [port EXCEPT ![c] = @ - 1]
    /\ call' = [call EXCEPT ![w] = In("own", c)]
    /\ UNCHANGED <<refs, freeList, allocated, queued>>

\* mutant: the pending operation is not counted
PostsUncounted(t) ==
    /\ call[t].pc = "own"
    /\ call' = [call EXCEPT ![t] = In("posting", @.ctx)]
    /\ UNCHANGED <<refs, freeList, allocated, queued, port>>

\* NetworkHostPO::Connect, Accept, Receive and Send: one reference for the
\* operation, before the system call that starts it.
CountReference(t) ==
    /\ call[t].pc = "own"
    /\ refs' = [refs EXCEPT ![call[t].ctx] = @ + 1]
    /\ call' = [call EXCEPT ![t] = In("posting", @.ctx)]
    /\ UNCHANGED <<freeList, allocated, queued, port>>

\* mutants: a failed operation keeps its reference; one that is pending is taken for
\* failed and tried again
FailureKeepsReference(t) ==
    LET c == call[t].ctx IN
    /\ call[t].pc = "posting"
    /\ \/ port' = [port EXCEPT ![c] = @ + 1]
       \/ UNCHANGED port
    /\ call' = [call EXCEPT ![t] = In("release", c)]
    /\ UNCHANGED <<refs, freeList, allocated, queued>>
SuccessIsTriedAgain(t) ==
    LET c == call[t].ctx IN
    /\ call[t].pc = "posting"
    /\ \/ port' = [port EXCEPT ![c] = @ + 1] /\ call' = [call EXCEPT ![t] = In("own", c)]
          /\ UNCHANGED refs
       \/ refs' = [refs EXCEPT ![c] = @ - 1] /\ call' = [call EXCEPT ![t] = In("release", c)]
          /\ UNCHANGED port
    /\ UNCHANGED <<freeList, allocated, queued>>

\* The system call: the operation is pending, or failed at once.  After an AcceptEx that
\* is pending, the thread goes on in the context it no longer owns.
StartOperation(t) ==
    LET c == call[t].ctx IN
    /\ call[t].pc = "posting"
    /\ \/ /\ port' = [port EXCEPT ![c] = @ + 1]
          /\ \E pc \in {"release", "late"} : call' = [call EXCEPT ![t] = In(pc, c)]
          /\ UNCHANGED refs
       \/ /\ refs' = [refs EXCEPT ![c] = @ - 1]
          /\ call' = [call EXCEPT ![t] = In("release", c)]
          /\ UNCHANGED port
    /\ UNCHANGED <<freeList, allocated, queued>>

\* NetworkHostPO::Accept after AcceptEx: GetEmpty moves the data of the buffer, and
\* GetAcceptExSockaddrs sets the two addresses (Listener says what that does to them).
LateUse(t) ==
    /\ call[t].pc = "late"
    /\ call' = [call EXCEPT ![t] = In("release", @.ctx)]
    /\ UNCHANGED <<refs, freeList, allocated, queued, port>>

\* A handler that starts no operation on the context, or no further one.
FinishHandler(t) ==
    /\ call[t].pc = "own"
    /\ call' = [call EXCEPT ![t] = In("release", @.ctx)]
    /\ UNCHANGED <<refs, freeList, allocated, queued, port>>

\* mutant: the count of the others is not looked at
ReleasesAtOnce(t) ==
    LET c == call[t].ctx IN
    /\ call[t].pc = "release"
    /\ refs' = [refs EXCEPT ![c] = @ - 1]
    /\ call' = [call EXCEPT ![t] = In("reset", c)]
    /\ UNCHANGED <<freeList, allocated, queued, port>>

\* NetworkContextPoolPO::Release, in three steps: the count, Reset, the free list.
Decrease(t) ==
    LET c == call[t].ctx IN
    /\ call[t].pc = "release"
    /\ refs' = [refs EXCEPT ![c] = @ - 1]
    /\ call' = [call EXCEPT ![t] = IF refs[c] - 1 > 0 THEN Idle ELSE In("reset", c)]
    /\ UNCHANGED <<freeList, allocated, queued, port>>

ResetContext(t) ==
    /\ call[t].pc = "reset"
    /\ refs' = [refs EXCEPT ![call[t].ctx] = 0]
    /\ call' = [call EXCEPT ![t] = In("push", @.ctx)]
    /\ UNCHANGED <<freeList, allocated, queued, port>>

PushFree(t) ==
    /\ call[t].pc = "push"
    /\ freeList' = Append(freeList, call[t].ctx)
    /\ call' = [call EXCEPT ![t] = Idle]
    /\ UNCHANGED <<refs, allocated, queued, port>>

-----------------------------------------------------------------------------
Release(t) == Decrease(t) \/ ResetContext(t) \/ PushFree(t)

Next ==
    \/ \E c \in Contexts : Dispatch(c)
    \/ \E c \in Contexts : Pop(c)
    \/ \E c \in Contexts, pc \in {"own", "encrypt"} : AllocateFor(pc, c)
    \/ PostQueued
    \/ \E w \in Workers, c \in Contexts : Dequeue(w, c)
    \/ \E t \in Threads : CountReference(t) \/ StartOperation(t) \/ LateUse(t) \/ FinishHandler(t)
    \/ \E t \in Threads : Release(t)

Spec == Init /\ [][Next]_vars

-----------------------------------------------------------------------------
(* Properties *)

TypeOK ==
    /\ refs \in [Contexts -> Int]
    /\ freeList \in Seq(Contexts)
    /\ allocated \subseteq Contexts
    /\ queued \in [Contexts -> Nat]
    /\ port \in [Contexts -> Nat]
    /\ call \in [Threads -> Calls]

\* Sound: the count starts at 0 or above, so that it is never below what refers to the
\* context.  Zeroed: it starts at 0.
Sound  == {c \in Contexts : InitialRefs[c] >= 0}
Zeroed == {c \in Contexts : InitialRefs[c] = 0}

\* Threads that hold a reference of their own; threads that hold one more, for an
\* operation; threads that recycle the context.
Holders(c)  == {t \in Threads : call[t].ctx = c
                                /\ call[t].pc \in {"own", "encrypt", "posting", "late", "release"}}
Posting(c)  == {t \in Threads : call[t].ctx = c /\ call[t].pc = "posting"}
Recycling(c) == {t \in Threads : call[t].ctx = c /\ call[t].pc \in {"reset", "push"}}

\* Nothing refers to the context.
InNoUse(c) == queued[c] = 0 /\ port[c] = 0 /\ Holders(c) = {}

\* The reference count is what it started with and the number of references, however the
\* threads that add and drop them interleave, and whatever becomes of the other contexts.
RefsAreExact ==
    \A c \in allocated \cap Sound :
        refs[c] = InitialRefs[c] + Cardinality(Holders(c)) + Cardinality(Posting(c))
                  + port[c] + queued[c]

\* A context in the free list is in nobody's use: no system call writes into it, no
\* thread reads it, it is there once.  A count that started below 0 breaks this, for its
\* own context and no other.
FreeContextsAreIdle ==
    \A n \in DOMAIN freeList : freeList[n] \in Sound =>
        /\ InNoUse(freeList[n])
        /\ Recycling(freeList[n]) = {}
        /\ \A k \in DOMAIN freeList : freeList[k] = freeList[n] => k = n

\* At most one operation is started, queued or pending on a context: no OVERLAPPED is in
\* two operations.  The thread that posted an accept may still be writing the buffer then,
\* beside the one that owns the context: what it holds is a reference, not the buffer.
Owners(c) == {t \in Threads : call[t].ctx = c /\ call[t].pc \in {"own", "encrypt", "posting"}}
OneOperationOfAContext ==
    \A c \in Sound : Cardinality(Owners(c)) + port[c] + queued[c] <= 1

\* No context whose count started at 0 leaks: one that nothing refers to is in the free
\* list, or on its way.  A count that started above 0 never comes down to 0.
NoContextLeaks ==
    \A c \in allocated \cap Zeroed :
        InNoUse(c) => (\E n \in DOMAIN freeList : freeList[n] = c) \/ Recycling(c) # {}

-----------------------------------------------------------------------------
(* The inductive invariant behind these properties *)

Holding(t)  == call[t].pc \in {"own", "encrypt", "posting", "late", "release"}
Owning(t)   == call[t].pc \in {"own", "encrypt", "posting"}
Clearing(t) == call[t].pc \in {"reset", "push"}

Counted ==
    \A c \in Sound :
        refs[c] = InitialRefs[c] + Cardinality(Holders(c)) + Cardinality(Posting(c))
                  + port[c] + queued[c]

OwnedOnce ==
    /\ \A c \in Sound : port[c] + queued[c] <= 1
    /\ \A t \in Threads : Owning(t) /\ call[t].ctx \in Sound =>
          port[call[t].ctx] = 0 /\ queued[call[t].ctx] = 0
    /\ \A t, u \in Threads :
          Owning(t) /\ Owning(u) /\ call[t].ctx \in Sound /\ call[t].ctx = call[u].ctx => t = u

Unreferenced(c) ==
    /\ port[c] = 0 /\ queued[c] = 0
    /\ \A t \in Threads : call[t].ctx = c => ~Holding(t)

RecycledAlone ==
    /\ \A c \in Sound \ allocated : Unreferenced(c) /\ \A t \in Threads : call[t].ctx # c
    /\ \A n \in 1 .. Len(freeList) : freeList[n] \in Sound =>
          /\ Unreferenced(freeList[n])
          /\ \A t \in Threads : call[t].ctx # freeList[n]
          /\ freeList[n] \in allocated
    /\ \A n, k \in 1 .. Len(freeList) :
          freeList[n] \in Sound /\ freeList[n] = freeList[k] => n = k
    /\ \A t \in Threads : Clearing(t) /\ call[t].ctx \in Sound =>
          InitialRefs[call[t].ctx] = 0 /\ Unreferenced(call[t].ctx)
    /\ \A t, u \in Threads :
          Clearing(t) /\ call[t].ctx \in Sound /\ call[u].ctx = call[t].ctx => t = u

Kept ==
    \A c \in allocated \cap Zeroed :
        \/ ~Unreferenced(c)
        \/ \E n \in 1 .. Len(freeList) : freeList[n] = c
        \/ \E t \in Threads : Clearing(t) /\ call[t].ctx = c

PoolInv == TypeOK /\ Counted /\ OwnedOnce /\ RecycledAlone /\ Kept

=============================================================================
