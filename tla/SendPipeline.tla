----------------------------- MODULE SendPipeline -----------------------------
(***************************************************************************)
(* How packets leave a connected NetworkHostPO: services append them to      *)
(* m_oSendWaitingList, the controller starts a send task when a list is not  *)
(* empty, a worker moves the waiting packets to m_oSendWorkQueue and writes  *)
(* as many as the buffer holds into a context, another completes the send.   *)
(*                                                                          *)
(* m_xSendLock covers m_oSendWaitingList only; the work queue is guarded by  *)
(* m_lSendTaskCount, which BeginSendTask tests and takes after it looked at  *)
(* the lists.  A step is what one thread does between two accesses to what   *)
(* the others write.                                                        *)
(*                                                                          *)
(* One incarnation of the host, from EventConnect until its socket is closed. *)
(* A packet is its size; compression and the contents are left out.          *)
(***************************************************************************)
EXTENDS Naturals, Sequences, FiniteSets, FiniteSetsExt, Functions

CONSTANTS
    Packets,     \* bound: what the services send, each once
    Size,        \* GetPacketSize of each packet
    BufferSize,  \* NETWORK_BUFFER_SIZE_SERVER
    Limit,       \* ManualKickSendQueueCount
    IsAcceptor,  \* m_eHostType is Acceptor, or Connector
    Services,    \* threads that call NetworkManager::Send
    Workers,     \* IOCP threads
    Ctl          \* the controller thread

ASSUME PipelineAssumption ==
    /\ BufferSize \in Nat \ {0}
    /\ Size \in [Packets -> 1 .. BufferSize]
    /\ Limit \in Nat
    /\ IsAcceptor \in BOOLEAN
    /\ IsFiniteSet(Workers)
    /\ Ctl \notin Workers
    /\ Ctl \notin Services
    /\ Workers \cap Services = {}

Threads == Services \cup Workers \cup {Ctl}

VARIABLES
    open,      \* m_oSocket is not INVALID_SOCKET
    waiting,   \* m_oSendWaitingList
    work,      \* m_oSendWorkQueue
    sendTask,  \* m_lSendTaskCount
    encrypts,  \* Encrypt contexts in the completion port
    sends,     \* Send contexts in it
    pc,        \* what each thread is about to do
    batch,     \* the packets in the context of each worker
    wire,      \* what WSASend took, in order
    sent       \* packets the services have sent

vars == <<open, waiting, work, sendTask, encrypts, sends, pc, batch, wire, sent>>

Init ==
    /\ open = TRUE
    /\ waiting = <<>>
    /\ work = <<>>
    /\ sendTask = 0
    /\ encrypts = 0
    /\ sends = 0
    /\ pc = [t \in Threads |-> "idle"]
    /\ batch = [w \in Workers |-> <<>>]
    /\ wire = <<>>
    /\ sent = {}

Goto(t, label) == pc' = [pc EXCEPT ![t] = label]

-----------------------------------------------------------------------------
(* Services: NetworkHostPO::Waiting, then Close if an acceptor has too much   *)

Waiting(s, p) ==
    /\ pc[s] = "idle"
    /\ p \notin sent
    /\ sent' = sent \cup {p}
    /\ waiting' = Append(waiting, p)
    /\ Goto(s, IF IsAcceptor /\ Len(waiting') > Limit THEN "close" ELSE "idle")
    /\ UNCHANGED <<open, work, sendTask, encrypts, sends, batch, wire>>

\* NetworkHostPO::Close, the last step of a failure of any thread.
CloseHost(t) ==
    /\ pc[t] = "close"
    /\ open' = FALSE
    /\ Goto(t, "idle")
    /\ UNCHANGED <<waiting, work, sendTask, encrypts, sends, batch, wire, sent>>

\* The socket is closed for another reason: a lost peer, a request to close.
Disconnect ==
    /\ open
    /\ open' = FALSE
    /\ UNCHANGED <<waiting, work, sendTask, encrypts, sends, pc, batch, wire, sent>>

-----------------------------------------------------------------------------
(* The controller: NetworkHostPO::Update and BeginSendTask *)

TestWork ==
    /\ pc[Ctl] = "idle"
    /\ open
    /\ Goto(Ctl, IF work = <<>> THEN "list" ELSE "claim")
    /\ UNCHANGED <<open, waiting, work, sendTask, encrypts, sends, batch, wire, sent>>

TestWaiting ==
    /\ pc[Ctl] = "list"
    /\ Goto(Ctl, IF waiting = <<>> THEN "idle" ELSE "claim")
    /\ UNCHANGED <<open, waiting, work, sendTask, encrypts, sends, batch, wire, sent>>

\* mutants: m_lSendTaskCount is counted up, or set, without a test
ClaimIncrements ==
    /\ pc[Ctl] = "claim"
    /\ sendTask' = sendTask + 1
    /\ encrypts' = encrypts + 1
    /\ Goto(Ctl, "idle")
    /\ UNCHANGED <<open, waiting, work, sends, batch, wire, sent>>
ClaimsUntested ==
    /\ pc[Ctl] = "claim"
    /\ sendTask' = 1
    /\ encrypts' = encrypts + 1
    /\ Goto(Ctl, "idle")
    /\ UNCHANGED <<open, waiting, work, sends, batch, wire, sent>>

\* InterlockedCompareExchange, then PostQueuedCompletionStatus, which may fail.
Claim ==
    /\ pc[Ctl] = "claim"
    /\ \/ /\ sendTask # 0
          /\ Goto(Ctl, "idle")
          /\ UNCHANGED <<sendTask, encrypts>>
       \/ /\ sendTask = 0
          /\ sendTask' = 1
          /\ encrypts' = encrypts + 1
          /\ Goto(Ctl, "idle")
       \/ /\ sendTask = 0
          /\ Goto(Ctl, "close")
          /\ UNCHANGED <<sendTask, encrypts>>
    /\ UNCHANGED <<open, waiting, work, sends, batch, wire, sent>>

-----------------------------------------------------------------------------
(* Workers: Encrypt, Send, and the completion of the send *)

\* Encrypt: the lists are swapped under m_xSendLock.
SwapLists(w) ==
    /\ pc[w] = "idle"
    /\ encrypts > 0
    /\ encrypts' = encrypts - 1
    /\ waiting' = work
    /\ work' = waiting
    /\ Goto(w, "encrypt")
    /\ UNCHANGED <<open, sendTask, sends, batch, wire, sent>>

\* How many packets from the front of the queue fit into the buffer.
Total(queue, n) == MapThenSumSet(LAMBDA k : Size[queue[k]], 1 .. n)
Fitting(queue) == Cardinality({n \in 1 .. Len(queue) : Total(queue, n) <= BufferSize})

\* mutant: what does not fit is put behind what came in the meantime
WriteAndRequeueLast(w) ==
    LET n == Fitting(work) IN
    /\ pc[w] = "encrypt"
    /\ batch'   = [batch EXCEPT ![w] = SubSeq(work, 1, n)]
    /\ waiting' = waiting \o SubSeq(work, n + 1, Len(work))
    /\ work' = <<>>
    /\ Goto(w, "send")
    /\ UNCHANGED <<open, sendTask, encrypts, sends, wire, sent>>

\* Encrypt: the loop over the work queue, which no other thread changes; what does
\* not fit goes back to the front of the waiting list.
WriteBatch(w) ==
    LET n == Fitting(work) IN
    /\ pc[w] = "encrypt"
    /\ batch'   = [batch EXCEPT ![w] = SubSeq(work, 1, n)]
    /\ waiting' = SubSeq(work, n + 1, Len(work)) \o waiting
    /\ work' = <<>>
    /\ Goto(w, "send")
    /\ UNCHANGED <<open, sendTask, encrypts, sends, wire, sent>>

\* Send: WSASend takes the batch, or refuses it; an empty one is an error.
\* EndSendTask(false) clears m_lSendTaskCount before it closes the socket.
Send(w) ==
    /\ pc[w] = "send"
    /\ batch' = [batch EXCEPT ![w] = <<>>]
    /\ \/ /\ open
          /\ batch[w] # <<>>
          /\ wire' = wire \o batch[w]
          /\ sends' = sends + 1
          /\ Goto(w, "idle")
          /\ UNCHANGED sendTask
       \/ /\ sendTask' = 0
          /\ Goto(w, "close")
          /\ UNCHANGED <<sends, wire>>
    /\ UNCHANGED <<open, waiting, work, encrypts, sent>>

\* mutant: EndSendTask closes and does not clear m_lSendTaskCount after a success
CompleteKeepsTask(w) ==
    /\ pc[w] = "idle"
    /\ sends > 0
    /\ sends' = sends - 1
    /\ \/ UNCHANGED <<pc, sendTask>>
       \/ Goto(w, "close") /\ sendTask' = 0
    /\ UNCHANGED <<open, waiting, work, encrypts, batch, wire, sent>>

\* NetworkWorkerPO::ProcessSend
ProcessSend(w) ==
    /\ pc[w] = "idle"
    /\ sends > 0
    /\ sends' = sends - 1
    /\ sendTask' = 0
    /\ \/ UNCHANGED pc
       \/ Goto(w, "close")
    /\ UNCHANGED <<open, waiting, work, encrypts, batch, wire, sent>>

-----------------------------------------------------------------------------
Worker(w) == SwapLists(w) \/ WriteBatch(w) \/ Send(w) \/ ProcessSend(w)
Controller == TestWork \/ TestWaiting \/ Claim

Next ==
    \/ \E s \in Services, p \in Packets : Waiting(s, p)
    \/ Disconnect
    \/ \E t \in Threads : CloseHost(t)
    \/ Controller
    \/ \E w \in Workers : Worker(w)

Spec == Init /\ [][Next]_vars

\* Threads run, a send completes or fails, and completions are queued.
Fairness ==
    /\ WF_vars(Controller)
    /\ WF_vars(\E w \in Workers : Worker(w))
    /\ \A t \in Threads : WF_vars(CloseHost(t))

FairSpec == Spec /\ Fairness

-----------------------------------------------------------------------------
(* Properties *)

TypeOK ==
    /\ open \in BOOLEAN
    /\ waiting \in Seq(Packets)
    /\ work \in Seq(Packets)
    /\ sendTask \in 0 .. 1
    /\ encrypts \in Nat
    /\ sends \in Nat
    /\ pc \in [Threads -> {"idle", "close", "list", "claim", "encrypt", "send"}]
    /\ \A s \in Services : pc[s] \in {"idle", "close"}
    /\ \A w \in Workers : pc[w] \in {"idle", "close", "encrypt", "send"}
    /\ pc[Ctl] \in {"idle", "close", "list", "claim"}
    /\ batch \in [Workers -> Seq(Packets)]
    /\ wire \in Seq(Packets)
    /\ sent \subseteq Packets

\* Packets are in the work queue and in a context only while a worker holds them.
HeldByOwner ==
    /\ work # <<>> => \E w \in Workers : pc[w] = "encrypt"
    /\ \A w \in Workers : batch[w] # <<>> => pc[w] = "send"

\* m_lSendTaskCount is a lock: it is held by exactly one of the contexts in the port
\* and the workers that encrypt or send, and nobody else touches the packets in
\* the work queue or in a context.
SendTaskIsALock ==
    /\ encrypts + sends + Cardinality({w \in Workers : pc[w] \in {"encrypt", "send"}}) = sendTask
    /\ HeldByOwner

\* The pipeline is a channel: the packets it holds are, in order, those in the
\* context of the sending worker, in the work queue and in the waiting list.
Held == IF \E w \in Workers : batch[w] # <<>>
        THEN batch[CHOOSE w \in Workers : batch[w] # <<>>]
        ELSE <<>>
Pending == Held \o work \o waiting
Broken == ~open \/ \E t \in Threads : pc[t] = "close"
Channel == INSTANCE PacketChannel WITH pending <- Pending, broken <- Broken
ImplementsChannel == Channel!Spec

\* A packet a service has sent is in one place only, once: on the wire or in one of the
\* three lists on its way there, although swaps, cuts and insertions at the front move
\* it between them while services append.  It may be missing only when the connection
\* is closed or some thread is about to close it.
PacketsAreKept ==
    LET all == wire \o Pending IN
    /\ IsInjective(all)
    /\ Range(all) \subseteq sent
    /\ Broken \/ Range(all) = sent

\* A packet that was sent leaves, or the connection is closed.
EventuallySent == \A p \in Packets : p \in sent ~> p \in Range(wire) \/ ~open

-----------------------------------------------------------------------------
(* The inductive invariant behind SendTaskIsALock and the refinement *)

Busy(w) == pc[w] \in {"encrypt", "send"}

OneTask ==
    /\ encrypts + sends <= 1
    /\ encrypts + sends = 1 => sendTask = 1 /\ \A w \in Workers : ~Busy(w)
    /\ \A w \in Workers : Busy(w) => sendTask = 1
    /\ \A v, w \in Workers : Busy(v) /\ Busy(w) => v = w
    /\ sendTask = 1 => encrypts + sends = 1 \/ \E w \in Workers : Busy(w)

PipelineInv == TypeOK /\ OneTask /\ HeldByOwner

-----------------------------------------------------------------------------
(* What the comments of the code say and the code does not do *)

\* NetworkHostPO.hxx: Send transmits the data stored in the context.  A send task
\* is started when packets wait, so on a connection nobody is closing it has some.
SendHasData ==
    open /\ (\A t \in Threads : pc[t] # "close") =>
        \A w \in Workers : pc[w] = "send" => batch[w] # <<>>

=============================================================================
