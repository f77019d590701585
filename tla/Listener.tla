------------------------------- MODULE Listener -------------------------------
(***************************************************************************)
(* The accept loop of a listening host: ProcessListen and UpdateListener on the *)
(* controller thread, ProcessAccept on the workers, both of which post AcceptEx *)
(* with NetworkHostPO::Accept.  What becomes of a joined socket is the Join of  *)
(* HostLifecycle.  The application never learns the ID of the listener, so no   *)
(* service closes it.                                                          *)
(*                                                                          *)
(* The thread that has posted an accept goes on in its context, beside the worker *)
(* that has taken the completion: GetEmpty calls Align, whose reads and writes of *)
(* the two sizes are not locked.  Only what that does to the socket in the buffer  *)
(* is kept of it.  A context is free when no thread and no accept holds it, which  *)
(* is what ContextPool shows of a count that starts at 0.                      *)
(***************************************************************************)
EXTENDS Integers, Sequences, FiniteSets

CONSTANTS
    Workers,      \* threads of NetworkWorkerPO
    Ctl,          \* thread of NetworkControllerPO
    Contexts,     \* NetworkContextPO
    Sockets,      \* sockets made for clients
    NoContext, NoSocket,
    AcceptWait,   \* ACCEPT_WAIT_COUNT
    MaxClients,   \* bound: clients that connect
    MaxRefusals   \* bound: accepts that the system refuses or breaks off

ASSUME ListenerAssumption ==
    /\ Ctl \notin Workers
    /\ NoContext \notin Contexts
    /\ NoSocket \notin Sockets
    /\ IsFiniteSet(Workers) /\ IsFiniteSet(Contexts)
    /\ AcceptWait \in Nat \ {0}
    /\ MaxClients \in Nat /\ MaxRefusals \in Nat

VARIABLES
    listener,   \* the host: not yet, listening, socket closed, released
    told,       \* what its NetworkEventSync was told
    baseTask,   \* its m_lBaseTaskCount
    left,       \* contexts UpdateListener has still to make
    thread,     \* what each thread does, with which context and socket
    accepts,    \* AcceptEx calls in the system or in the completion port
    socket,     \* each client socket
    buffer,     \* what each context holds: nothing, a socket, a socket already read, or
                \* sizes that a late thread has cleared, over a socket
    address,    \* what m_pRemoteAddr of each context points to
    peer,       \* address that Join was given for each socket
    clients, refusals

ioVars == <<accepts, socket, clients, refusals>>
ctxVars == <<buffer, address>>
vars == <<listener, told, baseTask, left, thread, ioVars, ctxVars, peer>>

Threads == {Ctl} \cup Workers
Doing(pc, c, s, ok) == [pc |-> pc, ctx |-> c, sock |-> s, ok |-> ok]
Idle == Doing("idle", NoContext, NoSocket, FALSE)
ThreadStates == [pc : {"idle", "accept", "parse", "align", "join"}, ctx : Contexts \cup {NoContext},
                 sock : Sockets \cup {NoSocket}, ok : BOOLEAN]

\* An accept: waiting, completed with a client, completed with an error
Accepts == [ctx : Contexts, sock : Sockets, state : {"waiting", "client", "error"}]
Addresses == {"none", "client", "garbage"}

Init ==
    /\ listener = "none"
    /\ told = <<>>
    /\ baseTask = 0
    /\ left = 0
    /\ thread = [t \in Threads |-> Idle]
    /\ accepts = {}
    /\ socket = [s \in Sockets |-> "none"]
    /\ buffer = [c \in Contexts |-> "empty"]
    /\ address = [c \in Contexts |-> "none"]
    /\ peer = [s \in Sockets |-> "none"]
    /\ clients = 0 /\ refusals = 0

Holds(t, c) == thread[t].ctx = c
InSystem(c) == \E a \in accepts : a.ctx = c
\* mutant: only the threads count, not the accepts in the system
IsFreeOfThreads(c) == \A t \in Threads : ~ Holds(t, c)

IsFree(c) == ~ InSystem(c) /\ \A t \in Threads : ~ Holds(t, c)

\* ReleaseContext at the end of what t does: the last one to let go resets the context.
ReleaseContext(t, c, b, adr) ==
    /\ thread' = [thread EXCEPT ![t] = Idle]
    /\ LET last == /\ \A u \in Threads \ {t} : ~ Holds(u, c)
                   /\ \A a \in accepts' : a.ctx # c
       IN /\ buffer' = [buffer EXCEPT ![c] = IF last THEN "empty" ELSE b]
          /\ address' = [address EXCEPT ![c] = IF last THEN "none" ELSE adr]

-----------------------------------------------------------------------------
(* The controller *)

\* NetworkControllerPO::ProcessListen with _AddHost and NetworkHostPO::Listen
ProcessListen ==
    /\ listener = "none"
    /\ \/ listener' = "closed" /\ UNCHANGED told        \* no socket, or no completion port
       \/ listener' = "closed" /\ told' = Append(told, "OnListenFailed")
       \/ listener' = "listening" /\ told' = Append(told, "OnListen")
    /\ UNCHANGED <<baseTask, left, thread, ioVars, ctxVars, peer>>

\* mutant: the host is recycled without EventClose
RemoveSilently ==
    /\ listener = "closed"
    /\ baseTask = 0
    /\ listener' = "gone"
    /\ UNCHANGED <<told, baseTask, left, thread, ioVars, ctxVars, peer>>

\* NetworkControllerPO::_UpdateHost of a host that is not alive
RemoveListener ==
    /\ listener = "closed"
    /\ baseTask = 0
    /\ listener' = "gone"
    /\ told' = Append(told, "OnClose")
    /\ UNCHANGED <<baseTask, left, thread, ioVars, ctxVars, peer>>

\* mutant: fills up on top of what there is
UpdateListenerAnew ==
    /\ listener = "listening"
    /\ thread[Ctl].pc = "idle" /\ left = 0
    /\ baseTask < AcceptWait
    /\ left' = AcceptWait
    /\ UNCHANGED <<listener, told, baseTask, thread, ioVars, ctxVars, peer>>

\* NetworkHostPO::UpdateListener: how many accepts are missing ...
UpdateListener ==
    /\ listener = "listening"
    /\ thread[Ctl].pc = "idle" /\ left = 0
    /\ baseTask < AcceptWait
    /\ left' = AcceptWait - baseTask
    /\ UNCHANGED <<listener, told, baseTask, thread, ioVars, ctxVars, peer>>

\* mutant: no BeginBaseTask
NewAcceptUncounted ==
    /\ thread[Ctl].pc = "idle" /\ left > 0
    /\ left' = left - 1
    /\ \E c \in Contexts :
        /\ IsFree(c)
        /\ thread' = [thread EXCEPT ![Ctl] = Doing("accept", c, NoSocket, FALSE)]
    /\ UNCHANGED <<listener, told, baseTask, ioVars, ctxVars, peer>>

\* ... and a context and a task for each
NewAccept ==
    /\ thread[Ctl].pc = "idle" /\ left > 0
    /\ left' = left - 1
    /\ baseTask' = baseTask + 1
    /\ \E c \in Contexts :
        /\ IsFree(c)
        /\ thread' = [thread EXCEPT ![Ctl] = Doing("accept", c, NoSocket, FALSE)]
    /\ UNCHANGED <<listener, told, ioVars, ctxVars, peer>>

-----------------------------------------------------------------------------
(* NetworkHostPO::Accept *)

\* mutant: a worker whose accept fails does not end the task
RefuseAcceptForgets(t) ==
    LET c == thread[t].ctx IN
    /\ thread[t].pc = "accept"
    /\ refusals < MaxRefusals
    /\ refusals' = refusals + 1
    /\ baseTask' = IF t = Ctl THEN baseTask - 1 ELSE baseTask
    /\ UNCHANGED accepts
    /\ ReleaseContext(t, c, "empty", address[c])
    /\ UNCHANGED <<listener, told, left, socket, clients, peer>>

\* No socket, or AcceptEx fails and the socket is closed: EndBaseTask(true).
RefuseAccept(t) ==
    LET c == thread[t].ctx IN
    /\ thread[t].pc = "accept"
    /\ refusals < MaxRefusals
    /\ refusals' = refusals + 1
    /\ baseTask' = baseTask - 1
    /\ UNCHANGED accepts
    /\ ReleaseContext(t, c, "empty", address[c])
    /\ UNCHANGED <<listener, told, left, socket, clients, peer>>

\* WSASocket; which of the unused sockets it is makes no difference.
NewSocket == CHOOSE s \in Sockets : socket[s] = "none"

PostAccept(t, state) ==
    /\ thread[t].pc = "accept"
    /\ \E s \in Sockets : socket[s] = "none"
    /\ socket' = [socket EXCEPT ![NewSocket] = "created"]
    /\ accepts' = accepts \cup {[ctx |-> thread[t].ctx, sock |-> NewSocket, state |-> state]}
    /\ UNCHANGED <<listener, told, baseTask, left, refusals, peer>>

\* AcceptEx is pending: the addresses are looked for next, but a worker may have taken the
\* completion by then, and be anywhere in ProcessAccept or in its next Accept.
AcceptLater(t) ==
    /\ PostAccept(t, "waiting")
    /\ buffer' = [buffer EXCEPT ![thread[t].ctx] = "socket"]
    /\ thread' = [thread EXCEPT ![t] = Doing("parse", thread[t].ctx, NoSocket, FALSE)]
    /\ UNCHANGED <<address, clients>>

\* A client is there already: AcceptEx returns TRUE and posts the completion as well.
AcceptAtOnce(t) ==
    /\ clients < MaxClients
    /\ clients' = clients + 1
    /\ PostAccept(t, "client")
    /\ ReleaseContext(t, thread[t].ctx, "socket", address[thread[t].ctx])

\* Align finds m_nReadSize set: a worker has read the socket and not yet reset the buffer.
BeginAlign(t) ==
    /\ thread[t].pc = "parse"
    /\ buffer[thread[t].ctx] = "read"
    /\ thread' = [thread EXCEPT ![t].pc = "align"]
    /\ UNCHANGED <<listener, told, baseTask, left, ioVars, ctxVars, peer>>

\* What Align still writes, m_nWriteSize, m_nReadSize or the bytes it moves, hits the next
\* accept: its socket cannot be read any more.  Written before, it does no harm.
ClearNextAccept(t) ==
    LET c == thread[t].ctx IN
    /\ thread[t].pc = "align"
    /\ buffer[c] = "socket"
    /\ buffer' = [buffer EXCEPT ![c] = "cleared"]
    /\ UNCHANGED <<listener, told, baseTask, left, thread, ioVars, address, peer>>

\* GetAcceptExSockaddrs sets m_pRemoteAddr, behind what the buffer holds now.
ParseAddress(t) ==
    LET c == thread[t].ctx IN
    /\ \/ thread[t].pc = "align"
       \/ thread[t].pc = "parse" /\ buffer[c] # "read"
    /\ UNCHANGED accepts
    /\ ReleaseContext(t, c, IF buffer[c] = "read" THEN "empty" ELSE buffer[c],
                            IF buffer[c] = "socket" THEN "client" ELSE "garbage")
    /\ UNCHANGED <<listener, told, baseTask, left, socket, clients, refusals, peer>>

-----------------------------------------------------------------------------
(* The system *)

Complete(a, state) ==
    /\ a \in accepts
    /\ a.state = "waiting"
    /\ accepts' = (accepts \ {a}) \cup {[a EXCEPT !.state = state]}
    /\ UNCHANGED <<listener, told, baseTask, left, thread, socket, ctxVars, peer>>

ClientConnects(a) ==
    /\ clients < MaxClients
    /\ clients' = clients + 1
    /\ Complete(a, "client")
    /\ UNCHANGED refusals

AcceptBreaks(a) ==
    /\ refusals < MaxRefusals
    /\ refusals' = refusals + 1
    /\ Complete(a, "error")
    /\ UNCHANGED clients

-----------------------------------------------------------------------------
(* NetworkWorkerPO::ProcessAccept *)

\* mutant: the result is taken the wrong way round
ReadSocketSwapped(w, a) ==
    LET held == buffer[a.ctx] = "socket" IN
    /\ thread[w] = Idle
    /\ a \in accepts
    /\ a.state # "waiting"
    /\ accepts' = accepts \ {a}
    /\ thread' = [thread EXCEPT ![w] =
            Doing("join", a.ctx, IF held THEN a.sock ELSE NoSocket, a.state = "error")]
    /\ buffer' = IF held THEN [buffer EXCEPT ![a.ctx] = "read"] ELSE buffer
    /\ socket' = IF held THEN socket ELSE [socket EXCEPT ![a.sock] = "lost"]
    /\ UNCHANGED <<listener, told, baseTask, left, address, peer, clients, refusals>>

\* The socket is read from the context.  If its sizes were cleared, Read fails, lSocket
\* stays INVALID_SOCKET and nothing names the socket of the client any more.
ReadSocket(w, a) ==
    LET held == buffer[a.ctx] = "socket" IN
    /\ thread[w] = Idle
    /\ a \in accepts
    /\ a.state # "waiting"
    /\ accepts' = accepts \ {a}
    /\ thread' = [thread EXCEPT ![w] =
            Doing("join", a.ctx, IF held THEN a.sock ELSE NoSocket, a.state = "client")]
    /\ buffer' = IF held THEN [buffer EXCEPT ![a.ctx] = "read"] ELSE buffer
    /\ socket' = IF held THEN socket ELSE [socket EXCEPT ![a.sock] = "lost"]
    /\ UNCHANGED <<listener, told, baseTask, left, address, peer, clients, refusals>>

\* What a worker does with a socket: none, if it is INVALID_SOCKET.
SetSocket(s, state) ==
    socket' = IF s = NoSocket THEN socket ELSE [socket EXCEPT ![s] = state]

\* The end of ProcessAccept: ResetBuffer, and the context is posted again.
PostAgain(w) ==
    /\ thread' = [thread EXCEPT ![w] = Doing("accept", thread[w].ctx, NoSocket, FALSE)]
    /\ buffer' = [buffer EXCEPT ![thread[w].ctx] = "empty"]
    /\ UNCHANGED <<listener, told, baseTask, left, accepts, address, clients, refusals>>

\* The address is taken and the client joined.  Joined with INVALID_SOCKET, a host gets a
\* new socket in _AddHost that no client is connected to.
JoinClient(w) ==
    LET s == thread[w].sock IN
    /\ thread[w].pc = "join"
    /\ thread[w].ok
    /\ SetSocket(s, "joined")
    /\ peer' = IF s = NoSocket THEN peer ELSE [peer EXCEPT ![s] = address[thread[w].ctx]]
    /\ PostAgain(w)

\* mutant: the socket of a failed accept stays open
DropSocketOpen(w) ==
    /\ thread[w].pc = "join"
    /\ ~ thread[w].ok
    /\ PostAgain(w)
    /\ UNCHANGED <<socket, peer>>

\* The accept failed: its socket is closed.
DropSocket(w) ==
    /\ thread[w].pc = "join"
    /\ ~ thread[w].ok
    /\ SetSocket(thread[w].sock, "none")
    /\ PostAgain(w)
    /\ UNCHANGED peer

-----------------------------------------------------------------------------
LateUse(t) == BeginAlign(t) \/ ClearNextAccept(t) \/ ParseAddress(t)
Accept(t) == RefuseAccept(t) \/ AcceptLater(t) \/ AcceptAtOnce(t) \/ LateUse(t)
CtlStep == ProcessListen \/ RemoveListener \/ UpdateListener \/ NewAccept \/ Accept(Ctl)
WorkerStep(w) ==
    \/ Accept(w) \/ JoinClient(w) \/ DropSocket(w)
    \/ \E a \in accepts : ReadSocket(w, a)
SystemStep == \E a \in accepts : ClientConnects(a) \/ AcceptBreaks(a)

Next == CtlStep \/ (\E w \in Workers : WorkerStep(w)) \/ SystemStep

Spec == Init /\ [][Next]_vars

\* The threads run; no client need ever come.
FairSpec == Spec /\ WF_vars(CtlStep) /\ \A w \in Workers : WF_vars(WorkerStep(w))

-----------------------------------------------------------------------------
(* Properties *)

\* Type invariant: every variable stays within its type.
TypeOK ==
    /\ listener \in {"none", "listening", "closed", "gone"}
    /\ told \in Seq({"OnListen", "OnListenFailed", "OnClose"})
    /\ baseTask \in Nat
    /\ left \in 0 .. AcceptWait
    /\ thread \in [Threads -> ThreadStates]
    /\ accepts \subseteq Accepts
    /\ socket \in [Sockets -> {"none", "created", "joined", "lost"}]
    /\ buffer \in [Contexts -> {"empty", "socket", "read", "cleared"}]
    /\ address \in [Contexts -> Addresses]
    /\ peer \in [Sockets -> Addresses]
    /\ clients \in 0 .. MaxClients /\ refusals \in 0 .. MaxRefusals

\* Threads that hold a task of the listener
Handling == {t \in Threads : thread[t].pc \in {"accept", "join"}}

\* m_lBaseTaskCount is the number of accepts that are on their way, in the system, in the
\* completion port or in a worker, and the listener never has more than it may, although
\* the controller counts what is missing before workers give up some.
\* (NetworkHostPO::UpdateListener, NetworkWorkerPO::ProcessAccept)
AcceptsAreCounted ==
    /\ baseTask = Cardinality(accepts) + Cardinality(Handling)
    /\ baseTask + left <= AcceptWait

\* A context is in one accept at a time, even while other threads that have posted it before
\* are still writing in it.  (the worker posts the context it was given again)
OneAcceptOfAContext ==
    /\ \A a, b \in accepts : a.ctx = b.ctx => a = b
    /\ \A t, u \in Handling : thread[t].ctx = thread[u].ctx => t = u
    /\ \A a \in accepts, t \in Handling : thread[t].ctx # a.ctx

\* No socket is dropped on the way, or given to two: one that is made for a client is in one
\* accept, or with the one worker that will join or close it, until a worker finds the
\* buffer of its accept cleared.  (NetworkHostPO::Accept, ProcessAccept)
SocketsAreOwned ==
    /\ \A s \in Sockets : socket[s] = "created" <=>
          \/ \E a \in accepts : a.sock = s
          \/ \E t \in Threads : thread[t].sock = s
    /\ \A a, b \in accepts : a.sock = b.sock => a = b
    /\ \A t, u \in Threads : thread[t].sock = thread[u].sock /\ thread[t].sock # NoSocket => t = u
    /\ \A a \in accepts, t \in Threads : thread[t].sock # a.sock

\* A listener whose accepts fail recovers: as long as it listens, it has all its accepts in
\* the system again and again.  (ProcessAccept keeps the listener, UpdateListener refills it)
KeepsAccepting == [](listener = "listening" => <>(Cardinality(accepts) = AcceptWait))

\* A client whose accept completes is joined, unless a late Align has cleared the buffer.
\* (ProcessAccept)
ClientIsJoinedUnlessLost ==
    \A s \in Sockets :
        (\E a \in accepts : a.sock = s /\ a.state = "client") ~> socket[s] \in {"joined", "lost"}

\* What NetworkHostPO.hxx:163 says of Accept and NetworkWorkerPO.hxx:78-85 of ProcessAccept:
\* a client whose accept completes is joined.  The code breaks it.
ClientIsJoined ==
    \A s \in Sockets :
        (\E a \in accepts : a.sock = s /\ a.state = "client") ~> socket[s] = "joined"

\* A request to listen is answered, by OnListen or by OnClose.  (ProcessListen, _UpdateHost)
ListenIsAnswered == <>(\E k \in 1 .. Len(told) : told[k] \in {"OnListen", "OnClose"})

-----------------------------------------------------------------------------
(* The inductive invariant *)

\* What a thread holds at each point
CallsAreTyped ==
    \A t \in Threads :
        /\ thread[t].pc = "idle" => thread[t] = Idle
        /\ thread[t].pc # "idle" => thread[t].ctx \in Contexts
        /\ thread[t].pc \in {"accept", "parse", "align"} => thread[t].sock = NoSocket

\* The context of an accept holds its socket until a worker reads it, or a thread that has
\* posted the context before clears it.
BuffersHoldSockets == \A a \in accepts : buffer[a.ctx] \in {"socket", "cleared"}

ListenerInv ==
    /\ TypeOK
    /\ IsFiniteSet(accepts)
    /\ CallsAreTyped
    /\ BuffersHoldSockets
    /\ OneAcceptOfAContext
    /\ SocketsAreOwned
    /\ AcceptsAreCounted

=============================================================================
