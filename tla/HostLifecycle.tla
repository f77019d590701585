---------------------------- MODULE HostLifecycle ----------------------------
(***************************************************************************)
(* The life of a NetworkHostPO: taken from the pool, listed by the          *)
(* controller, used by overlapped I/O, closed, reported and recycled.       *)
(*                                                                          *)
(* Threads: the one NetworkController thread (Ctl), the IOCP threads of     *)
(* NetworkWorkerPO (Workers) and a service thread that sends (App).  A host *)
(* object is shared by all of them and no lock protects its socket or its   *)
(* task counters, so NetworkHostPO::Close is three steps here: test         *)
(* m_oSocket; record the reason and closesocket; m_oSocket = INVALID_SOCKET. *)
(*                                                                          *)
(* A host ID names one incarnation of a host object, and the socket of that *)
(* incarnation: the model stops at MaxId allocations, long before the       *)
(* counter of the code wraps.  Packets, addresses and contexts are left out *)
(* (see SendPipeline and ContextPool); each system call may fail.           *)
(***************************************************************************)
EXTENDS Naturals, Sequences, FiniteSets

CONSTANTS
    Hosts,      \* NetworkHostPO objects the process may construct
    NoHost,     \* a null host pointer
    Workers,    \* IOCP threads
    Ctl,        \* the controller thread
    App,        \* a service thread calling NetworkManager::Send
    MaxId       \* bound: host IDs handed out in one behaviour

ASSUME LifecycleAssumption ==
    /\ NoHost \notin Hosts
    /\ Ctl # App
    /\ Ctl \notin Workers
    /\ App \notin Workers
    /\ MaxId \in Nat \ {0}

Ids     == 1 .. MaxId
Threads == Workers \cup {Ctl, App}

INVALID_SOCKET == 0

HostTypes  == {"None", "Acceptor", "Connector"}
CloseTypes == {"Reset", "FailedToBaseTask", "FailedToSendTask", "RegisterWorkerFail",
               "ProcessClose", "ConnectFailed", "SendQueueExceed"}
BaseKinds  == {"Connect", "Receive"}
SendKinds  == {"Encrypt", "Send"}

VARIABLES
    \* fields of each NetworkHostPO
    hostId, socket, baseTask, sendTask, eventSync, hostType, lastClose,
    \* NetworkHostPoolPO
    freeQueue, created, active, lastHostId,
    \* NetworkControllerPO
    hostList, connectorList, msgQueue, sweep,
    \* Windows: the state of each socket, the operations in the completion port
    kernelSocket, ios,
    \* the call each thread is in
    thread,
    \* what the application was told of each host ID, and the IDs it asked to close
    callback, asked

hostVars   == <<hostId, socket, baseTask, sendTask, eventSync, hostType, lastClose>>
poolVars   == <<freeQueue, created, active, lastHostId>>
ctlVars    == <<hostList, connectorList, msgQueue, sweep>>
kernelVars == <<kernelSocket, ios>>
appVars    == <<callback, asked>>
vars == <<hostVars, poolVars, ctlVars, kernelVars, thread, appVars>>

Op(kind, h, i) == [kind |-> kind, host |-> h, id |-> i]
Ops == [kind : BaseKinds \cup SendKinds, host : Hosts, id : Ids]

Msg(type, h, i) == [type |-> type, host |-> h, id |-> i]
Msgs == [type : {"Connect", "Join", "Close"}, host : Hosts \cup {NoHost}, id : Ids]

\* A thread between two calls; one about to issue an operation on a host; one
\* that holds a host pointer in SendPacketToHost; one inside Close.
Idle              == [pc |-> "idle", kind |-> "None", host |-> NoHost, id |-> 0, why |-> "Reset"]
Issuing(kind, h, i) == [pc |-> "issue", kind |-> kind, host |-> h, id |-> i, why |-> "Reset"]
Found(h, i)       == [pc |-> "waiting", kind |-> "None", host |-> h, id |-> i, why |-> "Reset"]
Closing(pc, h, i, why) == [pc |-> pc, kind |-> "None", host |-> h, id |-> i, why |-> why]

Calls == {Idle}
    \cup [pc : {"issue"}, kind : BaseKinds \cup {"Send"}, host : Hosts, id : Ids, why : {"Reset"}]
    \cup [pc : {"waiting"}, kind : {"None"}, host : Hosts, id : Ids, why : {"Reset"}]
    \cup [pc : {"close", "closesocket", "clear"}, kind : {"None"}, host : Hosts, id : Ids,
          why : CloseTypes]

-----------------------------------------------------------------------------
(* What the application has been told of a host ID: nothing, OnConnect, then  *)
(* OnClose; or, without OnConnect, OnConnectedFailed ("failed") or OnClose    *)
(* ("aborted").  "disowned" is OnConnectedFailed after OnConnect; "broken" is *)
(* any other order.                                                          *)
Told == {"none", "connected", "closed", "failed", "aborted", "disowned", "broken"}
Ended == {"closed", "failed", "aborted", "disowned"}

OnConnect(s)         == IF s = "none" THEN "connected" ELSE "broken"
OnReceive(s)         == IF s = "connected" THEN "connected" ELSE "broken"
OnClose(s)           == IF s = "connected" THEN "closed"
                        ELSE IF s = "none" THEN "aborted" ELSE "broken"
OnConnectedFailed(s) == IF s = "none" THEN "failed"
                        ELSE IF s = "connected" THEN "disowned" ELSE "broken"

Tell(h, Event(_)) ==
    callback' = IF eventSync[h] THEN [callback EXCEPT ![hostId[h]] = Event(@)] ELSE callback

-----------------------------------------------------------------------------
Init ==
    /\ hostId    = [h \in Hosts |-> 0]
    /\ socket    = [h \in Hosts |-> INVALID_SOCKET]
    /\ baseTask  = [h \in Hosts |-> 0]
    /\ sendTask  = [h \in Hosts |-> 0]
    /\ eventSync = [h \in Hosts |-> FALSE]
    /\ hostType  = [h \in Hosts |-> "None"]
    /\ lastClose = [h \in Hosts |-> "Reset"]
    /\ freeQueue = <<>>
    /\ created   = {}
    /\ active    = [i \in Ids |-> NoHost]
    /\ lastHostId = 0
    /\ hostList  = [i \in Ids |-> NoHost]
    /\ connectorList = {}
    /\ msgQueue  = <<>>
    /\ sweep     = {}
    /\ kernelSocket = [i \in Ids |-> "none"]
    /\ ios       = {}
    /\ thread    = [t \in Threads |-> Idle]
    /\ callback  = [i \in Ids |-> "none"]
    /\ asked     = {}

-----------------------------------------------------------------------------
(* NetworkHostPoolPO *)

Allocate(h) ==
    /\ lastHostId < MaxId
    /\ \/ freeQueue # <<>> /\ h = Head(freeQueue) /\ freeQueue' = Tail(freeQueue)
       \/ freeQueue = <<>> /\ h \notin created /\ UNCHANGED freeQueue
    /\ created'    = created \cup {h}
    /\ lastHostId' = lastHostId + 1
    /\ hostId'     = [hostId EXCEPT ![h] = lastHostId + 1]
    /\ active'     = [active EXCEPT ![lastHostId + 1] = h]
    /\ eventSync'  = [eventSync EXCEPT ![h] = TRUE]

\* mutant: Release forgets m_umActiveMap
ReleaseKeepsActive(h) ==
    /\ hostId'    = [hostId EXCEPT ![h] = 0]
    /\ hostType'  = [hostType EXCEPT ![h] = "None"]
    /\ eventSync' = [eventSync EXCEPT ![h] = FALSE]
    /\ baseTask'  = [baseTask EXCEPT ![h] = 0]
    /\ sendTask'  = [sendTask EXCEPT ![h] = 0]
    /\ lastClose' = [lastClose EXCEPT ![h] = "Reset"]
    /\ freeQueue' = Append(freeQueue, h)
    /\ UNCHANGED <<socket, created, active, lastHostId>>

ReleaseHost(h) ==
    /\ active'    = [active EXCEPT ![hostId[h]] = NoHost]
    /\ hostId'    = [hostId EXCEPT ![h] = 0]
    /\ hostType'  = [hostType EXCEPT ![h] = "None"]
    /\ eventSync' = [eventSync EXCEPT ![h] = FALSE]
    /\ baseTask'  = [baseTask EXCEPT ![h] = 0]
    /\ sendTask'  = [sendTask EXCEPT ![h] = 0]
    /\ lastClose' = [lastClose EXCEPT ![h] = "Reset"]
    /\ freeQueue' = Append(freeQueue, h)
    /\ UNCHANGED <<socket, created, lastHostId>>

-----------------------------------------------------------------------------
(* Requests: NetworkManager::Connect and Close from a service, Join from the  *)
(* worker that completed an accept.  Each only queues work for the controller.*)

\* mutant: the request is dispatched again when it is taken for lost
ConnectTwice(h) ==
    /\ Allocate(h)
    /\ msgQueue' = msgQueue \o <<Msg("Connect", h, lastHostId + 1), Msg("Connect", h, lastHostId + 1)>>
    /\ UNCHANGED <<socket, baseTask, sendTask, hostType, lastClose, hostList,
                   connectorList, sweep, kernelVars, thread, appVars>>

Connect(h) ==
    /\ Allocate(h)
    /\ msgQueue' = Append(msgQueue, Msg("Connect", h, lastHostId + 1))
    /\ UNCHANGED <<socket, baseTask, sendTask, hostType, lastClose, hostList,
                   connectorList, sweep, kernelVars, thread, appVars>>

Join(w, h) ==
    /\ thread[w] = Idle
    /\ Allocate(h)
    /\ socket'       = [socket EXCEPT ![h] = lastHostId + 1]
    /\ kernelSocket' = [kernelSocket EXCEPT ![lastHostId + 1] = "connected"]
    /\ msgQueue'     = Append(msgQueue, Msg("Join", h, lastHostId + 1))
    /\ UNCHANGED <<baseTask, sendTask, hostType, lastClose, hostList, connectorList,
                   sweep, ios, thread, appVars>>

\* mutant: a close request overtakes the others
CloseFirst(i) ==
    /\ i \in 1 .. lastHostId
    /\ i \notin asked
    /\ asked'    = asked \cup {i}
    /\ msgQueue' = <<Msg("Close", NoHost, i)>> \o msgQueue
    /\ UNCHANGED <<hostVars, poolVars, hostList, connectorList, sweep, kernelVars,
                   thread, callback>>

\* Bound: the services ask for each ID at most once.
Close(i) ==
    /\ i \in 1 .. lastHostId
    /\ i \notin asked
    /\ asked'    = asked \cup {i}
    /\ msgQueue' = Append(msgQueue, Msg("Close", NoHost, i))
    /\ UNCHANGED <<hostVars, poolVars, hostList, connectorList, sweep, kernelVars,
                   thread, callback>>

-----------------------------------------------------------------------------
(* NetworkHostPO::Close, by any thread, on whatever the pointer now holds *)

TestSocket(t) ==
    LET h == thread[t].host IN
    /\ thread[t].pc = "close"
    /\ thread' = [thread EXCEPT ![t] = IF socket[h] = INVALID_SOCKET THEN Idle
                                       ELSE Closing("closesocket", h, @.id, @.why)]
    /\ UNCHANGED <<hostVars, poolVars, ctlVars, kernelVars, appVars>>

CloseSocket(t) ==
    LET h == thread[t].host IN
    /\ thread[t].pc = "closesocket"
    /\ thread' = [thread EXCEPT ![t] = Closing("clear", h, @.id, @.why)]
    /\ lastClose' = [lastClose EXCEPT ![h] = thread[t].why]
    /\ kernelSocket' = IF socket[h] = INVALID_SOCKET THEN kernelSocket
                       ELSE [kernelSocket EXCEPT ![socket[h]] = "closed"]
    /\ UNCHANGED <<hostId, socket, baseTask, sendTask, eventSync, hostType,
                   poolVars, ctlVars, ios, appVars>>

ClearSocket(t) ==
    /\ thread[t].pc = "clear"
    /\ socket' = [socket EXCEPT ![thread[t].host] = INVALID_SOCKET]
    /\ thread' = [thread EXCEPT ![t] = Idle]
    /\ UNCHANGED <<hostId, baseTask, sendTask, eventSync, hostType, lastClose,
                   poolVars, ctlVars, kernelVars, appVars>>

-----------------------------------------------------------------------------
(* EndBaseTask(false, why) and EndSendTask(false): the counter first, then Close *)

\* mutants: EndBaseTask counts down twice; only after a success
EndsBaseTaskTwice(t, h, i, why) ==
    /\ baseTask' = [baseTask EXCEPT ![h] = @ - 2]
    /\ thread'   = [thread EXCEPT ![t] = Closing("close", h, i, why)]
    /\ UNCHANGED sendTask
KeepsBaseTask(t, h, i, why) ==
    /\ thread'   = [thread EXCEPT ![t] = Closing("close", h, i, why)]
    /\ UNCHANGED <<baseTask, sendTask>>

FailBaseTask(t, h, i, why) ==
    /\ baseTask' = [baseTask EXCEPT ![h] = @ - 1]
    /\ thread'   = [thread EXCEPT ![t] = Closing("close", h, i, why)]
    /\ UNCHANGED sendTask

FailSendTask(t, h, i) ==
    /\ sendTask' = [sendTask EXCEPT ![h] = 0]
    /\ thread'   = [thread EXCEPT ![t] = Closing("close", h, i, "FailedToSendTask")]
    /\ UNCHANGED baseTask

\* ConnectEx needs a fresh socket, Receive and Send a connected one.
CanIssue(kind, h) ==
    /\ socket[h] # INVALID_SOCKET
    /\ kernelSocket[socket[h]] = IF kind = "Connect" THEN "created" ELSE "connected"

\* NetworkHostPO::Connect, Receive or Send; the system may refuse any of them.
Issue(t) ==
    LET h == thread[t].host
        i == thread[t].id
    IN
    /\ thread[t].pc = "issue"
    /\ \/ /\ CanIssue(thread[t].kind, h)
          /\ ios' = ios \cup {Op(thread[t].kind, h, i)}
          /\ thread' = [thread EXCEPT ![t] = Idle]
          /\ UNCHANGED <<baseTask, sendTask>>
       \/ /\ thread[t].kind \in BaseKinds
          /\ FailBaseTask(t, h, i, "FailedToBaseTask")
          /\ UNCHANGED ios
       \/ /\ thread[t].kind = "Send"
          /\ FailSendTask(t, h, i)
          /\ UNCHANGED ios
    /\ UNCHANGED <<hostId, socket, eventSync, hostType, lastClose, poolVars, ctlVars,
                   kernelSocket, appVars>>

-----------------------------------------------------------------------------
(* NetworkControllerPO::ProcessThread: each turn updates every listed host (the *)
(* interval of the timer is 0), then takes at most one message.  "sweep" holds   *)
(* the IDs the turn has yet to update.                                           *)

Listed(list) == {i \in Ids : list[i] # NoHost}

PopNothing ==
    /\ thread[Ctl] = Idle
    /\ sweep = {}
    /\ msgQueue = <<>>
    /\ Listed(hostList) # {}
    /\ sweep' = Listed(hostList)
    /\ UNCHANGED <<hostVars, poolVars, hostList, connectorList, msgQueue, kernelVars,
                   thread, appVars>>

\* mutants: IsAlive forgets one of its three tests
IsAliveBySocketOrBase(h) == socket[h] # INVALID_SOCKET \/ baseTask[h] > 0
IsAliveByTasks(h)        == baseTask[h] > 0 \/ sendTask[h] > 0

IsAlive(h) == socket[h] # INVALID_SOCKET \/ baseTask[h] > 0 \/ sendTask[h] > 0

Update(i) ==
    /\ thread[Ctl] = Idle
    /\ i \in sweep
    /\ sweep' = sweep \ {i}

\* mutant: BeginSendTask does not test m_lSendTaskCount
MayBeginSendAgain(h) == socket[h] # INVALID_SOCKET /\ hostType[h] # "None"

\* Host::Update reaches BeginSendTask, and BeginSendTask takes m_lSendTaskCount.
MayBeginSend(h) == socket[h] # INVALID_SOCKET /\ hostType[h] # "None" /\ sendTask[h] = 0

\* A live host: BeginSendTask if something waits to be sent.
UpdateAlive(i) ==
    LET h == hostList[i] IN
    /\ Update(i)
    /\ IsAlive(h)
    /\ \/ UNCHANGED <<sendTask, ios, thread>>
       \/ /\ MayBeginSend(h)
          /\ \/ /\ sendTask' = [sendTask EXCEPT ![h] = 1]
                /\ ios' = ios \cup {Op("Encrypt", h, i)}
                /\ UNCHANGED thread
             \/ /\ thread' = [thread EXCEPT ![Ctl] = Closing("close", h, i, "FailedToSendTask")]
                /\ UNCHANGED <<sendTask, ios>>
    /\ UNCHANGED <<hostId, socket, baseTask, eventSync, hostType, lastClose, poolVars,
                   hostList, connectorList, msgQueue, kernelSocket, appVars>>

\* mutant: the host goes back to the pool before EventClose, and has no callback left
ReleaseFirst(i) ==
    LET h == hostList[i] IN
    /\ Update(i)
    /\ ~IsAlive(h)
    /\ ReleaseHost(h)
    /\ connectorList' = connectorList \ {i}
    /\ hostList' = [hostList EXCEPT ![i] = NoHost]
    /\ UNCHANGED <<msgQueue, kernelVars, thread, appVars>>

\* A dead one: EventClose, back to the pool, out of the lists.
UpdateDead(i) ==
    LET h == hostList[i] IN
    /\ Update(i)
    /\ ~IsAlive(h)
    /\ IF lastClose[h] = "ConnectFailed" THEN Tell(h, OnConnectedFailed) ELSE Tell(h, OnClose)
    /\ ReleaseHost(h)
    /\ connectorList' = connectorList \ {i}
    /\ hostList' = [hostList EXCEPT ![i] = NoHost]
    /\ UNCHANGED <<msgQueue, kernelVars, thread, asked>>

Pop(type) ==
    /\ thread[Ctl] = Idle
    /\ sweep = {}
    /\ msgQueue # <<>>
    /\ Head(msgQueue).type = type
    /\ msgQueue' = Tail(msgQueue)

\* _AddHost: into the list, a socket if there is none, the completion port.
\* Its duplicate test never succeeds (NewIdsAreUnlisted).
AddHost(h, i) ==
    /\ hostList' = [hostList EXCEPT ![i] = h]
    /\ \/ socket[h] # INVALID_SOCKET /\ UNCHANGED <<socket, kernelSocket>>
       \/ /\ socket[h] = INVALID_SOCKET
          /\ socket'       = [socket EXCEPT ![h] = i]
          /\ kernelSocket' = [kernelSocket EXCEPT ![i] = "created"]

\* mutant: the host is listed only when it has a socket
AddHostForgets(h, i) ==
    \/ /\ socket[h] = INVALID_SOCKET
       /\ UNCHANGED <<socket, kernelSocket, thread, hostList>>
    \/ /\ AddHost(h, i)
       /\ thread' = [thread EXCEPT ![Ctl] = Closing("close", h, i, "RegisterWorkerFail")]

\* _AddHost fails: no socket can be created, or the port refuses it.
AddHostFails(h, i) ==
    \/ /\ socket[h] = INVALID_SOCKET
       /\ hostList' = [hostList EXCEPT ![i] = h]
       /\ UNCHANGED <<socket, kernelSocket, thread>>
    \/ /\ AddHost(h, i)
       /\ thread' = [thread EXCEPT ![Ctl] = Closing("close", h, i, "RegisterWorkerFail")]

ProcessConnect ==
    LET h == Head(msgQueue).host
        i == Head(msgQueue).id
    IN
    /\ Pop("Connect")
    /\ \/ /\ AddHostFails(h, i)
          /\ UNCHANGED <<connectorList, baseTask>>
       \/ /\ AddHost(h, i)
          /\ connectorList' = connectorList \cup {i}
          /\ baseTask' = [baseTask EXCEPT ![h] = @ + 1]
          /\ thread'   = [thread EXCEPT ![Ctl] = Issuing("Connect", h, i)]
    /\ sweep' = Listed(hostList')
    /\ UNCHANGED <<hostId, sendTask, eventSync, hostType, lastClose, poolVars, ios, appVars>>

ProcessJoin ==
    LET h == Head(msgQueue).host
        i == Head(msgQueue).id
    IN
    /\ Pop("Join")
    /\ \/ /\ AddHostFails(h, i)
          /\ UNCHANGED <<connectorList, hostType, baseTask, callback>>
       \/ \* EventConnect, BeginBaseTask, then Receive
          /\ AddHost(h, i)
          /\ connectorList' = connectorList \cup {i}
          /\ Tell(h, OnConnect)
          /\ hostType' = [hostType EXCEPT ![h] = "Acceptor"]
          /\ baseTask' = [baseTask EXCEPT ![h] = @ + 1]
          /\ thread'   = [thread EXCEPT ![Ctl] = Issuing("Receive", h, i)]
    /\ sweep' = Listed(hostList')
    /\ UNCHANGED <<hostId, sendTask, eventSync, lastClose, poolVars, ios, asked>>

ProcessClose ==
    LET i == Head(msgQueue).id
        h == hostList[i]
    IN
    /\ Pop("Close")
    /\ sweep' = Listed(hostList)
    /\ connectorList' = connectorList \ {i}
    /\ thread' = IF h = NoHost THEN thread
                 ELSE [thread EXCEPT ![Ctl] = Closing("close", h, i, "ProcessClose")]
    /\ UNCHANGED <<hostVars, poolVars, hostList, kernelVars, appVars>>

-----------------------------------------------------------------------------
(* NetworkWorkerPO: one completion, from the port to the next operation *)

Dequeue(w, o) ==
    /\ thread[w] = Idle
    /\ o \in ios
    /\ ios' = ios \ {o}

\* ProcessReceive: data for the application, or a lost or misbehaving peer.
ProcessReceive(w, o) ==
    /\ Dequeue(w, o)
    /\ o.kind = "Receive"
    /\ \/ /\ Tell(o.host, OnReceive)
          /\ thread' = [thread EXCEPT ![w] = Issuing("Receive", o.host, o.id)]
          /\ UNCHANGED <<baseTask, sendTask>>
       \/ /\ FailBaseTask(w, o.host, o.id, "FailedToBaseTask")
          /\ UNCHANGED callback
    /\ UNCHANGED <<hostId, socket, eventSync, hostType, lastClose, poolVars, ctlVars,
                   kernelSocket, asked>>

\* NetworkWorkerPO::ProcessConnect
CompleteConnect(w, o) ==
    /\ Dequeue(w, o)
    /\ o.kind = "Connect"
    /\ \/ /\ kernelSocket' = [kernelSocket EXCEPT ![o.id] = IF @ = "created" THEN "connected" ELSE @]
          /\ Tell(o.host, OnConnect)
          /\ hostType' = [hostType EXCEPT ![o.host] = "Connector"]
          /\ thread' = [thread EXCEPT ![w] = Issuing("Receive", o.host, o.id)]
          /\ UNCHANGED <<baseTask, sendTask>>
       \/ /\ FailBaseTask(w, o.host, o.id, "ConnectFailed")
          /\ UNCHANGED <<kernelSocket, callback, hostType>>
    /\ UNCHANGED <<hostId, socket, eventSync, lastClose, poolVars, ctlVars, asked>>

ProcessEncrypt(w, o) ==
    /\ Dequeue(w, o)
    /\ o.kind = "Encrypt"
    /\ thread' = [thread EXCEPT ![w] = Issuing("Send", o.host, o.id)]
    /\ UNCHANGED <<hostVars, poolVars, ctlVars, kernelSocket, appVars>>

ProcessSend(w, o) ==
    /\ Dequeue(w, o)
    /\ o.kind = "Send"
    /\ \/ /\ sendTask' = [sendTask EXCEPT ![o.host] = 0]
          /\ UNCHANGED <<baseTask, thread>>
       \/ FailSendTask(w, o.host, o.id)
    /\ UNCHANGED <<hostId, socket, eventSync, hostType, lastClose, poolVars, ctlVars,
                   kernelSocket, appVars>>

-----------------------------------------------------------------------------
(* NetworkControllerPO::SendPacketToHost: the lock covers the lookup only.  The *)
(* controller holds it through a sweep; a lookup of i commutes with the update    *)
(* of every other host, so it may fall between two updates here.                 *)

FindHost(i) ==
    /\ thread[App] = Idle
    /\ hostList[i] # NoHost
    /\ thread' = [thread EXCEPT ![App] = Found(hostList[i], i)]
    /\ UNCHANGED <<hostVars, poolVars, ctlVars, kernelVars, appVars>>

\* Waiting: the packet is queued, or the queue of an acceptor is too long.
Waiting ==
    LET h == thread[App].host IN
    /\ thread[App].pc = "waiting"
    /\ \/ thread' = [thread EXCEPT ![App] = Idle]
       \/ /\ hostType[h] = "Acceptor"
          /\ thread' = [thread EXCEPT ![App] = Closing("close", h, @.id, "SendQueueExceed")]
    /\ UNCHANGED <<hostVars, poolVars, ctlVars, kernelVars, appVars>>

-----------------------------------------------------------------------------
Requests ==
    \/ \E h \in Hosts : Connect(h)
    \/ \E w \in Workers, h \in Hosts : Join(w, h)
    \/ \E i \in Ids : Close(i)
    \/ \E i \in Ids : FindHost(i)

Controller ==
    \/ \E i \in Ids : UpdateAlive(i) \/ UpdateDead(i)
    \/ PopNothing
    \/ ProcessConnect
    \/ ProcessJoin
    \/ ProcessClose

Complete(w, o) ==
    \/ ProcessReceive(w, o)
    \/ CompleteConnect(w, o)
    \/ ProcessEncrypt(w, o)
    \/ ProcessSend(w, o)

Continue(t) ==
    \/ Issue(t)
    \/ TestSocket(t)
    \/ CloseSocket(t)
    \/ ClearSocket(t)

Next ==
    \/ Requests
    \/ Controller
    \/ \E w \in Workers, o \in Ops : Complete(w, o)
    \/ \E t \in Threads : Continue(t)
    \/ Waiting

\* Threads run.  An operation ends by itself when its socket is closed, when it
\* was posted by the program (Encrypt) and, by a time limit of TCP, when it
\* connects or sends; a Receive on an open socket may wait for ever.  The port
\* queues completions, so no busy stream of others starves one: strong fairness.
MustEnd(o) == o.kind # "Receive" \/ kernelSocket[o.id] = "closed"

Fairness ==
    /\ WF_vars(Controller)
    /\ \A t \in Threads : WF_vars(Continue(t))
    /\ WF_vars(Waiting)
    /\ \A kinds \in {BaseKinds, SendKinds} :
          SF_vars(\E o \in ios, w \in Workers : o.kind \in kinds /\ MustEnd(o) /\ Complete(w, o))

Spec     == Init /\ [][Next]_vars
FairSpec == Spec /\ Fairness

-----------------------------------------------------------------------------
(* Properties *)

TypeOK ==
    /\ hostId    \in [Hosts -> Ids \cup {0}]
    /\ socket    \in [Hosts -> Ids \cup {INVALID_SOCKET}]
    /\ baseTask  \in [Hosts -> 0 .. 1]
    /\ sendTask  \in [Hosts -> 0 .. 1]
    /\ eventSync \in [Hosts -> BOOLEAN]
    /\ hostType  \in [Hosts -> HostTypes]
    /\ lastClose \in [Hosts -> CloseTypes]
    /\ freeQueue \in Seq(Hosts)
    /\ created   \subseteq Hosts
    /\ active    \in [Ids -> Hosts \cup {NoHost}]
    /\ lastHostId \in 0 .. MaxId
    /\ hostList  \in [Ids -> Hosts \cup {NoHost}]
    /\ connectorList \subseteq Ids
    /\ msgQueue  \in Seq(Msgs)
    /\ sweep     \subseteq Ids
    /\ kernelSocket \in [Ids -> {"none", "created", "connected", "closed"}]
    /\ ios       \subseteq Ops
    /\ thread    \in [Threads -> Calls]
    /\ callback  \in [Ids -> Told]
    /\ asked     \subseteq Ids

\* What keeps a host from being recycled: an operation in the port or a thread
\* about to issue one.
Holds(kinds, h, i) ==
    \/ \E o \in ios : o.kind \in kinds /\ o.host = h /\ o.id = i
    \/ \E t \in Threads : thread[t].pc = "issue" /\ thread[t].kind \in kinds
                         /\ thread[t].host = h /\ thread[t].id = i

\* NetworkWorkerPO::ProcessThread trusts the host pointer of every completion.
\* The task counters make it the host the operation was issued for: it is listed
\* under the same ID, so the controller cannot have recycled it.
NoStaleCompletion ==
    \A h \in Hosts, i \in Ids :
        /\ Holds(BaseKinds, h, i) => hostId[h] = i /\ hostList[i] = h /\ baseTask[h] = 1
        /\ Holds(SendKinds, h, i) => hostId[h] = i /\ hostList[i] = h /\ sendTask[h] = 1

\* Each host has at most one receive or connect and at most one encrypt or send
\* under way (m_lSendTaskCount is the lock of m_oSendWorkQueue, the context of a
\* receive carries the half packet): no two completions run on the same data.
OneTaskOfAKind ==
    \A kinds \in {BaseKinds, SendKinds} : \A h \in Hosts :
        Cardinality({o \in ios : o.kind \in kinds /\ o.host = h})
        + Cardinality({t \in Threads : thread[t].pc = "issue" /\ thread[t].kind \in kinds
                                       /\ thread[t].host = h}) <= 1

\* A host that waits in the pool is clean: it has no socket, no task and no
\* callback, nobody finds it by an ID, no request carries it.
FreeHostsAreClean ==
    \A n \in DOMAIN freeQueue :
        LET h == freeQueue[n] IN
        /\ socket[h] = INVALID_SOCKET /\ baseTask[h] = 0 /\ sendTask[h] = 0 /\ ~eventSync[h]
        /\ \A i \in Ids : active[i] # h /\ hostList[i] # h
        /\ \A k \in DOMAIN msgQueue : msgQueue[k].host # h
        /\ \A k \in DOMAIN freeQueue : freeQueue[k] = h => k = n

\* The ID of a queued host is not listed yet, and no other request carries it: the
\* duplicate branch of _AddHost, which would recycle a live host, is dead code.
NewIdsAreUnlisted ==
    \A k \in DOMAIN msgQueue : msgQueue[k].host # NoHost =>
        /\ hostList[msgQueue[k].id] = NoHost
        /\ hostId[msgQueue[k].host] = msgQueue[k].id
        /\ \A n \in DOMAIN msgQueue : msgQueue[n].host = msgQueue[k].host => n = k

\* No host object is lost, whatever step of its connection failed: one that has no ID
\* waits in the pool; one that has an ID is found by it in m_umActiveMap, and the
\* controller will come across it, in its list or in a queued request.
NoHostLeaks ==
    \A h \in created :
        IF hostId[h] = 0 THEN \E n \in DOMAIN freeQueue : freeQueue[n] = h
        ELSE /\ active[hostId[h]] = h
             /\ \/ hostList[hostId[h]] = h
                \/ \E k \in DOMAIN msgQueue : msgQueue[k].host = h

\* Services see each ID connect, receive, close in this order, whatever threads
\* the events are raised on.  (Connection promises as much, and more: see ImplementsConnection.)
CallbackOrder == \A i \in Ids : callback[i] # "broken"

\* The socket of a host is the one made for its present ID, whatever threads
\* were late to close the one before.
SocketIsOwn == \A h \in Hosts : socket[h] # INVALID_SOCKET => socket[h] = hostId[h]

\* A connection whose socket is closed is reported to its service.
ClosedIsReported ==
    \A i \in Ids : (callback[i] = "connected" /\ kernelSocket[i] = "closed")
                     ~> callback[i] \in Ended

\* A connection attempt has an answer: OnConnect, OnConnectedFailed or OnClose.
AttemptIsReported ==
    \A i \in Ids : i <= lastHostId ~> callback[i] # "none"

\* GetConnectorHostID finds only hosts the controller lists and that nobody has
\* closed: the list of connectors is kept by other calls than the list of hosts.
ConnectorsAreOpen ==
    \A i \in connectorList :
        /\ hostList[i] # NoHost
        /\ i \in asked => \E k \in DOMAIN msgQueue : msgQueue[k] = Msg("Close", NoHost, i)

\* Where an ID is in its life, by what the controller keeps of it.
IsRequested(i) == \E k \in 1 .. Len(msgQueue) : msgQueue[k].host # NoHost /\ msgQueue[k].id = i

Stage(i) == CASE hostList[i] # NoHost                        -> "listed"
              [] hostList[i] = NoHost /\ IsRequested(i)      -> "requested"
              [] hostList[i] = NoHost /\ ~IsRequested(i)     ->
                     IF i > lastHostId THEN "unused" ELSE "ended"

Connection == INSTANCE Connection WITH stage <- [i \in Ids |-> Stage(i)], told <- callback

\* The lists, the queue and the callbacks together are what Connection promises: each
\* ID is requested, listed and ended once, its service hears of the connection while
\* it is listed, and the step that takes it off the list tells its end.
ImplementsConnection == Connection!Spec

-----------------------------------------------------------------------------
(* The inductive invariant behind NoStaleCompletion: which references to a host *)
(* exist, and what each of them guarantees.                                     *)

IsIssuing(t) == thread[t].pc = "issue"

\* Host h was issued an operation of the kind under ID i and has not ended it.
Owned(kind, h, i) ==
    /\ hostId[h] = i
    /\ hostList[i] = h
    /\ IF kind \in BaseKinds THEN baseTask[h] = 1 ELSE sendTask[h] = 1

TasksAreOwned ==
    /\ \A o \in ios : Owned(o.kind, o.host, o.id)
    /\ \A t \in Threads : IsIssuing(t) => Owned(thread[t].kind, thread[t].host, thread[t].id)

\* Two tasks, each an operation or an issuing thread, that share a counter.
Alike(a, b) == a.host = b.host /\ (a.kind \in BaseKinds <=> b.kind \in BaseKinds)

TasksAreAlone ==
    /\ \A o, p \in ios : Alike(o, p) => o = p
    /\ \A o \in ios, t \in Threads : IsIssuing(t) => ~Alike(o, thread[t])
    /\ \A t, u \in Threads : IsIssuing(t) /\ IsIssuing(u) /\ Alike(thread[t], thread[u]) => t = u

\* The host list and the active map are parts of the inverse of hostId.
IdsAreConsistent ==
    /\ \A h \in Hosts : hostId[h] <= lastHostId
    /\ \A g, h \in Hosts : hostId[g] = hostId[h] /\ hostId[h] # 0 => g = h
    /\ \A i \in Ids : hostList[i] # NoHost => hostId[hostList[i]] = i
    /\ \A i \in Ids : active[i] # NoHost => hostId[active[i]] = i
    /\ \A i \in sweep : hostList[i] # NoHost
    /\ \A h \in Hosts : eventSync[h] => hostId[h] # 0

\* A host in the pool, or not yet constructed, is in nobody's hands; one that is
\* queued for the controller is not listed yet.
Unused(h) == hostId[h] = 0 /\ baseTask[h] = 0 /\ sendTask[h] = 0

FreeHostsAreUnused ==
    /\ \A h \in Hosts \ created : Unused(h)
    /\ \A n \in 1 .. Len(freeQueue) : Unused(freeQueue[n]) /\ freeQueue[n] \in created
    /\ \A n, k \in 1 .. Len(freeQueue) : freeQueue[n] = freeQueue[k] => n = k

QueuedHostsAreNew ==
    /\ \A k \in 1 .. Len(msgQueue) : msgQueue[k].type = "Close" <=> msgQueue[k].host = NoHost
    /\ \A k \in 1 .. Len(msgQueue) : msgQueue[k].host # NoHost =>
          /\ hostId[msgQueue[k].host] = msgQueue[k].id
          /\ hostList[msgQueue[k].id] = NoHost
          /\ baseTask[msgQueue[k].host] = 0
          /\ sendTask[msgQueue[k].host] = 0
    /\ \A k, n \in 1 .. Len(msgQueue) :
          msgQueue[k].host # NoHost /\ msgQueue[k].host = msgQueue[n].host => k = n

IInv ==
    /\ TypeOK
    /\ TasksAreOwned
    /\ TasksAreAlone
    /\ IdsAreConsistent
    /\ FreeHostsAreUnused
    /\ QueuedHostsAreNew
    /\ SocketIsOwn

-----------------------------------------------------------------------------
(* What CallbackOrder and ConnectorsAreOpen rest on, besides IInv *)

\* A connect under way was not reported yet; a receive follows OnConnect.
FollowsEvents(task) ==
    /\ task.kind = "Connect" => callback[task.id] = "none"
    /\ task.kind = "Receive" => callback[task.id] = "connected"

EventsAreInOrder ==
    /\ \A h \in Hosts : hostId[h] # 0 =>
          eventSync[h] /\ callback[hostId[h]] \in {"none", "connected"}
    /\ \A i \in Ids : i > lastHostId => callback[i] = "none"
    /\ \A k \in 1 .. Len(msgQueue) : msgQueue[k].host # NoHost => callback[msgQueue[k].id] = "none"
    /\ \A o \in ios : FollowsEvents(o)
    /\ \A t \in Threads : IsIssuing(t) => FollowsEvents(thread[t])
    /\ CallbackOrder

\* Some request behind the k-th of the queue closes i.
ClosedBehind(k, i) ==
    \E n \in 1 .. Len(msgQueue) : n > k /\ msgQueue[n] = Msg("Close", NoHost, i)

\* A close request stands behind the request that brings its host.
ClosesAreQueued ==
    /\ \A i \in asked : i <= lastHostId
    /\ \A k \in 1 .. Len(msgQueue) :
          msgQueue[k].host # NoHost /\ msgQueue[k].id \in asked => ClosedBehind(k, msgQueue[k].id)
    /\ \A i \in connectorList : hostList[i] # NoHost /\ (i \in asked => ClosedBehind(0, i))

-----------------------------------------------------------------------------
(* What the comments of the code say and the code does not do *)

\* NetworkManagerPO.hxx: Send sends the packet to the host of the given ID.
PacketGoesToItsHost ==
    [][\A t \in Threads : (thread[t].pc = "waiting" /\ thread'[t] # thread[t])
                             => hostId[thread[t].host] = thread[t].id]_vars

=============================================================================
