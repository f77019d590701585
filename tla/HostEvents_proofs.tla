--------------------------- MODULE HostEvents_proofs ---------------------------
(***************************************************************************)
(* Proofs about what HostLifecycle tells the services: the order of the     *)
(* callbacks of a host ID, the connectors a service may look up, that no    *)
(* host object is lost, and that the IDs live as Connection promises.  They *)
(* rest on IInv, which says which tasks share a host ID.                    *)
(***************************************************************************)
EXTENDS HostLifecycle_proofs

USE LifecycleAssumption DEF Ids, Threads, INVALID_SOCKET

-----------------------------------------------------------------------------
(* The order of the callbacks *)

\* Nothing has been told of any ID at the start.
LEMMA InitEvents == Init => EventsAreInOrder
BY DEF Init, EventsAreInOrder, CallbackOrder, IsIssuing, Idle

\* A thread that enters a call obliges the services only when it is about to issue.
LEMMA CallsFollow ==
    ASSUME TypeOK, EventsAreInOrder, UNCHANGED callback, NEW t \in Threads, NEW c,
           thread' = [thread EXCEPT ![t] = c],
           c.pc = "issue" => FollowsEvents(c)
    PROVE  \A u \in Threads : IsIssuing(u)' => FollowsEvents(thread[u])'
<1>1. thread \in [Threads -> Calls]
  BY DEF TypeOK
<1>2. SUFFICES ASSUME NEW u \in Threads, thread'[u].pc = "issue"
               PROVE  FollowsEvents(thread[u])'
  BY DEF IsIssuing
<1>3. CASE u = t
  BY <1>1, <1>2, <1>3 DEF FollowsEvents
<1>4. CASE u # t
  BY <1>1, <1>2, <1>4 DEF FollowsEvents, EventsAreInOrder, IsIssuing
<1>5. QED
  BY <1>3, <1>4

\* A step that tells nothing keeps the order when its new tasks follow it.
LEMMA NothingTold ==
    ASSUME EventsAreInOrder, UNCHANGED <<hostId, eventSync, callback, lastHostId>>,
           \A k \in 1 .. Len(msgQueue') : msgQueue'[k].host # NoHost =>
               \E n \in 1 .. Len(msgQueue) :
                   msgQueue[n].host # NoHost /\ msgQueue[n].id = msgQueue'[k].id,
           \A o \in ios' : o \in ios \/ FollowsEvents(o),
           \A u \in Threads : IsIssuing(u)' => FollowsEvents(thread[u])'
    PROVE  EventsAreInOrder'
<1>1. \A o \in ios' : FollowsEvents(o)'
  BY DEF EventsAreInOrder, FollowsEvents
<1>2. \A k \in 1 .. Len(msgQueue') : msgQueue'[k].host # NoHost => callback'[msgQueue'[k].id] = "none"
  BY DEF EventsAreInOrder
<1>3. QED
  BY <1>1, <1>2 DEF EventsAreInOrder, CallbackOrder

\* After the step no request and no task carries i, but for the new call of a thread.
NoOtherUse(i) ==
    /\ \A k \in 1 .. Len(msgQueue') : msgQueue'[k].host # NoHost =>
           \E n \in 1 .. Len(msgQueue) :
               /\ msgQueue[n].host # NoHost /\ msgQueue[n].id = msgQueue'[k].id
               /\ msgQueue[n].id # i
    /\ \A o \in ios' : o \in ios /\ (o.kind \in BaseKinds => o.id # i)
    /\ \A u \in Threads : IsIssuing(u)' => FollowsEvents(thread[u])'

\* A step that tells host h something of its ID keeps the order when no other
\* request and no other connect or receive carries that ID.
LEMMA HostTold ==
    ASSUME IInv, EventsAreInOrder, NEW h \in Hosts, NEW i \in Ids, hostId[h] = i,
           NEW s \in Told \ {"broken"}, callback' = [callback EXCEPT ![i] = s],
           \/ UNCHANGED <<hostId, eventSync>> /\ s = "connected"
           \/ /\ hostId' = [hostId EXCEPT ![h] = 0]
              /\ eventSync' = [eventSync EXCEPT ![h] = FALSE],
           lastHostId' = lastHostId, NoOtherUse(i)
    PROVE  EventsAreInOrder'
<1> USE DEF NoOtherUse
<1>1. /\ callback \in [Ids -> Told] /\ hostId \in [Hosts -> Ids \cup {0}]
      /\ eventSync \in [Hosts -> BOOLEAN] /\ ios \subseteq Ops
  BY DEF IInv, TypeOK
<1>2. /\ \A g \in Hosts : hostId[g] <= lastHostId
      /\ \A g \in Hosts : hostId[g] = i => g = h
  BY DEF IInv, IdsAreConsistent
<1>3. ASSUME NEW g \in Hosts, hostId'[g] # 0
      PROVE  eventSync'[g] /\ callback'[hostId'[g]] \in {"none", "connected"}
  <2>1. CASE g = h
    BY <1>1, <1>3, <2>1 DEF EventsAreInOrder
  <2>2. CASE g # h
    BY <1>1, <1>2, <1>3, <2>2 DEF EventsAreInOrder
  <2>3. QED
    BY <2>1, <2>2
<1>4. \A j \in Ids : j > lastHostId' => callback'[j] = "none"
  <2>1. ~(i > lastHostId)
    BY <1>2 DEF IInv, TypeOK
  <2>2. QED
    BY <1>1, <2>1 DEF EventsAreInOrder
<1>5. \A k \in 1 .. Len(msgQueue') : msgQueue'[k].host # NoHost => callback'[msgQueue'[k].id] = "none"
  BY <1>1 DEF EventsAreInOrder
<1>6. \A o \in ios' : FollowsEvents(o)'
  BY <1>1 DEF EventsAreInOrder, FollowsEvents, BaseKinds, Ops
<1>7. CallbackOrder'
  BY <1>1 DEF EventsAreInOrder, CallbackOrder
<1>8. QED
  BY <1>3, <1>4, <1>5, <1>6, <1>7 DEF EventsAreInOrder

\* A host that has an ID reports its events under it.
LEMMA ToldOfId ==
    ASSUME IInv, EventsAreInOrder, NEW h \in Hosts, NEW i \in Ids, hostId[h] = i
    PROVE  /\ callback \in [Ids -> Told] /\ callback[i] \in {"none", "connected"}
           /\ Tell(h, OnConnect) => callback' = [callback EXCEPT ![i] = OnConnect(callback[i])]
           /\ Tell(h, OnReceive) => callback' = [callback EXCEPT ![i] = OnReceive(callback[i])]
           /\ Tell(h, OnClose) => callback' = [callback EXCEPT ![i] = OnClose(callback[i])]
           /\ Tell(h, OnConnectedFailed) =>
                 callback' = [callback EXCEPT ![i] = OnConnectedFailed(callback[i])]
<1>1. callback \in [Ids -> Told] /\ i # 0
  BY DEF IInv, TypeOK
<1>2. eventSync[h] /\ callback[i] \in {"none", "connected"}
  BY <1>1 DEF EventsAreInOrder
<1>3. QED
  BY <1>1, <1>2 DEF Tell

\* The steps inside NetworkHostPO::Close tell nothing.
LEMMA CloseKeepsEvents ==
    ASSUME IInv, EventsAreInOrder, NEW t \in Threads,
           TestSocket(t) \/ CloseSocket(t) \/ ClearSocket(t)
    PROVE  EventsAreInOrder'
<1>1. UNCHANGED <<hostId, eventSync, callback, lastHostId, msgQueue, ios>>
  BY DEF TestSocket, CloseSocket, ClearSocket, hostVars, poolVars, ctlVars, kernelVars, appVars
<1>2. PICK c : c.pc # "issue" /\ thread' = [thread EXCEPT ![t] = c]
  BY DEF TestSocket, CloseSocket, ClearSocket, Closing, Idle
<1>3. \A u \in Threads : IsIssuing(u)' => FollowsEvents(thread[u])'
  BY <1>1, <1>2, CallsFollow DEF IInv
<1>4. QED
  BY <1>1, <1>3, NothingTold

\* The call of the system that starts a connect, a receive or a send.
LEMMA IssueKeepsEvents ==
    ASSUME IInv, EventsAreInOrder, NEW t \in Threads, Issue(t)
    PROVE  EventsAreInOrder'
<1>1. UNCHANGED <<hostId, eventSync, callback, lastHostId, msgQueue>>
  BY DEF Issue, poolVars, ctlVars, appVars
<1>2. PICK c : c.pc # "issue" /\ thread' = [thread EXCEPT ![t] = c]
  BY DEF Issue, FailBaseTask, FailSendTask, Closing, Idle
<1>3. \A u \in Threads : IsIssuing(u)' => FollowsEvents(thread[u])'
  BY <1>1, <1>2, CallsFollow DEF IInv
<1>4. \A o \in ios' : o \in ios \/ FollowsEvents(o)
  BY DEF Issue, EventsAreInOrder, IsIssuing, FollowsEvents, Op
<1>5. QED
  BY <1>1, <1>3, <1>4, NothingTold

\* A host taken from the pool gets an ID nobody was told of.
LEMMA AllocateKeepsEvents ==
    ASSUME IInv, EventsAreInOrder, NEW h \in Hosts, NEW type, Allocate(h),
           msgQueue' = Append(msgQueue, Msg(type, h, lastHostId + 1)),
           UNCHANGED <<callback, ios, thread>>
    PROVE  EventsAreInOrder'
<1> DEFINE new == lastHostId + 1
<1>1. /\ new \in Ids /\ new > lastHostId /\ lastHostId' = new
      /\ hostId \in [Hosts -> Ids \cup {0}] /\ eventSync \in [Hosts -> BOOLEAN]
      /\ hostId' = [hostId EXCEPT ![h] = new] /\ eventSync' = [eventSync EXCEPT ![h] = TRUE]
      /\ lastHostId \in Nat
  BY DEF IInv, TypeOK, Allocate
<1>2. callback[new] = "none"
  BY <1>1 DEF EventsAreInOrder
<1>3. \A g \in Hosts : hostId'[g] # 0 =>
        eventSync'[g] /\ callback[hostId'[g]] \in {"none", "connected"}
  BY <1>1, <1>2 DEF EventsAreInOrder
<1>4. \A j \in Ids : j > lastHostId' => callback[j] = "none"
  BY <1>1 DEF EventsAreInOrder
<1>5. \A k \in 1 .. Len(msgQueue') : msgQueue'[k].host # NoHost => callback[msgQueue'[k].id] = "none"
  <2>1. msgQueue \in Seq(Msgs) /\ Len(msgQueue) \in Nat
    BY DEF IInv, TypeOK
  <2>2. /\ Len(msgQueue') = Len(msgQueue) + 1
        /\ \A k \in 1 .. Len(msgQueue) : msgQueue'[k] = msgQueue[k]
        /\ msgQueue'[Len(msgQueue) + 1] = Msg(type, h, new)
    BY <2>1
  <2>3. \A k \in 1 .. Len(msgQueue') : k \in 1 .. Len(msgQueue) \/ k = Len(msgQueue) + 1
    BY <2>1, <2>2
  <2>4. QED
    BY <1>2, <2>2, <2>3 DEF EventsAreInOrder, Msg
<1>6. QED
  BY <1>3, <1>4, <1>5 DEF EventsAreInOrder, CallbackOrder, FollowsEvents, IsIssuing

\* What services and accepting workers ask for.
LEMMA RequestsKeepEvents ==
    ASSUME IInv, EventsAreInOrder, Requests
    PROVE  EventsAreInOrder'
<1>1. ASSUME NEW h \in Hosts, Connect(h) PROVE EventsAreInOrder'
  BY <1>1, AllocateKeepsEvents DEF Connect, kernelVars, appVars
<1>2. ASSUME NEW w \in Workers, NEW h \in Hosts, Join(w, h) PROVE EventsAreInOrder'
  BY <1>2, AllocateKeepsEvents DEF Join, appVars
<1>3. ASSUME NEW i \in Ids, Close(i) PROVE EventsAreInOrder'
  <2>1. UNCHANGED <<hostId, eventSync, callback, lastHostId, ios, thread>>
    BY <1>3 DEF Close, hostVars, poolVars, kernelVars
  <2>2. msgQueue \in Seq(Msgs) /\ Len(msgQueue) \in Nat /\ msgQueue' = Append(msgQueue, Msg("Close", NoHost, i))
    BY <1>3 DEF Close, IInv, TypeOK
  <2>3. /\ Len(msgQueue') = Len(msgQueue) + 1
        /\ \A k \in 1 .. Len(msgQueue) : msgQueue'[k] = msgQueue[k]
        /\ msgQueue'[Len(msgQueue) + 1].host = NoHost
    BY <2>2 DEF Msg
  <2>4. \A k \in 1 .. Len(msgQueue') : k \in 1 .. Len(msgQueue) \/ k = Len(msgQueue) + 1
    BY <2>2, <2>3
  <2>5. \A k \in 1 .. Len(msgQueue') : msgQueue'[k].host # NoHost =>
          k \in 1 .. Len(msgQueue) /\ msgQueue'[k] = msgQueue[k]
    BY <2>3, <2>4
  <2>6. \A u \in Threads : IsIssuing(u)' => FollowsEvents(thread[u])'
    BY <2>1 DEF EventsAreInOrder, IsIssuing, FollowsEvents
  <2>7. QED
    BY <2>1, <2>5, <2>6, NothingTold
<1>4. ASSUME NEW i \in Ids, FindHost(i) PROVE EventsAreInOrder'
  <2>1. UNCHANGED <<hostId, eventSync, callback, lastHostId, msgQueue, ios>>
    BY <1>4 DEF FindHost, hostVars, poolVars, ctlVars, kernelVars, appVars
  <2>2. PICK c : c.pc # "issue" /\ thread' = [thread EXCEPT ![App] = c]
    BY <1>4 DEF FindHost, Found
  <2>3. \A u \in Threads : IsIssuing(u)' => FollowsEvents(thread[u])'
    BY <2>1, <2>2, CallsFollow DEF IInv
  <2>4. QED
    BY <2>1, <2>3, NothingTold
<1>5. QED
  BY <1>1, <1>2, <1>3, <1>4 DEF Requests

\* A receive tells of data and goes on, or fails and tells nothing.
LEMMA ProcessReceiveKeepsEvents ==
    ASSUME IInv, EventsAreInOrder, NEW w \in Workers, NEW o \in Ops, ProcessReceive(w, o)
    PROVE  EventsAreInOrder'
<1>1. /\ w \in Threads /\ o \in ios /\ ios' = ios \ {o} /\ o.kind = "Receive"
      /\ o.host \in Hosts /\ o.id \in Ids /\ hostId[o.host] = o.id
  BY DEF ProcessReceive, Dequeue, Ops, IInv, TasksAreOwned, Owned
<1>2. UNCHANGED <<hostId, eventSync, lastHostId, msgQueue>>
  BY DEF ProcessReceive, poolVars, ctlVars
<1>3. callback[o.id] = "connected" /\ callback \in [Ids -> Told]
  BY <1>1 DEF EventsAreInOrder, FollowsEvents, IInv, TypeOK
<1>4. UNCHANGED callback
  <2>1. CASE Tell(o.host, OnReceive)
    <3>1. callback' = [callback EXCEPT ![o.id] = OnReceive(callback[o.id])]
      BY <1>1, <2>1, ToldOfId
    <3>2. OnReceive(callback[o.id]) = callback[o.id]
      BY <1>3 DEF OnReceive
    <3>3. QED
      BY <1>3, <3>1, <3>2
  <2>2. QED
    BY <2>1 DEF ProcessReceive
<1>5. PICK c : (c.pc = "issue" => FollowsEvents(c)) /\ thread' = [thread EXCEPT ![w] = c]
  <2>1. CASE thread' = [thread EXCEPT ![w] = Issuing("Receive", o.host, o.id)]
    <3>1. FollowsEvents(Issuing("Receive", o.host, o.id))
      BY <1>3 DEF FollowsEvents, Issuing
    <3>2. QED
      BY <2>1, <3>1
  <2>2. CASE thread' = [thread EXCEPT ![w] = Closing("close", o.host, o.id, "FailedToBaseTask")]
    BY <2>2 DEF Closing
  <2>3. QED
    BY <2>1, <2>2 DEF ProcessReceive, FailBaseTask
<1>6. \A u \in Threads : IsIssuing(u)' => FollowsEvents(thread[u])'
  BY <1>1, <1>4, <1>5, CallsFollow DEF IInv
<1>7. QED
  BY <1>1, <1>2, <1>4, <1>6, NothingTold

\* The host of an operation or of a thread in a call is not queued any more: no
\* request carries its ID.
LEMMA ListedIsNotQueued ==
    ASSUME IInv, NEW i \in Ids, hostList[i] # NoHost
    PROVE  \A k \in 1 .. Len(msgQueue) : msgQueue[k].host # NoHost => msgQueue[k].id # i
BY DEF IInv, QueuedHostsAreNew

\* A connection that is made is reported before its first receive is issued.
LEMMA CompleteConnectKeepsEvents ==
    ASSUME IInv, EventsAreInOrder, NEW w \in Workers, NEW o \in Ops, CompleteConnect(w, o)
    PROVE  EventsAreInOrder'
<1>1. /\ w \in Threads /\ o \in ios /\ ios' = ios \ {o} /\ o.kind = "Connect"
      /\ o.host \in Hosts /\ o.id \in Ids
      /\ hostId[o.host] = o.id /\ hostList[o.id] = o.host
  BY DEF CompleteConnect, Dequeue, Ops, IInv, TasksAreOwned, Owned
<1>2. UNCHANGED <<hostId, eventSync, lastHostId, msgQueue>>
  BY DEF CompleteConnect, poolVars, ctlVars
<1>3. callback[o.id] = "none" /\ callback \in [Ids -> Told]
  BY <1>1 DEF EventsAreInOrder, FollowsEvents, IInv, TypeOK
<1>4. CASE /\ Tell(o.host, OnConnect)
           /\ thread' = [thread EXCEPT ![w] = Issuing("Receive", o.host, o.id)]
  <2>1. callback' = [callback EXCEPT ![o.id] = "connected"]
    BY <1>1, <1>3, <1>4, ToldOfId DEF OnConnect
  <2>2. \A p \in ios' : p \in ios /\ (p.kind \in BaseKinds => p.id # o.id)
    <3>1. SUFFICES ASSUME NEW p \in ios, p # o, p.kind \in BaseKinds, p.id = o.id PROVE FALSE
      BY <1>1
    <3>2. p.host = o.host
      BY <1>1, <3>1 DEF IInv, TasksAreOwned, Owned
    <3>3. QED
      BY <1>1, <3>1, <3>2 DEF IInv, TasksAreAlone, Alike, BaseKinds
  <2>3. ASSUME NEW u \in Threads, IsIssuing(u)'
        PROVE  FollowsEvents(thread[u])'
    <3>1. thread \in [Threads -> Calls]
      BY DEF IInv, TypeOK
    <3>2. CASE u = w
      BY <1>1, <1>3, <1>4, <2>1, <3>1, <3>2 DEF FollowsEvents, Issuing
    <3>3. CASE u # w
      <4>1. thread'[u] = thread[u] /\ IsIssuing(u) /\ FollowsEvents(thread[u])
        BY <1>4, <2>3, <3>1, <3>3 DEF IsIssuing, EventsAreInOrder
      <4>2. thread[u].kind \in BaseKinds => thread[u].id # o.id
        <5>1. SUFFICES ASSUME thread[u].kind \in BaseKinds, thread[u].id = o.id PROVE FALSE
          OBVIOUS
        <5>2. thread[u].host = o.host
          BY <1>1, <4>1, <5>1 DEF IInv, TasksAreOwned, Owned
        <5>3. QED
          BY <1>1, <4>1, <5>1, <5>2 DEF IInv, TasksAreAlone, Alike, BaseKinds
      <4>3. thread[u].id \in Ids
        BY <4>1, CallType DEF IInv, IsIssuing
      <4>4. QED
        BY <1>3, <2>1, <4>1, <4>2, <4>3 DEF FollowsEvents, BaseKinds
    <3>4. QED
      BY <3>2, <3>3
  <2>4. \A k \in 1 .. Len(msgQueue) : msgQueue[k].host # NoHost => msgQueue[k].id # o.id
    BY <1>1, ListedIsNotQueued
  <2>5. "connected" \in Told \ {"broken"}
    BY DEF Told
  <2>6. \A k \in 1 .. Len(msgQueue') : msgQueue'[k].host # NoHost =>
          \E n \in 1 .. Len(msgQueue) :
              /\ msgQueue[n].host # NoHost /\ msgQueue[n].id = msgQueue'[k].id
              /\ msgQueue[n].id # o.id
    BY <1>2, <2>4
  <2>7. UNCHANGED <<hostId, eventSync>> /\ lastHostId' = lastHostId
    BY <1>2
  <2>8. \A u \in Threads : IsIssuing(u)' => FollowsEvents(thread[u])'
    BY <2>3
  <2>9. NoOtherUse(o.id)
    BY <2>2, <2>6, <2>8 DEF NoOtherUse
  <2>10. QED
    BY <1>1, <2>1, <2>5, <2>7, <2>9, HostTold
<1>5. CASE FailBaseTask(w, o.host, o.id, "ConnectFailed") /\ UNCHANGED callback
  <2>1. PICK c : c.pc # "issue" /\ thread' = [thread EXCEPT ![w] = c]
    BY <1>5 DEF FailBaseTask, Closing
  <2>2. \A u \in Threads : IsIssuing(u)' => FollowsEvents(thread[u])'
    BY <1>1, <1>5, <2>1, CallsFollow DEF IInv
  <2>3. QED
    BY <1>1, <1>2, <1>5, <2>2, NothingTold
<1>6. QED
  BY <1>4, <1>5 DEF CompleteConnect

\* Sending raises no event.
LEMMA SendingKeepsEvents ==
    ASSUME IInv, EventsAreInOrder, NEW w \in Workers, NEW o \in Ops,
           ProcessEncrypt(w, o) \/ ProcessSend(w, o)
    PROVE  EventsAreInOrder'
<1>1. /\ w \in Threads /\ ios' \subseteq ios
      /\ UNCHANGED <<hostId, eventSync, callback, lastHostId, msgQueue>>
  BY DEF ProcessEncrypt, ProcessSend, Dequeue, hostVars, poolVars, ctlVars, appVars
<1>2. thread \in [Threads -> Calls]
  BY DEF IInv, TypeOK
<1>3. PICK c : (c.pc = "issue" => FollowsEvents(c)) /\ thread' = [thread EXCEPT ![w] = c]
  <2>1. CASE thread' = [thread EXCEPT ![w] = Issuing("Send", o.host, o.id)]
    <3>1. FollowsEvents(Issuing("Send", o.host, o.id))
      BY DEF FollowsEvents, Issuing
    <3>2. QED
      BY <2>1, <3>1
  <2>2. CASE thread' = [thread EXCEPT ![w] = Closing("close", o.host, o.id, "FailedToSendTask")]
    BY <2>2 DEF Closing
  <2>3. CASE UNCHANGED thread /\ thread[w] = Idle
    <3>1. thread' = [thread EXCEPT ![w] = Idle]
      BY <1>1, <1>2, <2>3
    <3>2. QED
      BY <3>1 DEF Idle
  <2>4. QED
    BY <2>1, <2>2, <2>3 DEF ProcessEncrypt, ProcessSend, FailSendTask, Dequeue
<1>4. \A u \in Threads : IsIssuing(u)' => FollowsEvents(thread[u])'
  BY <1>1, <1>3, CallsFollow DEF IInv
<1>5. QED
  BY <1>1, <1>4, NothingTold

\* A turn of the controller that finds a live host, or no message, tells nothing.
LEMMA QuietTurnKeepsEvents ==
    ASSUME IInv, EventsAreInOrder, PopNothing \/ \E i \in Ids : UpdateAlive(i)
    PROVE  EventsAreInOrder'
<1>1. /\ UNCHANGED <<hostId, eventSync, callback, lastHostId, msgQueue>>
      /\ thread[Ctl] = Idle /\ Ctl \in Threads /\ thread \in [Threads -> Calls]
  BY DEF PopNothing, UpdateAlive, Update, hostVars, poolVars, appVars, IInv, TypeOK
<1>2. \A o \in ios' : o \in ios \/ FollowsEvents(o)
  BY DEF PopNothing, UpdateAlive, kernelVars, FollowsEvents, Op
<1>3. PICK c : c.pc # "issue" /\ thread' = [thread EXCEPT ![Ctl] = c]
  <2>1. CASE UNCHANGED thread
    <3>1. thread' = [thread EXCEPT ![Ctl] = Idle]
      BY <1>1, <2>1
    <3>2. QED
      BY <3>1 DEF Idle
  <2>2. CASE \E i \in Ids :
               thread' = [thread EXCEPT ![Ctl] = Closing("close", hostList[i], i, "FailedToSendTask")]
    BY <2>2 DEF Closing
  <2>3. QED
    BY <2>1, <2>2 DEF PopNothing, UpdateAlive
<1>4. \A u \in Threads : IsIssuing(u)' => FollowsEvents(thread[u])'
  BY <1>1, <1>3, CallsFollow DEF IInv
<1>5. QED
  BY <1>1, <1>2, <1>4, NothingTold

\* A sender that queues its packet or closes the host tells nothing.
LEMMA WaitingKeepsEvents ==
    ASSUME IInv, EventsAreInOrder, Waiting
    PROVE  EventsAreInOrder'
<1>1. UNCHANGED <<hostId, eventSync, callback, lastHostId, msgQueue, ios>>
  BY DEF Waiting, hostVars, poolVars, ctlVars, kernelVars, appVars
<1>2. PICK c : c.pc # "issue" /\ thread' = [thread EXCEPT ![App] = c]
  BY DEF Waiting, Closing, Idle
<1>3. \A u \in Threads : IsIssuing(u)' => FollowsEvents(thread[u])'
  BY <1>1, <1>2, CallsFollow DEF IInv
<1>4. QED
  BY <1>1, <1>3, NothingTold

\* A host without a task and without a socket reports its end, once: its ID names
\* nothing afterwards.
LEMMA UpdateDeadKeepsEvents ==
    ASSUME IInv, EventsAreInOrder, NEW i \in Ids, UpdateDead(i)
    PROVE  EventsAreInOrder'
<1> DEFINE h == hostList[i]
<1>1. h \in Hosts /\ h # NoHost /\ hostId[h] = i
  BY UpdatedHost DEF UpdateDead
<1>2. baseTask[h] = 0
  <2>1. baseTask \in [Hosts -> 0 .. 1]
    BY DEF IInv, TypeOK
  <2>2. QED
    BY <1>1, <2>1 DEF UpdateDead, IsAlive
<1>3. PICK s \in Told \ {"broken"} : callback' = [callback EXCEPT ![i] = s]
  <2>1. callback[i] \in {"none", "connected"}
    BY <1>1, ToldOfId
  <2>2. /\ OnClose(callback[i]) \in Told \ {"broken"}
        /\ OnConnectedFailed(callback[i]) \in Told \ {"broken"}
    BY <2>1 DEF OnClose, OnConnectedFailed, Told
  <2>3. Tell(h, OnClose) \/ Tell(h, OnConnectedFailed)
    BY DEF UpdateDead
  <2>4. QED
    BY <1>1, <2>2, <2>3, ToldOfId
<1>4. /\ hostId' = [hostId EXCEPT ![h] = 0] /\ eventSync' = [eventSync EXCEPT ![h] = FALSE]
      /\ lastHostId' = lastHostId
      /\ UNCHANGED <<ios, thread, msgQueue>>
  BY DEF UpdateDead, ReleaseHost, kernelVars
<1>5. \A o \in ios : o.kind \in BaseKinds => o.id # i
  BY <1>2 DEF IInv, TasksAreOwned, Owned
<1>6. \A u \in Threads : IsIssuing(u)' => FollowsEvents(thread[u])'
  <2>1. SUFFICES ASSUME NEW u \in Threads, IsIssuing(u) PROVE FollowsEvents(thread[u])'
    BY <1>4 DEF IsIssuing
  <2>2. thread[u].kind \in BaseKinds => thread[u].id # i
    BY <1>2, <2>1 DEF IInv, TasksAreOwned, Owned
  <2>3. callback \in [Ids -> Told] /\ thread[u].id \in Ids
    BY <2>1, CallType DEF IInv, TypeOK, IsIssuing
  <2>4. QED
    BY <1>3, <1>4, <2>1, <2>2, <2>3 DEF EventsAreInOrder, FollowsEvents, BaseKinds
<1>7. \A k \in 1 .. Len(msgQueue) : msgQueue[k].host # NoHost => msgQueue[k].id # i
  BY <1>1, ListedIsNotQueued
<1>8. NoOtherUse(i)
  BY <1>4, <1>5, <1>6, <1>7 DEF NoOtherUse
<1>9. QED
  BY <1>1, <1>3, <1>4, <1>8, HostTold

\* The requests that are left were queued before, under other IDs than the one taken.
LEMMA LeftInQueue ==
    ASSUME IInv, NEW type, type # "Close", Pop(type)
    PROVE  \A k \in 1 .. Len(msgQueue') : msgQueue'[k].host # NoHost =>
               \E n \in 1 .. Len(msgQueue) :
                   /\ msgQueue[n].host # NoHost /\ msgQueue[n].id = msgQueue'[k].id
                   /\ msgQueue[n].id # Head(msgQueue).id
<1>1. TAKE k \in 1 .. Len(msgQueue')
<1>2. k + 1 \in 1 .. Len(msgQueue) /\ msgQueue'[k] = msgQueue[k + 1]
  BY PoppedMessage
<1>3. msgQueue'[k].host # NoHost => msgQueue'[k].id # Head(msgQueue).id
  BY PoppedMessage
<1>4. QED
  BY <1>2, <1>3

\* The ID at the head of the queue has been told nothing.
LEMMA HeadIsNew ==
    ASSUME IInv, EventsAreInOrder, NEW type, type # "Close", Pop(type)
    PROVE  callback[Head(msgQueue).id] = "none"
<1>1. msgQueue \in Seq(Msgs) /\ msgQueue # <<>> /\ Head(msgQueue).host \in Hosts
  BY PoppedMessage DEF IInv, TypeOK, Pop
<1>2. 1 \in 1 .. Len(msgQueue) /\ Head(msgQueue) = msgQueue[1]
  BY <1>1, EmptySeq
<1>3. QED
  BY <1>1, <1>2 DEF EventsAreInOrder

\* The thread of the controller after _AddHost failed issues nothing.
LEMMA FailedAddTellsNothing ==
    ASSUME IInv, EventsAreInOrder, NEW type, type # "Close", Pop(type),
           AddHostFails(Head(msgQueue).host, Head(msgQueue).id),
           UNCHANGED <<hostId, eventSync, callback, lastHostId, ios>>
    PROVE  EventsAreInOrder'
<1>1. /\ Head(msgQueue).host \in Hosts /\ Head(msgQueue).id \in Ids
      /\ thread[Ctl] = Idle /\ Ctl \in Threads
  BY PoppedMessage
<1>2. PICK c \in Calls : c.pc # "issue" /\ thread' = [thread EXCEPT ![Ctl] = c]
  BY <1>1, FailedAddHost
<1>3. \A u \in Threads : IsIssuing(u)' => FollowsEvents(thread[u])'
  BY <1>1, <1>2, CallsFollow DEF IInv
<1>4. QED
  BY <1>3, LeftInQueue, NothingTold

\* A connector starts to connect before anything is told of it.
LEMMA ProcessConnectKeepsEvents ==
    ASSUME IInv, EventsAreInOrder, ProcessConnect
    PROVE  EventsAreInOrder'
<1> DEFINE h == Head(msgQueue).host
           i == Head(msgQueue).id
<1>1. /\ Pop("Connect") /\ Ctl \in Threads
      /\ UNCHANGED <<hostId, eventSync, callback, lastHostId, ios>>
  BY DEF ProcessConnect, poolVars, appVars
<1>2. CASE AddHostFails(h, i)
  BY <1>1, <1>2, FailedAddTellsNothing
<1>3. CASE thread' = [thread EXCEPT ![Ctl] = Issuing("Connect", h, i)]
  <2>1. FollowsEvents(Issuing("Connect", h, i))
    BY <1>1, HeadIsNew DEF FollowsEvents, Issuing
  <2>2. \A u \in Threads : IsIssuing(u)' => FollowsEvents(thread[u])'
    BY <1>1, <1>3, <2>1, CallsFollow DEF IInv
  <2>3. QED
    BY <1>1, <2>2, LeftInQueue, NothingTold
<1>4. QED
  BY <1>2, <1>3 DEF ProcessConnect

\* An accepted host is reported before its first receive is issued.
LEMMA ProcessJoinKeepsEvents ==
    ASSUME IInv, EventsAreInOrder, ProcessJoin
    PROVE  EventsAreInOrder'
<1> DEFINE h == Head(msgQueue).host
           i == Head(msgQueue).id
<1>1. /\ Pop("Join") /\ Ctl \in Threads /\ h \in Hosts /\ i \in Ids
      /\ hostId[h] = i /\ hostList[i] = NoHost
      /\ UNCHANGED <<hostId, eventSync, lastHostId, ios>>
  BY PoppedMessage DEF ProcessJoin, poolVars
<1>2. CASE AddHostFails(h, i) /\ UNCHANGED callback
  BY <1>1, <1>2, FailedAddTellsNothing
<1>3. CASE /\ Tell(h, OnConnect)
           /\ thread' = [thread EXCEPT ![Ctl] = Issuing("Receive", h, i)]
  <2>1. callback[i] = "none" /\ callback \in [Ids -> Told]
    BY <1>1, HeadIsNew DEF IInv, TypeOK
  <2>2. callback' = [callback EXCEPT ![i] = "connected"]
    BY <1>1, <1>3, <2>1, ToldOfId DEF OnConnect
  <2>3. \A o \in ios' : o \in ios /\ (o.kind \in BaseKinds => o.id # i)
    <3>1. \A o \in ios : o.host \in Hosts /\ hostList[o.id] = o.host
      BY DEF IInv, TypeOK, Ops, TasksAreOwned, Owned
    <3>2. QED
      BY <1>1, <3>1
  <2>4. \A u \in Threads : IsIssuing(u)' => FollowsEvents(thread[u])'
    <3>1. SUFFICES ASSUME NEW u \in Threads, IsIssuing(u)' PROVE FollowsEvents(thread[u])'
      OBVIOUS
    <3>2. thread \in [Threads -> Calls]
      BY DEF IInv, TypeOK
    <3>3. CASE u = Ctl
      BY <1>1, <1>3, <2>1, <2>2, <3>2, <3>3 DEF FollowsEvents, Issuing
    <3>4. CASE u # Ctl
      <4>1. thread'[u] = thread[u] /\ IsIssuing(u) /\ FollowsEvents(thread[u])
        BY <1>3, <3>1, <3>2, <3>4 DEF IsIssuing, EventsAreInOrder
      <4>2. thread[u].id \in Ids /\ thread[u].host \in Hosts /\ hostList[thread[u].id] = thread[u].host
        BY <4>1, CallType DEF IInv, IsIssuing, TasksAreOwned, Owned
      <4>3. thread[u].id # i
        BY <1>1, <4>2
      <4>4. QED
        BY <2>1, <2>2, <4>1, <4>2, <4>3 DEF FollowsEvents
    <3>5. QED
      BY <3>3, <3>4
  <2>5. NoOtherUse(i)
    BY <1>1, <2>3, <2>4, LeftInQueue DEF NoOtherUse
  <2>6. "connected" \in Told \ {"broken"}
    BY DEF Told
  <2>7. QED
    BY <1>1, <2>2, <2>5, <2>6, HostTold
<1>4. QED
  BY <1>2, <1>3 DEF ProcessJoin

\* A close request only starts the close: the end is reported by a later sweep.
LEMMA ProcessCloseKeepsEvents ==
    ASSUME IInv, EventsAreInOrder, ProcessClose
    PROVE  EventsAreInOrder'
<1>1. /\ Pop("Close") /\ Ctl \in Threads /\ thread[Ctl] = Idle /\ thread \in [Threads -> Calls]
      /\ UNCHANGED <<hostId, eventSync, callback, lastHostId, ios>>
  BY PoppedMessage DEF ProcessClose, hostVars, poolVars, kernelVars, appVars, IInv, TypeOK
<1>2. PICK c : c.pc # "issue" /\ thread' = [thread EXCEPT ![Ctl] = c]
  <2>1. CASE UNCHANGED thread
    <3>1. thread' = [thread EXCEPT ![Ctl] = Idle]
      BY <1>1, <2>1
    <3>2. QED
      BY <3>1 DEF Idle
  <2>2. CASE \E h, i : thread' = [thread EXCEPT ![Ctl] = Closing("close", h, i, "ProcessClose")]
    BY <2>2 DEF Closing
  <2>3. QED
    BY <2>1, <2>2 DEF ProcessClose
<1>3. \A u \in Threads : IsIssuing(u)' => FollowsEvents(thread[u])'
  BY <1>1, <1>2, CallsFollow DEF IInv
<1>4. \A k \in 1 .. Len(msgQueue') : k + 1 \in 1 .. Len(msgQueue) /\ msgQueue'[k] = msgQueue[k + 1]
  BY <1>1, PoppedMessage
<1>5. QED
  BY <1>1, <1>3, <1>4, NothingTold

\* Every step of every thread keeps the order of the events.
LEMMA NextKeepsEvents ==
    ASSUME IInv, EventsAreInOrder, [Next]_vars
    PROVE  EventsAreInOrder'
<1>1. CASE UNCHANGED vars
  BY <1>1 DEF EventsAreInOrder, CallbackOrder, FollowsEvents, IsIssuing,
     vars, hostVars, poolVars, ctlVars, kernelVars, appVars
<1>2. CASE Requests
  BY <1>2, RequestsKeepEvents
<1>3. CASE Controller
  BY <1>3, QuietTurnKeepsEvents, UpdateDeadKeepsEvents, ProcessConnectKeepsEvents,
     ProcessJoinKeepsEvents, ProcessCloseKeepsEvents DEF Controller
<1>4. ASSUME NEW w \in Workers, NEW o \in Ops, Complete(w, o) PROVE EventsAreInOrder'
  BY <1>4, ProcessReceiveKeepsEvents, CompleteConnectKeepsEvents, SendingKeepsEvents DEF Complete
<1>5. ASSUME NEW t \in Threads, Continue(t) PROVE EventsAreInOrder'
  BY <1>5, CloseKeepsEvents, IssueKeepsEvents DEF Continue
<1>6. CASE Waiting
  BY <1>6, WaitingKeepsEvents
<1>7. QED
  BY <1>1, <1>2, <1>3, <1>4, <1>5, <1>6 DEF Next

\* Services see each host ID connect, receive and close in this order: a receive is
\* issued only after OnConnect, and the end is reported only when no task is left.
THEOREM CallbacksInOrder == Spec => []CallbackOrder
<1>1. IInv /\ EventsAreInOrder /\ [Next]_vars => EventsAreInOrder'
  BY NextKeepsEvents
<1>2. EventsAreInOrder => CallbackOrder
  BY DEF EventsAreInOrder
<1>3. QED
  BY InitEvents, LifecycleInvariant, <1>1, <1>2, PTL DEF Spec

-----------------------------------------------------------------------------
(* The connectors GetConnectorHostID may return *)

\* Nobody asked for anything at the start.
LEMMA InitCloses == Init => ClosesAreQueued
BY DEF Init, ClosesAreQueued

\* A step outside the queue and the lists changes no close request.
LEMMA QueueUntouched ==
    ASSUME ClosesAreQueued, UNCHANGED <<asked, lastHostId, msgQueue, connectorList, hostList>>
    PROVE  ClosesAreQueued'
BY DEF ClosesAreQueued, ClosedBehind

\* An appended request stands behind all others: no promise of the queue is lost.
LEMMA AppendedBehind ==
    ASSUME msgQueue \in Seq(Msgs), NEW m, msgQueue' = Append(msgQueue, m)
    PROVE  /\ \A k \in 1 .. Len(msgQueue) : msgQueue'[k] = msgQueue[k]
           /\ \A k \in 1 .. Len(msgQueue') : k \in 1 .. Len(msgQueue) \/ msgQueue'[k] = m
           /\ \A k \in Nat, i \in Ids : ClosedBehind(k, i) => ClosedBehind(k, i)'
           /\ \A i \in Ids : m = Msg("Close", NoHost, i) =>
                 \A k \in 0 .. Len(msgQueue) : ClosedBehind(k, i)'
<1>1. Len(msgQueue) \in Nat /\ Len(msgQueue') = Len(msgQueue) + 1
  OBVIOUS
<1>2. \A k \in 1 .. Len(msgQueue) : msgQueue'[k] = msgQueue[k]
  OBVIOUS
<1>3. msgQueue'[Len(msgQueue) + 1] = m
  OBVIOUS
<1>4. \A k \in 1 .. Len(msgQueue') : k \in 1 .. Len(msgQueue) \/ msgQueue'[k] = m
  BY <1>1, <1>3
<1>5. \A k \in Nat, i \in Ids : ClosedBehind(k, i) => ClosedBehind(k, i)'
  BY <1>1, <1>2 DEF ClosedBehind
<1>6. ASSUME NEW i \in Ids, m = Msg("Close", NoHost, i), NEW k \in 0 .. Len(msgQueue)
      PROVE  ClosedBehind(k, i)'
  <2>1. Len(msgQueue) + 1 \in 1 .. Len(msgQueue') /\ Len(msgQueue) + 1 > k
    BY <1>1
  <2>2. QED
    BY <1>3, <1>6, <2>1 DEF ClosedBehind
<1>7. QED
  BY <1>2, <1>4, <1>5, <1>6

\* A new ID is one nobody can have asked to close.
LEMMA AllocateKeepsCloses ==
    ASSUME IInv, ClosesAreQueued, NEW h \in Hosts, NEW type, Allocate(h),
           msgQueue' = Append(msgQueue, Msg(type, h, lastHostId + 1)),
           UNCHANGED <<asked, connectorList, hostList>>
    PROVE  ClosesAreQueued'
<1>1. /\ msgQueue \in Seq(Msgs) /\ lastHostId \in Nat /\ lastHostId' = lastHostId + 1
      /\ asked \subseteq Ids /\ connectorList \subseteq Ids
  BY DEF Allocate, IInv, TypeOK
<1>2. \A i \in asked' : i <= lastHostId' /\ i # lastHostId + 1
  <2>1. \A i \in asked : i <= lastHostId
    BY DEF ClosesAreQueued
  <2>2. \A i \in asked : i \in Nat
    BY <1>1
  <2>3. asked' = asked /\ lastHostId \in Nat /\ lastHostId' = lastHostId + 1
    BY <1>1
  <2>4. QED
    BY <2>1, <2>2, <2>3
<1>3. ASSUME NEW k \in 1 .. Len(msgQueue'), msgQueue'[k].host # NoHost, msgQueue'[k].id \in asked'
      PROVE  ClosedBehind(k, msgQueue[k].id)'
  <2>1. k \in 1 .. Len(msgQueue) /\ msgQueue'[k] = msgQueue[k]
    BY <1>1, <1>2, <1>3, AppendedBehind DEF Msg
  <2>2. msgQueue[k].id \in Ids /\ k \in Nat
    BY <2>1, MsgType DEF IInv
  <2>3. ClosedBehind(k, msgQueue[k].id)
    BY <1>3, <2>1 DEF ClosesAreQueued
  <2>4. ClosedBehind(k, msgQueue[k].id)'
    <3>1. \A j \in Ids : ClosedBehind(k, j) => ClosedBehind(k, j)'
      BY <1>1, <2>2, AppendedBehind
    <3>2. QED
      BY <2>1, <2>2, <2>3, <3>1 DEF ClosedBehind
  <2>5. QED
    BY <2>4
<1>4. \A i \in connectorList' : hostList'[i] # NoHost /\ (i \in asked' => ClosedBehind(0, i)')
  BY <1>1, AppendedBehind DEF ClosesAreQueued
<1>5. QED
  BY <1>2, <1>3, <1>4 DEF ClosesAreQueued, ClosedBehind

\* A close request is queued behind the request that brought its host.
LEMMA CloseRequestKeepsCloses ==
    ASSUME IInv, ClosesAreQueued, NEW i \in Ids, Close(i)
    PROVE  ClosesAreQueued'
<1>1. /\ msgQueue \in Seq(Msgs) /\ msgQueue' = Append(msgQueue, Msg("Close", NoHost, i))
      /\ asked' = asked \cup {i} /\ i <= lastHostId
      /\ UNCHANGED <<lastHostId, connectorList, hostList>>
      /\ connectorList \subseteq Ids
  BY DEF Close, poolVars, IInv, TypeOK
<1>2. ASSUME NEW k \in 1 .. Len(msgQueue'), msgQueue'[k].host # NoHost, msgQueue'[k].id \in asked'
      PROVE  ClosedBehind(k, msgQueue[k].id)'
  <2>1. k \in 1 .. Len(msgQueue) /\ msgQueue'[k] = msgQueue[k]
    BY <1>1, <1>2, AppendedBehind DEF Msg
  <2>2. msgQueue[k].id \in Ids /\ k \in Nat /\ k \in 0 .. Len(msgQueue)
    BY <2>1, MsgType DEF IInv
  <2>3. \E j \in Ids : j = msgQueue[k].id /\ ClosedBehind(k, j)'
    <3>1. CASE msgQueue[k].id = i
      BY <1>1, <2>2, <3>1, AppendedBehind
    <3>2. CASE msgQueue[k].id # i
      <4>1. ClosedBehind(k, msgQueue[k].id)
        BY <1>1, <1>2, <2>1, <3>2 DEF ClosesAreQueued
      <4>2. \A j \in Ids : ClosedBehind(k, j) => ClosedBehind(k, j)'
        BY <1>1, <2>2, AppendedBehind
      <4>3. QED
        BY <2>2, <4>1, <4>2
    <3>3. QED
      BY <3>1, <3>2
  <2>4. QED
    BY <2>1, <2>3 DEF ClosedBehind
<1>3. ASSUME NEW j \in connectorList'
      PROVE  hostList'[j] # NoHost /\ (j \in asked' => ClosedBehind(0, j)')
  <2>1. j \in connectorList /\ j \in Ids /\ hostList'[j] # NoHost
    BY <1>1, <1>3 DEF ClosesAreQueued
  <2>2. CASE j = i
    <3>1. 0 \in 0 .. Len(msgQueue)
      BY <1>1
    <3>2. QED
      BY <1>1, <2>1, <2>2, <3>1, AppendedBehind
  <2>3. CASE j # i
    BY <1>1, <2>1, <2>3, AppendedBehind DEF ClosesAreQueued
  <2>4. QED
    BY <2>2, <2>3
<1>4. QED
  BY <1>1, <1>2, <1>3 DEF ClosesAreQueued, ClosedBehind

\* Taking the first request moves the others one place up.
LEMMA PoppedBehind ==
    ASSUME IInv, NEW type, Pop(type)
    PROVE  /\ \A k \in Nat, i \in Ids : ClosedBehind(k + 1, i) => ClosedBehind(k, i)'
           /\ \A i \in Ids : Head(msgQueue) # Msg("Close", NoHost, i) =>
                 (ClosedBehind(0, i) => ClosedBehind(0, i)')
<1>1. /\ msgQueue \in Seq(Msgs) /\ msgQueue # <<>> /\ msgQueue' = Tail(msgQueue)
  BY DEF Pop, IInv, TypeOK
<1>2. /\ Len(msgQueue) \in Nat /\ Len(msgQueue) # 0 /\ Head(msgQueue) = msgQueue[1]
      /\ Len(msgQueue') = Len(msgQueue) - 1
      /\ \A n \in 1 .. Len(msgQueue') : msgQueue'[n] = msgQueue[n + 1]
  BY <1>1, EmptySeq
<1>3. \A n \in 2 .. Len(msgQueue) :
        n - 1 \in 1 .. Len(msgQueue') /\ msgQueue'[n - 1] = msgQueue[n]
  BY <1>2
<1>4. ASSUME NEW k \in Nat, NEW i \in Ids, ClosedBehind(k + 1, i)
      PROVE  ClosedBehind(k, i)'
  <2>1. PICK n \in 1 .. Len(msgQueue) : n > k + 1 /\ msgQueue[n] = Msg("Close", NoHost, i)
    BY <1>4 DEF ClosedBehind
  <2>2. n \in 2 .. Len(msgQueue) /\ n - 1 > k
    BY <1>2, <2>1
  <2>3. QED
    BY <1>3, <2>1, <2>2 DEF ClosedBehind
<1>5. ASSUME NEW i \in Ids, Head(msgQueue) # Msg("Close", NoHost, i), ClosedBehind(0, i)
      PROVE  ClosedBehind(0, i)'
  <2>1. PICK n \in 1 .. Len(msgQueue) : msgQueue[n] = Msg("Close", NoHost, i)
    BY <1>5 DEF ClosedBehind
  <2>2. n \in 2 .. Len(msgQueue) /\ n - 1 > 0
    BY <1>2, <1>5, <2>1
  <2>3. QED
    BY <1>3, <2>1, <2>2 DEF ClosedBehind
<1>6. QED
  BY <1>4, <1>5

\* The hosts still queued keep their close requests behind them.
LEMMA QueueKeepsCloses ==
    ASSUME IInv, ClosesAreQueued, NEW type, Pop(type), UNCHANGED asked,
           NEW k \in 1 .. Len(msgQueue'), msgQueue'[k].host # NoHost, msgQueue'[k].id \in asked
    PROVE  ClosedBehind(k, msgQueue[k].id)'
<1>1. k \in Nat /\ k + 1 \in 1 .. Len(msgQueue) /\ msgQueue'[k] = msgQueue[k + 1]
  BY PoppedMessage
<1>2. ClosedBehind(k + 1, msgQueue[k + 1].id) /\ msgQueue[k + 1].id \in Ids
  BY <1>1, MsgType DEF ClosesAreQueued, IInv
<1>3. \A i \in Ids : ClosedBehind(k + 1, i) => ClosedBehind(k, i)'
  BY <1>1, PoppedBehind
<1>4. QED
  BY <1>1, <1>2, <1>3 DEF ClosedBehind

\* A host enters the lists while the request that closes it, if any, is still queued.
LEMMA ListingKeepsCloses ==
    ASSUME IInv, ClosesAreQueued, ProcessConnect \/ ProcessJoin
    PROVE  ClosesAreQueued'
<1> DEFINE h == Head(msgQueue).host
           i == Head(msgQueue).id
<1>1. PICK type : type # "Close" /\ Pop(type)
  BY DEF ProcessConnect, ProcessJoin
<1>2. /\ h \in Hosts /\ i \in Ids /\ hostList' = [hostList EXCEPT ![i] = h]
      /\ connectorList' \subseteq connectorList \cup {i}
      /\ UNCHANGED <<asked, lastHostId>>
      /\ connectorList \subseteq Ids /\ hostList \in [Ids -> Hosts \cup {NoHost}]
  <2>1. h \in Hosts /\ i \in Ids
    BY <1>1, PoppedMessage
  <2>2. /\ AddHost(h, i) \/ AddHostFails(h, i)
        /\ connectorList' \subseteq connectorList \cup {i}
        /\ UNCHANGED <<asked, lastHostId>>
    BY DEF ProcessConnect, ProcessJoin, poolVars, appVars
  <2>3. QED
    BY <2>1, <2>2, AddedHost DEF IInv, TypeOK
<1>3. \A k \in 1 .. Len(msgQueue') :
        msgQueue'[k].host # NoHost /\ msgQueue'[k].id \in asked' => ClosedBehind(k, msgQueue[k].id)'
  BY <1>1, <1>2, QueueKeepsCloses
<1>4. i \in asked => ClosedBehind(0, i)
  <2>1. msgQueue \in Seq(Msgs) /\ msgQueue # <<>>
    BY <1>1 DEF Pop, IInv, TypeOK
  <2>2. 1 \in 1 .. Len(msgQueue) /\ Head(msgQueue) = msgQueue[1]
    BY <2>1, EmptySeq
  <2>3. i \in asked => ClosedBehind(1, i)
    BY <1>2, <2>2 DEF ClosesAreQueued
  <2>4. QED
    BY <2>3 DEF ClosedBehind
<1>5. ASSUME NEW j \in connectorList'
      PROVE  hostList'[j] # NoHost /\ (j \in asked' => ClosedBehind(0, j)')
  <2>1. j \in Ids /\ hostList'[j] # NoHost /\ (j \in asked => ClosedBehind(0, j))
    BY <1>2, <1>4, <1>5 DEF ClosesAreQueued
  <2>2. Head(msgQueue) # Msg("Close", NoHost, j)
    BY <1>2 DEF Msg
  <2>3. QED
    BY <1>1, <1>2, <2>1, <2>2, PoppedBehind
<1>6. QED
  BY <1>2, <1>3, <1>5 DEF ClosesAreQueued

\* The request taken from the queue removes its ID from the connectors in the same step.
LEMMA ProcessCloseKeepsCloses ==
    ASSUME IInv, ClosesAreQueued, ProcessClose
    PROVE  ClosesAreQueued'
<1> DEFINE i == Head(msgQueue).id
<1>1. /\ Pop("Close") /\ connectorList' = connectorList \ {i}
      /\ UNCHANGED <<asked, lastHostId, hostList>>
      /\ connectorList \subseteq Ids
  BY DEF ProcessClose, poolVars, appVars, IInv, TypeOK
<1>2. \A k \in 1 .. Len(msgQueue') :
        msgQueue'[k].host # NoHost /\ msgQueue'[k].id \in asked' => ClosedBehind(k, msgQueue[k].id)'
  BY <1>1, QueueKeepsCloses
<1>3. ASSUME NEW j \in connectorList'
      PROVE  hostList'[j] # NoHost /\ (j \in asked' => ClosedBehind(0, j)')
  <2>1. j \in Ids /\ j # i /\ hostList'[j] # NoHost /\ (j \in asked => ClosedBehind(0, j))
    BY <1>1, <1>3 DEF ClosesAreQueued
  <2>2. Head(msgQueue) # Msg("Close", NoHost, j)
    BY <2>1 DEF Msg
  <2>3. QED
    BY <1>1, <2>1, <2>2, PoppedBehind
<1>4. QED
  BY <1>1, <1>2, <1>3 DEF ClosesAreQueued

\* A dead host leaves both lists in one step.
LEMMA UpdateDeadKeepsCloses ==
    ASSUME IInv, ClosesAreQueued, NEW i \in Ids, UpdateDead(i)
    PROVE  ClosesAreQueued'
<1>1. /\ UNCHANGED <<asked, lastHostId, msgQueue>>
      /\ connectorList' = connectorList \ {i} /\ hostList' = [hostList EXCEPT ![i] = NoHost]
      /\ connectorList \subseteq Ids /\ hostList \in [Ids -> Hosts \cup {NoHost}]
  BY DEF UpdateDead, ReleaseHost, IInv, TypeOK
<1>2. QED
  BY <1>1 DEF ClosesAreQueued, ClosedBehind

\* Only requests and the controller touch the queue and the lists.
LEMMA NextKeepsCloses ==
    ASSUME IInv, ClosesAreQueued, [Next]_vars
    PROVE  ClosesAreQueued'
<1>1. CASE UNCHANGED vars
  BY <1>1, QueueUntouched DEF vars, poolVars, ctlVars, appVars
<1>2. CASE Requests
  <2>1. ASSUME NEW h \in Hosts, Connect(h) PROVE ClosesAreQueued'
    BY <2>1, AllocateKeepsCloses DEF Connect, appVars
  <2>2. ASSUME NEW w \in Workers, NEW h \in Hosts, Join(w, h) PROVE ClosesAreQueued'
    BY <2>2, AllocateKeepsCloses DEF Join, appVars
  <2>3. ASSUME NEW i \in Ids, FindHost(i) PROVE ClosesAreQueued'
    BY <2>3, QueueUntouched DEF FindHost, poolVars, ctlVars, appVars
  <2>4. QED
    BY <1>2, <2>1, <2>2, <2>3, CloseRequestKeepsCloses DEF Requests
<1>3. CASE Controller
  <2>1. CASE PopNothing \/ \E i \in Ids : UpdateAlive(i)
    BY <2>1, QueueUntouched DEF PopNothing, UpdateAlive, poolVars, appVars
  <2>2. QED
    BY <1>3, <2>1, UpdateDeadKeepsCloses, ListingKeepsCloses, ProcessCloseKeepsCloses DEF Controller
<1>4. ASSUME NEW w \in Workers, NEW o \in Ops, Complete(w, o) PROVE ClosesAreQueued'
  BY <1>4, QueueUntouched DEF Complete, ProcessReceive, CompleteConnect, ProcessEncrypt, ProcessSend,
     poolVars, ctlVars, appVars
<1>5. ASSUME NEW t \in Threads, Continue(t) PROVE ClosesAreQueued'
  BY <1>5, QueueUntouched DEF Continue, Issue, TestSocket, CloseSocket, ClearSocket,
     poolVars, ctlVars, appVars
<1>6. CASE Waiting
  BY <1>6, QueueUntouched DEF Waiting, poolVars, ctlVars, appVars
<1>7. QED
  BY <1>1, <1>2, <1>3, <1>4, <1>5, <1>6 DEF Next

\* A service finds only connectors the controller lists, and never one whose close
\* request the controller has already taken from its queue.
THEOREM ConnectorsStayOpen == Spec => []ConnectorsAreOpen
<1>1. IInv /\ ClosesAreQueued /\ [Next]_vars => ClosesAreQueued'
  BY NextKeepsCloses
<1>2. IInv /\ ClosesAreQueued => ConnectorsAreOpen
  <2>1. TypeOK => DOMAIN msgQueue = 1 .. Len(msgQueue)
    BY DEF TypeOK
  <2>2. QED
    BY <2>1 DEF IInv, ClosesAreQueued, ClosedBehind, ConnectorsAreOpen
<1>3. QED
  BY InitCloses, LifecycleInvariant, <1>1, <1>2, PTL DEF Spec

-----------------------------------------------------------------------------
(* What a step does to the IDs: it hands one out, lists one, retires one, or      *)
(* leaves all where they are.  NoHostLeaks and the refinement of Connection       *)
(* follow from this alone.                                                       *)

\* A request for host h under ID i waits for the controller.
AsksFor(h, i) == \E k \in 1 .. Len(msgQueue) : msgQueue[k].host = h /\ msgQueue[k].id = i

\* The same requests as before wait for the controller.
SameRequests == \A h \in Hosts, i \in Ids : AsksFor(h, i)' <=> AsksFor(h, i)

\* No ID moves; a listed one may be told that it is connected.
Quiet ==
    /\ UNCHANGED <<hostId, hostList, active, created, freeQueue, lastHostId>>
    /\ SameRequests
    /\ \/ UNCHANGED callback
       \/ \E i \in Ids : /\ hostList[i] # NoHost /\ callback[i] = "none"
                         /\ callback' = [callback EXCEPT ![i] = "connected"]

\* Host h gets the next ID and a request.
HandsOut(h) ==
    /\ Allocate(h)
    /\ UNCHANGED <<hostList, callback>>
    /\ \A g \in Hosts, i \in Ids :
          AsksFor(g, i)' <=> AsksFor(g, i) \/ (g = h /\ i = lastHostId + 1)

\* The request of host h is taken and its ID listed.
Lists(h, i) ==
    /\ hostId[h] = i /\ AsksFor(h, i) /\ hostList[i] = NoHost /\ callback[i] = "none"
    /\ hostList' = [hostList EXCEPT ![i] = h]
    /\ callback' \in {callback, [callback EXCEPT ![i] = "connected"]}
    /\ UNCHANGED <<hostId, active, created, freeQueue, lastHostId>>
    /\ \A g \in Hosts, j \in Ids : AsksFor(g, j)' <=> AsksFor(g, j) /\ g # h

\* The end of ID i is told and its host goes back to the pool.
Retires(i) ==
    /\ hostList[i] \in Hosts /\ hostId[hostList[i]] = i
    /\ ReleaseHost(hostList[i])
    /\ hostList' = [hostList EXCEPT ![i] = NoHost]
    /\ SameRequests
    /\ \/ callback[i] = "none" /\ \E s \in {"failed", "aborted"} : callback' = [callback EXCEPT ![i] = s]
       \/ callback[i] = "connected" /\ \E s \in {"closed", "disowned"} : callback' = [callback EXCEPT ![i] = s]

\* A queue that did not change holds the same requests.
LEMMA QueueUnchanged == UNCHANGED msgQueue => SameRequests
BY DEF SameRequests, AsksFor

\* A request at the end of the queue is one more; one for no host is none.
LEMMA AppendedRequest ==
    ASSUME IInv, NEW type, NEW h, NEW i, msgQueue' = Append(msgQueue, Msg(type, h, i))
    PROVE  \A g \in Hosts, j \in Ids : AsksFor(g, j)' <=> AsksFor(g, j) \/ (g = h /\ j = i)
<1>1. msgQueue \in Seq(Msgs) /\ Len(msgQueue) \in Nat
  BY DEF IInv, TypeOK
<1>2. /\ Len(msgQueue') = Len(msgQueue) + 1
      /\ \A k \in 1 .. Len(msgQueue) : msgQueue'[k] = msgQueue[k] /\ k \in 1 .. Len(msgQueue')
      /\ msgQueue'[Len(msgQueue) + 1].host = h /\ msgQueue'[Len(msgQueue) + 1].id = i
      /\ Len(msgQueue) + 1 \in 1 .. Len(msgQueue')
  BY <1>1 DEF Msg
<1>3. \A k \in 1 .. Len(msgQueue') : k \in 1 .. Len(msgQueue) \/ k = Len(msgQueue) + 1
  BY <1>1, <1>2
<1>4. QED
  BY <1>2, <1>3 DEF AsksFor

\* The request at the head goes, the others stay.
LEMMA TakenRequest ==
    ASSUME IInv, NEW type, Pop(type)
    PROVE  /\ type = "Close" => SameRequests
           /\ type # "Close" =>
                 /\ AsksFor(Head(msgQueue).host, Head(msgQueue).id)
                 /\ \A g \in Hosts, j \in Ids :
                       AsksFor(g, j)' <=> AsksFor(g, j) /\ g # Head(msgQueue).host
<1> DEFINE m == Head(msgQueue)
<1>1. /\ msgQueue \in Seq(Msgs) /\ msgQueue # <<>> /\ msgQueue' = Tail(msgQueue)
  BY DEF Pop, IInv, TypeOK
<1>2. /\ Len(msgQueue) \in Nat /\ Len(msgQueue) # 0 /\ m = msgQueue[1]
      /\ Len(msgQueue') = Len(msgQueue) - 1 /\ 1 \in 1 .. Len(msgQueue)
      /\ \A n \in 1 .. Len(msgQueue') : msgQueue'[n] = msgQueue[n + 1]
  BY <1>1, EmptySeq
<1>3. /\ \A n \in 1 .. Len(msgQueue) : n = 1 \/ n - 1 \in 1 .. Len(msgQueue')
      /\ \A n \in 1 .. Len(msgQueue) : n # 1 => msgQueue'[n - 1] = msgQueue[n]
      /\ \A n \in 1 .. Len(msgQueue') : n + 1 \in 1 .. Len(msgQueue)
  BY <1>2
<1>4. ASSUME NEW g \in Hosts, NEW j \in Ids, AsksFor(g, j)'
      PROVE  AsksFor(g, j)
  BY <1>2, <1>3, <1>4 DEF AsksFor
<1>5. ASSUME NEW g \in Hosts, NEW j \in Ids, AsksFor(g, j), g # m.host
      PROVE  AsksFor(g, j)'
  <2>1. PICK n \in 1 .. Len(msgQueue) : msgQueue[n].host = g /\ msgQueue[n].id = j
    BY <1>5 DEF AsksFor
  <2>2. n # 1
    BY <1>2, <1>5, <2>1
  <2>3. n - 1 \in 1 .. Len(msgQueue') /\ msgQueue'[n - 1] = msgQueue[n]
    BY <1>3, <2>2
  <2>4. QED
    BY <2>1, <2>3 DEF AsksFor
<1>6. ASSUME type # "Close"
      PROVE  /\ AsksFor(m.host, m.id)
             /\ \A g \in Hosts, j \in Ids : AsksFor(g, j)' => g # m.host
  <2>1. AsksFor(m.host, m.id)
    BY <1>2 DEF AsksFor
  <2>2. \A k \in 1 .. Len(msgQueue') : msgQueue'[k].host # NoHost => msgQueue'[k].host # m.host
    BY <1>6, PoppedMessage
  <2>3. QED
    BY <2>1, <2>2 DEF AsksFor
<1>7. ASSUME type = "Close"
      PROVE  m.host = NoHost
  BY <1>2, <1>7 DEF IInv, QueuedHostsAreNew, Pop
<1>8. CASE type = "Close"
  BY <1>4, <1>5, <1>7, <1>8 DEF SameRequests
<1>9. CASE type # "Close"
  BY <1>4, <1>5, <1>6, <1>9
<1>10. QED
  BY <1>8, <1>9

\* What services and accepting workers ask for hands out an ID, or moves none.
LEMMA RequestsMoveIds ==
    ASSUME IInv, Requests
    PROVE  Quiet \/ \E h \in Hosts : HandsOut(h)
<1>1. ASSUME NEW h \in Hosts, Connect(h) PROVE HandsOut(h)
  BY <1>1, AppendedRequest DEF Connect, HandsOut, appVars
<1>2. ASSUME NEW w \in Workers, NEW h \in Hosts, Join(w, h) PROVE HandsOut(h)
  BY <1>2, AppendedRequest DEF Join, HandsOut, appVars
<1>3. ASSUME NEW i \in Ids, Close(i) PROVE Quiet
  <2>1. UNCHANGED <<hostId, hostList, active, created, freeQueue, lastHostId, callback>>
    BY <1>3 DEF Close, hostVars, poolVars
  <2>2. SameRequests
    BY <1>3, AppendedRequest DEF Close, SameRequests
  <2>3. QED
    BY <2>1, <2>2 DEF Quiet
<1>4. ASSUME NEW i \in Ids, FindHost(i) PROVE Quiet
  BY <1>4, QueueUnchanged DEF FindHost, Quiet, hostVars, poolVars, ctlVars, appVars
<1>5. QED
  BY <1>1, <1>2, <1>3, <1>4 DEF Requests

\* A completion moves no ID; a connection that is made is told of.
LEMMA CompletionsMoveNoId ==
    ASSUME IInv, EventsAreInOrder, NEW w \in Workers, NEW o \in Ops, Complete(w, o)
    PROVE  Quiet
<1>1. /\ UNCHANGED <<hostId, hostList, active, created, freeQueue, lastHostId, msgQueue>>
      /\ o \in ios
  BY DEF Complete, ProcessReceive, CompleteConnect, ProcessEncrypt, ProcessSend, Dequeue,
     hostVars, poolVars, ctlVars
<1>2. /\ o.host \in Hosts /\ o.id \in Ids /\ hostId[o.host] = o.id
      /\ hostList[o.id] = o.host /\ o.host # NoHost
      /\ callback \in [Ids -> Told]
  BY <1>1 DEF IInv, TypeOK, TasksAreOwned, Owned, Ops
<1>3. CASE ProcessReceive(w, o)
  <2>1. callback[o.id] = "connected"
    BY <1>1, <1>3 DEF ProcessReceive, EventsAreInOrder, FollowsEvents
  <2>2. Tell(o.host, OnReceive) => callback' = [callback EXCEPT ![o.id] = OnReceive(callback[o.id])]
    BY <1>2, ToldOfId
  <2>3. OnReceive(callback[o.id]) = callback[o.id]
    BY <2>1 DEF OnReceive
  <2>4. UNCHANGED callback
    BY <1>2, <1>3, <2>2, <2>3 DEF ProcessReceive
  <2>5. QED
    BY <1>1, <2>4, QueueUnchanged DEF Quiet
<1>4. CASE CompleteConnect(w, o)
  <2>1. callback[o.id] = "none"
    BY <1>1, <1>4 DEF CompleteConnect, EventsAreInOrder, FollowsEvents
  <2>2. Tell(o.host, OnConnect) => callback' = [callback EXCEPT ![o.id] = "connected"]
    BY <1>2, <2>1, ToldOfId DEF OnConnect
  <2>3. UNCHANGED callback \/ callback' = [callback EXCEPT ![o.id] = "connected"]
    BY <1>4, <2>2 DEF CompleteConnect
  <2>4. QED
    BY <1>1, <1>2, <2>1, <2>3, QueueUnchanged DEF Quiet
<1>5. CASE ProcessEncrypt(w, o) \/ ProcessSend(w, o)
  BY <1>1, <1>5, QueueUnchanged DEF ProcessEncrypt, ProcessSend, Quiet, appVars
<1>6. QED
  BY <1>3, <1>4, <1>5 DEF Complete

\* The controller lists the host at the head of its queue, whether its start fails.
LEMMA ListingMovesOneId ==
    ASSUME IInv, EventsAreInOrder, ProcessConnect \/ ProcessJoin
    PROVE  \E h \in Hosts, i \in Ids : Lists(h, i)
<1> DEFINE h == Head(msgQueue).host
           i == Head(msgQueue).id
<1>1. PICK type : type # "Close" /\ Pop(type)
  BY DEF ProcessConnect, ProcessJoin
<1>2. /\ h \in Hosts /\ i \in Ids /\ hostId[h] = i /\ hostList[i] = NoHost
      /\ callback[i] = "none"
  BY <1>1, PoppedMessage, HeadIsNew
<1>3. /\ AsksFor(h, i)
      /\ \A g \in Hosts, j \in Ids : AsksFor(g, j)' <=> AsksFor(g, j) /\ g # h
  BY <1>1, TakenRequest
<1>4. hostList' = [hostList EXCEPT ![i] = h]
  <2>1. AddHost(h, i) \/ AddHostFails(h, i)
    BY DEF ProcessConnect, ProcessJoin
  <2>2. QED
    BY <1>2, <2>1, AddedHost
<1>5. UNCHANGED <<hostId, active, created, freeQueue, lastHostId>>
  BY DEF ProcessConnect, ProcessJoin, poolVars
<1>6. callback' \in {callback, [callback EXCEPT ![i] = "connected"]}
  <2>1. Tell(h, OnConnect) => callback' = [callback EXCEPT ![i] = "connected"]
    BY <1>2, ToldOfId DEF OnConnect
  <2>2. QED
    BY <2>1 DEF ProcessConnect, ProcessJoin, appVars
<1>7. QED
  BY <1>2, <1>3, <1>4, <1>5, <1>6 DEF Lists

\* A host without a task and without a socket is told of and given back in one step.
LEMMA UpdateDeadRetires ==
    ASSUME IInv, EventsAreInOrder, NEW i \in Ids, UpdateDead(i)
    PROVE  Retires(i)
<1> DEFINE h == hostList[i]
<1>1. h \in Hosts /\ hostId[h] = i
  BY UpdatedHost DEF UpdateDead
<1>2. /\ ReleaseHost(h) /\ hostList' = [hostList EXCEPT ![i] = NoHost] /\ SameRequests
  BY QueueUnchanged DEF UpdateDead
<1>3. callback[i] \in {"none", "connected"}
  BY <1>1, ToldOfId
<1>4. \/ callback' = [callback EXCEPT ![i] = OnClose(callback[i])]
      \/ callback' = [callback EXCEPT ![i] = OnConnectedFailed(callback[i])]
  BY <1>1, ToldOfId DEF UpdateDead
<1>5. \/ callback[i] = "none" /\ \E s \in {"failed", "aborted"} : callback' = [callback EXCEPT ![i] = s]
      \/ callback[i] = "connected" /\ \E s \in {"closed", "disowned"} : callback' = [callback EXCEPT ![i] = s]
  BY <1>3, <1>4 DEF OnClose, OnConnectedFailed
<1>6. QED
  BY <1>1, <1>2, <1>5 DEF Retires

\* Every step hands out, lists or retires at most one ID.
LEMMA NextMovesIds ==
    ASSUME IInv, EventsAreInOrder, [Next]_vars
    PROVE  \/ Quiet
           \/ \E h \in Hosts : HandsOut(h)
           \/ \E h \in Hosts, i \in Ids : Lists(h, i)
           \/ \E i \in Ids : Retires(i)
<1>1. CASE UNCHANGED vars
  BY <1>1, QueueUnchanged DEF Quiet, vars, hostVars, poolVars, ctlVars, appVars
<1>2. CASE Requests
  BY <1>2, RequestsMoveIds
<1>3. CASE Controller
  <2>1. CASE PopNothing \/ \E i \in Ids : UpdateAlive(i)
    BY <2>1, QueueUnchanged DEF PopNothing, UpdateAlive, Quiet, hostVars, poolVars, appVars
  <2>2. CASE ProcessClose
    <3>1. SameRequests
      BY <2>2, TakenRequest DEF ProcessClose
    <3>2. QED
      BY <2>2, <3>1 DEF ProcessClose, Quiet, hostVars, poolVars, appVars
  <2>3. CASE ProcessConnect \/ ProcessJoin
    BY <2>3, ListingMovesOneId
  <2>4. QED
    BY <1>3, <2>1, <2>2, <2>3, UpdateDeadRetires DEF Controller
<1>4. ASSUME NEW w \in Workers, NEW o \in Ops, Complete(w, o) PROVE Quiet
  BY <1>4, CompletionsMoveNoId
<1>5. ASSUME NEW t \in Threads, Continue(t) PROVE Quiet
  BY <1>5, QueueUnchanged DEF Continue, Issue, TestSocket, CloseSocket, ClearSocket, Quiet,
     hostVars, poolVars, ctlVars, appVars
<1>6. CASE Waiting
  BY <1>6, QueueUnchanged DEF Waiting, Quiet, hostVars, poolVars, ctlVars, appVars
<1>7. QED
  BY <1>1, <1>2, <1>3, <1>4, <1>5, <1>6 DEF Next

-----------------------------------------------------------------------------
(* No host object is lost *)

\* NoHostLeaks, with the requests under their name here.
IsKept(h) ==
    IF hostId[h] = 0 THEN \E n \in 1 .. Len(freeQueue) : freeQueue[n] = h
    ELSE active[hostId[h]] = h /\ (hostList[hostId[h]] = h \/ AsksFor(h, hostId[h]))

HostsAreKept == \A h \in created : IsKept(h)

\* The two say the same: a request carries the ID its host has.
LEMMA KeptIsNotLeaked == IInv => (HostsAreKept <=> NoHostLeaks)
<1> SUFFICES ASSUME IInv PROVE HostsAreKept <=> NoHostLeaks
  OBVIOUS
<1>1. DOMAIN freeQueue = 1 .. Len(freeQueue) /\ DOMAIN msgQueue = 1 .. Len(msgQueue)
  BY DEF IInv, TypeOK
<1>2. \A h \in Hosts : AsksFor(h, hostId[h]) <=> \E k \in 1 .. Len(msgQueue) : msgQueue[k].host = h
  BY DEF AsksFor, IInv, QueuedHostsAreNew
<1>3. created \subseteq Hosts
  BY DEF IInv, TypeOK
<1>4. \A h \in created :
        IsKept(h) <=>
          IF hostId[h] = 0 THEN \E n \in DOMAIN freeQueue : freeQueue[n] = h
          ELSE /\ active[hostId[h]] = h
               /\ \/ hostList[hostId[h]] = h
                  \/ \E k \in DOMAIN msgQueue : msgQueue[k].host = h
  BY <1>1, <1>2, <1>3 DEF IsKept
<1>5. QED
  BY <1>4 DEF HostsAreKept, NoHostLeaks

\* A host that leaves the pool takes its ID and its request with it.
LEMMA HandsOutKeepsHosts ==
    ASSUME IInv, HostsAreKept, NEW h \in Hosts, HandsOut(h)
    PROVE  HostsAreKept'
<1>. PICK new \in Ids : new = lastHostId + 1
  BY DEF HandsOut, Allocate, IInv, TypeOK
<1>1. /\ created' = created \cup {h} /\ hostId' = [hostId EXCEPT ![h] = new]
      /\ active' = [active EXCEPT ![new] = h] /\ UNCHANGED hostList
      /\ hostId \in [Hosts -> Ids \cup {0}] /\ active \in [Ids -> Hosts \cup {NoHost}]
      /\ new # 0 /\ created \subseteq Hosts /\ freeQueue \in Seq(Hosts)
  BY DEF HandsOut, Allocate, IInv, TypeOK
<1>2. \A g \in Hosts : hostId[g] # new
  BY <1>1 DEF IInv, TypeOK, IdsAreConsistent
<1>3. /\ \A g \in Hosts, i \in Ids : AsksFor(g, i) => AsksFor(g, i)'
      /\ AsksFor(h, new)'
  BY <1>1 DEF HandsOut
<1>4. ASSUME NEW g \in created, g # h
      PROVE  IsKept(g)'
  <2>1. g \in Hosts /\ hostId'[g] = hostId[g] /\ IsKept(g)
    BY <1>1, <1>4 DEF HostsAreKept
  <2>2. CASE hostId[g] = 0
    <3>1. PICK n \in 1 .. Len(freeQueue) : freeQueue[n] = g
      BY <2>1, <2>2 DEF IsKept
    <3>2. CASE UNCHANGED freeQueue
      BY <2>1, <2>2, <3>1, <3>2 DEF IsKept
    <3>3. CASE freeQueue # <<>> /\ h = Head(freeQueue) /\ freeQueue' = Tail(freeQueue)
      <4>1. /\ Len(freeQueue) \in Nat /\ h = freeQueue[1] /\ Len(freeQueue') = Len(freeQueue) - 1
            /\ \A k \in 1 .. Len(freeQueue') : freeQueue'[k] = freeQueue[k + 1]
        BY <1>1, <3>3, EmptySeq
      <4>2. n # 1
        BY <1>4, <3>1, <4>1
      <4>3. n - 1 \in 1 .. Len(freeQueue') /\ (n - 1) + 1 = n
        BY <4>1, <4>2
      <4>4. freeQueue'[n - 1] = g
        BY <3>1, <4>1, <4>3
      <4>5. QED
        BY <2>1, <2>2, <4>3, <4>4 DEF IsKept
    <3>4. QED
      BY <3>2, <3>3 DEF HandsOut, Allocate
  <2>3. CASE hostId[g] # 0
    <3>1. hostId[g] \in Ids /\ hostId[g] # new
      BY <1>1, <1>2, <2>1, <2>3
    <3>2. active'[hostId[g]] = g /\ (hostList[hostId[g]] = g \/ AsksFor(g, hostId[g]))
      BY <1>1, <2>1, <2>3, <3>1 DEF IsKept
    <3>3. AsksFor(g, hostId[g]) => AsksFor(g, hostId[g])'
      <4>1. \A i \in Ids : AsksFor(g, i) => AsksFor(g, i)'
        BY <1>3, <2>1
      <4>2. QED
        BY <2>1, <3>1, <4>1 DEF AsksFor
    <3>4. QED
      BY <1>1, <2>1, <2>3, <3>2, <3>3 DEF IsKept, AsksFor
  <2>4. QED
    BY <2>2, <2>3
<1>5. IsKept(h)'
  <2>1. hostId'[h] = new /\ active'[new] = h
    BY <1>1
  <2>2. QED
    BY <1>1, <1>3, <2>1 DEF IsKept, AsksFor
<1>6. QED
  BY <1>1, <1>4, <1>5 DEF HostsAreKept

\* A host whose request is taken is listed, and the others keep theirs.
LEMMA ListsKeepsHosts ==
    ASSUME IInv, HostsAreKept, NEW h \in Hosts, NEW i \in Ids, Lists(h, i)
    PROVE  HostsAreKept'
<1>1. /\ UNCHANGED <<hostId, active, created, freeQueue>> /\ hostId[h] = i
      /\ hostList' = [hostList EXCEPT ![i] = h]
      /\ hostList \in [Ids -> Hosts \cup {NoHost}] /\ created \subseteq Hosts
      /\ hostId \in [Hosts -> Ids \cup {0}]
  BY DEF Lists, IInv, TypeOK
<1>2. ASSUME NEW g \in created
      PROVE  IsKept(g)'
  <2>1. g \in Hosts /\ IsKept(g)
    BY <1>1 DEF HostsAreKept
  <2>2. CASE hostId[g] = 0
    BY <1>1, <2>1, <2>2 DEF IsKept
  <2>3. CASE hostId[g] # 0 /\ g = h
    BY <1>1, <2>1, <2>3 DEF IsKept
  <2>4. CASE hostId[g] # 0 /\ g # h
    <3>1. hostId[g] \in Ids /\ hostId[g] # i
      BY <1>1, <2>1, <2>4 DEF IInv, IdsAreConsistent
    <3>2. AsksFor(g, hostId[g]) => AsksFor(g, hostId[g])'
      <4>1. \A j \in Ids : AsksFor(g, j) => AsksFor(g, j)'
        BY <2>1, <2>4 DEF Lists
      <4>2. QED
        BY <1>1, <3>1, <4>1 DEF AsksFor
    <3>3. QED
      BY <1>1, <2>1, <2>4, <3>1, <3>2 DEF IsKept, AsksFor
  <2>5. QED
    BY <2>2, <2>3, <2>4
<1>3. QED
  BY <1>1, <1>2 DEF HostsAreKept

\* A host that loses its ID waits in the pool; the other IDs are not touched.
LEMMA RetiresKeepsHosts ==
    ASSUME IInv, HostsAreKept, NEW i \in Ids, Retires(i)
    PROVE  HostsAreKept'
<1> DEFINE h == hostList[i]
<1>1. /\ h \in Hosts /\ hostId[h] = i /\ i # 0 /\ UNCHANGED created
      /\ hostId' = [hostId EXCEPT ![h] = 0] /\ active' = [active EXCEPT ![i] = NoHost]
      /\ hostList' = [hostList EXCEPT ![i] = NoHost] /\ freeQueue' = Append(freeQueue, h)
      /\ hostList \in [Ids -> Hosts \cup {NoHost}] /\ active \in [Ids -> Hosts \cup {NoHost}]
      /\ hostId \in [Hosts -> Ids \cup {0}] /\ created \subseteq Hosts /\ freeQueue \in Seq(Hosts)
  BY DEF Retires, ReleaseHost, IInv, TypeOK
<1>2. /\ Len(freeQueue) \in Nat /\ Len(freeQueue') = Len(freeQueue) + 1
      /\ freeQueue'[Len(freeQueue) + 1] = h
      /\ \A n \in 1 .. Len(freeQueue) : freeQueue'[n] = freeQueue[n]
  BY <1>1
<1>3. /\ Len(freeQueue) + 1 \in 1 .. Len(freeQueue')
      /\ \A n \in 1 .. Len(freeQueue) : n \in 1 .. Len(freeQueue')
  BY <1>2
<1>4. ASSUME NEW g \in created
      PROVE  IsKept(g)'
  <2>1. g \in Hosts /\ IsKept(g)
    BY <1>1 DEF HostsAreKept
  <2>2. CASE g = h
    BY <1>1, <1>2, <1>3, <2>2 DEF IsKept
  <2>3. CASE g # h /\ hostId[g] = 0
    BY <1>1, <1>2, <1>3, <2>1, <2>3 DEF IsKept
  <2>4. CASE g # h /\ hostId[g] # 0
    <3>1. hostId[g] \in Ids /\ hostId[g] # i /\ hostId'[g] = hostId[g]
      BY <1>1, <2>1, <2>4 DEF IInv, IdsAreConsistent
    <3>2. AsksFor(g, hostId[g]) => AsksFor(g, hostId[g])'
      <4>1. \A j \in Ids : AsksFor(g, j) => AsksFor(g, j)'
        BY <2>1 DEF Retires, SameRequests
      <4>2. QED
        BY <3>1, <4>1 DEF AsksFor
    <3>3. QED
      BY <1>1, <2>1, <2>4, <3>1, <3>2 DEF IsKept, AsksFor
  <2>5. QED
    BY <2>2, <2>3, <2>4
<1>5. QED
  BY <1>1, <1>4 DEF HostsAreKept

\* A step that moves no ID keeps every host where it is.
LEMMA QuietKeepsHosts ==
    ASSUME IInv, HostsAreKept, Quiet
    PROVE  HostsAreKept'
<1>1. /\ UNCHANGED <<hostId, hostList, active, created, freeQueue>>
      /\ hostId \in [Hosts -> Ids \cup {0}] /\ created \subseteq Hosts
  BY DEF Quiet, IInv, TypeOK
<1>2. ASSUME NEW g \in created
      PROVE  IsKept(g)'
  <2>1. g \in Hosts /\ IsKept(g) /\ (hostId[g] # 0 => hostId[g] \in Ids)
    BY <1>1 DEF HostsAreKept
  <2>2. hostId[g] # 0 /\ AsksFor(g, hostId[g]) => AsksFor(g, hostId[g])'
    <3>1. \A j \in Ids : AsksFor(g, j) => AsksFor(g, j)'
      BY <2>1 DEF Quiet, SameRequests
    <3>2. QED
      BY <1>1, <2>1, <3>1 DEF AsksFor
  <2>3. QED
    BY <1>1, <2>1, <2>2 DEF IsKept, AsksFor
<1>3. QED
  BY <1>1, <1>2 DEF HostsAreKept

\* No host object is lost: not by a start that fails, not by a close that comes early.
THEOREM NoHostIsLost == Spec => []NoHostLeaks
<1>1. Init => HostsAreKept
  BY DEF Init, HostsAreKept
<1>2. IInv /\ EventsAreInOrder /\ HostsAreKept /\ [Next]_vars => HostsAreKept'
  BY NextMovesIds, HandsOutKeepsHosts, ListsKeepsHosts, RetiresKeepsHosts, QuietKeepsHosts
<1>3. IInv /\ EventsAreInOrder /\ [Next]_vars => EventsAreInOrder'
  BY NextKeepsEvents
<1>4. IInv /\ HostsAreKept => NoHostLeaks
  BY KeptIsNotLeaked
<1>5. QED
  BY InitEvents, LifecycleInvariant, <1>1, <1>2, <1>3, <1>4, PTL DEF Spec

-----------------------------------------------------------------------------
(* The refinement of Connection *)

\* Where an ID is in its life, by the facts of IInv.
StageFacts ==
    \A i \in Ids :
        /\ IsRequested(i) <=> \E g \in Hosts : AsksFor(g, i)
        /\ IsRequested(i) => hostList[i] = NoHost
        /\ IsRequested(i) \/ hostList[i] # NoHost => i <= lastHostId
        /\ \A g \in Hosts : AsksFor(g, i) => hostId[g] = i

\* Requests carry hosts whose ID was handed out and is not listed.
LEMMA StageFactsHold == IInv => StageFacts
<1> SUFFICES ASSUME IInv, NEW i \in Ids
             PROVE  /\ IsRequested(i) <=> \E g \in Hosts : AsksFor(g, i)
                    /\ IsRequested(i) => hostList[i] = NoHost
                    /\ IsRequested(i) \/ hostList[i] # NoHost => i <= lastHostId
                    /\ \A g \in Hosts : AsksFor(g, i) => hostId[g] = i
  BY DEF StageFacts
<1>1. \A g \in Hosts : AsksFor(g, i) => hostId[g] = i
  BY DEF AsksFor, IInv, QueuedHostsAreNew
<1>2. IsRequested(i) <=> \E g \in Hosts : AsksFor(g, i)
  BY MsgType DEF IsRequested, AsksFor, IInv
<1>3. IsRequested(i) => hostList[i] = NoHost
  BY DEF IsRequested, IInv, QueuedHostsAreNew
<1>4. hostList[i] # NoHost => hostList[i] \in Hosts /\ hostId[hostList[i]] = i
  BY DEF IInv, TypeOK, IdsAreConsistent
<1>5. \A g \in Hosts : hostId[g] <= lastHostId
  BY DEF IInv, IdsAreConsistent
<1>6. QED
  BY <1>1, <1>2, <1>3, <1>4, <1>5

\* Nothing is listed or requested before the first ID.
LEMMA InitIsConnectionInit == Init => Connection!Init
<1> SUFFICES ASSUME Init PROVE Connection!Init
  OBVIOUS
<1>1. ASSUME NEW i \in Ids PROVE Stage(i) = "unused"
  <2>1. hostList[i] = NoHost /\ ~IsRequested(i) /\ i > lastHostId
    BY DEF Init, IsRequested
  <2>2. QED
    BY <2>1 DEF Stage
<1>2. callback = [i \in Ids |-> "none"]
  BY DEF Init
<1>3. QED
  BY <1>1, <1>2 DEF Connection!Init, Connection!Ids

\* A step that moves no ID stutters, or tells a listed one that it is connected.
LEMMA QuietIsConnected ==
    ASSUME IInv, StageFacts, StageFacts', Quiet
    PROVE  [Connection!Next]_(Connection!vars)
<1>1. ASSUME NEW i \in Ids PROVE Stage(i)' = Stage(i)
  <2>1. IsRequested(i)' <=> IsRequested(i)
    BY DEF StageFacts, Quiet, SameRequests
  <2>2. QED
    BY <2>1 DEF Quiet, Stage
<1>2. [i \in Ids |-> Stage(i)]' = [i \in Ids |-> Stage(i)]
  BY <1>1
<1>3. CASE UNCHANGED callback
  BY <1>2, <1>3 DEF Connection!vars
<1>4. ASSUME NEW i \in Ids, hostList[i] # NoHost, callback[i] = "none",
             callback' = [callback EXCEPT ![i] = "connected"]
      PROVE  Connection!Connected(i)
  <2>1. Stage(i) = "listed"
    BY <1>4 DEF Stage
  <2>2. QED
    BY <1>2, <1>4, <2>1 DEF Connection!Connected
<1>5. QED
  BY <1>3, <1>4 DEF Quiet, Connection!Next, Connection!Ids

\* An ID that is handed out was never used, and all before it were.
LEMMA HandsOutIsRequest ==
    ASSUME IInv, StageFacts, StageFacts', NEW h \in Hosts, HandsOut(h)
    PROVE  Connection!Next
<1>0. PICK new \in Ids : new = lastHostId + 1
  BY DEF HandsOut, Allocate, IInv, TypeOK
<1>1. /\ lastHostId \in Nat /\ lastHostId' = new /\ UNCHANGED <<hostList, callback>>
  BY <1>0 DEF HandsOut, Allocate, IInv, TypeOK
<1>2. \A i \in Ids : IsRequested(i)' <=> IsRequested(i) \/ i = new
  BY <1>0 DEF HandsOut, StageFacts
<1>3. ASSUME NEW i \in Ids, i # new PROVE Stage(i)' = Stage(i)
  <2>1. i > lastHostId' <=> i > lastHostId
    BY <1>0, <1>1, <1>3
  <2>2. QED
    BY <1>1, <1>2, <1>3, <2>1 DEF Stage
<1>4. Stage(new) = "unused" /\ Stage(new)' = "requested"
  <2>1. new > lastHostId
    BY <1>0, <1>1
  <2>2. hostList[new] = NoHost /\ ~IsRequested(new)
    BY <1>0, <1>1 DEF StageFacts
  <2>3. IsRequested(new)' /\ hostList'[new] = NoHost
    BY <1>1, <1>2, <2>2
  <2>4. QED
    BY <2>1, <2>2, <2>3 DEF Stage
<1>5. \A j \in Ids : j < new => Stage(j) # "unused"
  <2>1. \A j \in Ids : j < new => ~(j > lastHostId)
    BY <1>0, <1>1
  <2>2. QED
    BY <2>1 DEF Stage
<1>6. [i \in Ids |-> Stage(i)]' = [[i \in Ids |-> Stage(i)] EXCEPT ![new] = "requested"]
  BY <1>3, <1>4
<1>7. Connection!Request(new)
  BY <1>1, <1>4, <1>5, <1>6 DEF Connection!Request, Connection!Advance, Connection!Ids
<1>8. QED
  BY <1>7 DEF Connection!Next, Connection!Ids

\* The controller takes a request and lists its ID.
LEMMA ListsIsTake ==
    ASSUME IInv, StageFacts, StageFacts', NEW h \in Hosts, NEW i \in Ids, Lists(h, i)
    PROVE  Connection!Next
<1>1. /\ UNCHANGED lastHostId /\ hostList' = [hostList EXCEPT ![i] = h] /\ h # NoHost
      /\ hostList \in [Ids -> Hosts \cup {NoHost}] /\ hostList[i] = NoHost /\ AsksFor(h, i)
  BY DEF Lists, IInv, TypeOK
<1>2. ASSUME NEW j \in Ids, j # i PROVE Stage(j)' = Stage(j)
  <2>1. ~AsksFor(h, j)
    BY <1>2 DEF StageFacts, Lists
  <2>2. \A g \in Hosts : AsksFor(g, j)' <=> AsksFor(g, j)
    BY <2>1 DEF Lists
  <2>3. IsRequested(j)' <=> IsRequested(j)
    BY <2>2 DEF StageFacts
  <2>4. QED
    BY <1>1, <1>2, <2>3 DEF Stage
<1>3. Stage(i) = "requested" /\ Stage(i)' = "listed"
  <2>1. IsRequested(i)
    BY <1>1 DEF StageFacts
  <2>2. QED
    BY <1>1, <2>1 DEF Stage
<1>4. [j \in Ids |-> Stage(j)]' = [[j \in Ids |-> Stage(j)] EXCEPT ![i] = "listed"]
  BY <1>2, <1>3
<1>5. Connection!Take(i)
  BY <1>3, <1>4 DEF Lists, Connection!Take, Connection!Advance
<1>6. QED
  BY <1>5 DEF Connection!Next, Connection!Ids

\* The step that takes an ID off the list is the one that tells its end.
LEMMA RetiresIsEnd ==
    ASSUME IInv, StageFacts, StageFacts', NEW i \in Ids, Retires(i)
    PROVE  Connection!Next
<1>1. /\ UNCHANGED lastHostId /\ hostList' = [hostList EXCEPT ![i] = NoHost]
      /\ hostList \in [Ids -> Hosts \cup {NoHost}] /\ hostList[i] # NoHost
      /\ lastHostId \in Nat
  BY DEF Retires, ReleaseHost, IInv, TypeOK
<1>2. \A j \in Ids : IsRequested(j)' <=> IsRequested(j)
  BY DEF Retires, SameRequests, StageFacts
<1>3. ASSUME NEW j \in Ids, j # i PROVE Stage(j)' = Stage(j)
  BY <1>1, <1>2, <1>3 DEF Stage
<1>4. Stage(i) = "listed" /\ Stage(i)' = "ended"
  <2>1. ~IsRequested(i) /\ i <= lastHostId
    BY <1>1 DEF StageFacts
  <2>2. ~(i > lastHostId)
    BY <1>1, <2>1
  <2>3. QED
    BY <1>1, <1>2, <2>1, <2>2 DEF Stage
<1>5. [j \in Ids |-> Stage(j)]' = [[j \in Ids |-> Stage(j)] EXCEPT ![i] = "ended"]
  BY <1>3, <1>4
<1>6. Connection!End(i)
  BY <1>4, <1>5 DEF Retires, Connection!End, Connection!Advance
<1>7. QED
  BY <1>6 DEF Connection!Next, Connection!Ids

\* What the services may rely on: every host ID is requested, listed and ended once,
\* the connection is told while it is listed, and no ID leaves the list untold.
THEOREM IdsAreConnections == Spec => ImplementsConnection
<1>1. IInv /\ EventsAreInOrder /\ StageFacts /\ StageFacts' /\ [Next]_vars
        => [Connection!Next]_(Connection!vars)
  BY NextMovesIds, QuietIsConnected, HandsOutIsRequest, ListsIsTake, RetiresIsEnd
<1>2. IInv /\ EventsAreInOrder /\ [Next]_vars => EventsAreInOrder'
  BY NextKeepsEvents
<1>3. QED
  BY InitIsConnectionInit, InitEvents, LifecycleInvariant, StageFactsHold, <1>1, <1>2, PTL
     DEF Spec, ImplementsConnection, Connection!Spec

=============================================================================
