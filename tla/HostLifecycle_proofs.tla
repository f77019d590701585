------------------------- MODULE HostLifecycle_proofs -------------------------
(***************************************************************************)
(* Proofs about HostLifecycle, for any number of hosts, worker threads and  *)
(* host IDs.                                                                *)
(***************************************************************************)
EXTENDS HostLifecycle, SequenceTheorems, FiniteSetTheorems, TLAPS

USE LifecycleAssumption DEF Ids, Threads, INVALID_SOCKET

\* Before any network exists no host, task, message or socket does.
LEMMA InitIInv == Init => IInv
<1> SUFFICES ASSUME Init PROVE IInv
  OBVIOUS
<1> USE DEF Init
<1>1. TypeOK
  BY DEF TypeOK, Calls, Idle, HostTypes, CloseTypes, Told
<1>2. TasksAreOwned /\ TasksAreAlone
  BY DEF TasksAreOwned, TasksAreAlone, IsIssuing, Idle
<1>3. IdsAreConsistent /\ FreeHostsAreUnused /\ QueuedHostsAreNew /\ SocketIsOwn
  BY DEF IdsAreConsistent, FreeHostsAreUnused, Unused, QueuedHostsAreNew, SocketIsOwn
<1>4. QED
  BY <1>1, <1>2, <1>3 DEF IInv

\* What the type of a call says of a thread that is inside one.
LEMMA CallType ==
    ASSUME TypeOK, NEW t \in Threads
    PROVE  /\ thread[t] \in Calls
           /\ thread[t].pc = "issue" =>
                 thread[t].kind \in BaseKinds \cup {"Send"} /\ thread[t].why = "Reset"
           /\ thread[t].pc # "idle" => thread[t].host \in Hosts /\ thread[t].id \in Ids
           /\ thread[t].pc \in {"close", "closesocket", "clear"} => thread[t].why \in CloseTypes
BY DEF TypeOK, Calls, Idle

\* The calls a thread can enter with a host and an ID are well typed.
LEMMA MadeCalls ==
    ASSUME NEW h \in Hosts, NEW i \in Ids
    PROVE  /\ Idle \in Calls
           /\ Found(h, i) \in Calls
           /\ \A kind \in BaseKinds \cup {"Send"} : Issuing(kind, h, i) \in Calls
           /\ \A pc \in {"close", "closesocket", "clear"}, why \in CloseTypes :
                 Closing(pc, h, i, why) \in Calls
BY DEF Calls, Idle, Found, Issuing, Closing

\* What a queued message carries.
LEMMA MsgType ==
    ASSUME TypeOK, NEW k \in 1 .. Len(msgQueue)
    PROVE  /\ msgQueue[k] \in Msgs /\ msgQueue[k].host \in Hosts \cup {NoHost}
           /\ msgQueue[k].id \in Ids
<1>1. msgQueue[k] \in Msgs
  BY ElementOfSeq DEF TypeOK
<1>2. QED
  BY <1>1 DEF Msgs

\* A thread that enters or leaves a call in which it issues nothing changes no task.
LEMMA OtherCallKeepsTasks ==
    ASSUME TypeOK, TasksAreOwned, TasksAreAlone, NEW t \in Threads, NEW c,
           thread' = [thread EXCEPT ![t] = c], c.pc # "issue",
           UNCHANGED <<ios, baseTask, sendTask, hostId, hostList>>
    PROVE  TasksAreOwned' /\ TasksAreAlone'
<1>1. \A u \in Threads : thread'[u] = IF u = t THEN c ELSE thread[u]
  BY DEF TypeOK
<1>2. \A u \in Threads : IsIssuing(u)' => IsIssuing(u) /\ thread'[u] = thread[u]
  BY <1>1 DEF IsIssuing
<1>3. TasksAreOwned'
  BY <1>2 DEF TasksAreOwned, Owned
<1>4. TasksAreAlone'
  <2>1. \A o, p \in ios : Alike(o, p) => o = p
    BY DEF TasksAreAlone
  <2>2. ASSUME NEW o \in ios, NEW u \in Threads, IsIssuing(u)' PROVE ~Alike(o, thread'[u])
    BY <1>2, <2>2 DEF TasksAreAlone
  <2>3. ASSUME NEW u \in Threads, NEW v \in Threads, IsIssuing(u)', IsIssuing(v)',
               Alike(thread'[u], thread'[v])
        PROVE  u = v
    BY <1>2, <2>3 DEF TasksAreAlone
  <2>4. QED
    BY <2>1, <2>2, <2>3 DEF TasksAreAlone, Alike
<1>5. QED
  BY <1>3, <1>4

\* No step of NetworkHostPO::Close touches a counter or a list.
LEMMA CloseKeepsIInv ==
    ASSUME IInv, NEW t \in Threads, TestSocket(t) \/ CloseSocket(t) \/ ClearSocket(t)
    PROVE  IInv'
<1> USE DEF IInv
<1>1. CASE TestSocket(t)
  <2>1. TypeOK'
    BY ZenonT(60), <1>1, CallType, MadeCalls DEF TypeOK, TestSocket, hostVars, poolVars, ctlVars, kernelVars, appVars, CloseTypes
  <2>2. TasksAreOwned' /\ TasksAreAlone'
    <3>1. PICK c \in {Idle, Closing("closesocket", thread[t].host, thread[t].id, thread[t].why)} :
            thread' = [thread EXCEPT ![t] = c]
      BY <1>1 DEF TestSocket
    <3>2. c.pc # "issue"
      BY DEF Idle, Closing
    <3>3. UNCHANGED <<ios, baseTask, sendTask, hostId, hostList>>
      BY <1>1 DEF TestSocket, hostVars, kernelVars, ctlVars
    <3>4. QED
      BY <3>1, <3>2, <3>3, OtherCallKeepsTasks
  <2>3. (IdsAreConsistent /\ FreeHostsAreUnused /\ QueuedHostsAreNew /\ SocketIsOwn)'
    BY <1>1, CallType DEF TypeOK, TestSocket, hostVars, poolVars, ctlVars, kernelVars, appVars,
       IdsAreConsistent, FreeHostsAreUnused, Unused, QueuedHostsAreNew, SocketIsOwn
  <2>4. QED
    BY <2>1, <2>2, <2>3
<1>2. CASE CloseSocket(t)
  <2>1. TypeOK'
    BY <1>2, CallType, MadeCalls DEF TypeOK, CloseSocket, hostVars, poolVars, ctlVars, kernelVars, appVars, CloseTypes
  <2>2. TasksAreOwned' /\ TasksAreAlone'
    <3> DEFINE c == Closing("clear", thread[t].host, thread[t].id, thread[t].why)
    <3>1. thread' = [thread EXCEPT ![t] = c] /\ c.pc # "issue"
      BY <1>2 DEF CloseSocket, Closing
    <3>2. UNCHANGED <<ios, baseTask, sendTask, hostId, hostList>>
      BY <1>2 DEF CloseSocket, ctlVars
    <3> HIDE DEF c
    <3>3. QED
      BY <3>1, <3>2, OtherCallKeepsTasks
  <2>3. (IdsAreConsistent /\ FreeHostsAreUnused /\ QueuedHostsAreNew /\ SocketIsOwn)'
    BY <1>2, CallType DEF TypeOK, CloseSocket, hostVars, poolVars, ctlVars, kernelVars, appVars,
       IdsAreConsistent, FreeHostsAreUnused, Unused, QueuedHostsAreNew, SocketIsOwn
  <2>4. QED
    BY <2>1, <2>2, <2>3
<1>3. CASE ClearSocket(t)
  <2>1. TypeOK'
    BY <1>3, CallType, MadeCalls DEF TypeOK, ClearSocket, hostVars, poolVars, ctlVars, kernelVars, appVars, CloseTypes
  <2>2. TasksAreOwned' /\ TasksAreAlone'
    BY <1>3, CallType DEF TypeOK, ClearSocket, hostVars, poolVars, ctlVars, kernelVars, appVars,
       TasksAreOwned, TasksAreAlone, IsIssuing, Alike, Owned, Idle, Closing
  <2>3. (IdsAreConsistent /\ FreeHostsAreUnused /\ QueuedHostsAreNew /\ SocketIsOwn)'
    BY <1>3, CallType DEF TypeOK, ClearSocket, hostVars, poolVars, ctlVars, kernelVars, appVars,
       IdsAreConsistent, FreeHostsAreUnused, Unused, QueuedHostsAreNew, SocketIsOwn
  <2>4. QED
    BY <2>1, <2>2, <2>3
<1>4. QED
  BY <1>1, <1>2, <1>3

\* SendPacketToHost only reads the host list.
LEMMA FindHostKeepsIInv ==
    ASSUME IInv, NEW i \in Ids, FindHost(i)
    PROVE  IInv'
<1> USE DEF IInv
<1>1. CASE FindHost(i)
  <2>1. TypeOK'
    BY <1>1, CallType, MadeCalls DEF TypeOK, FindHost, Idle, hostVars, poolVars, ctlVars, kernelVars, appVars, CloseTypes
  <2>2. TasksAreOwned' /\ TasksAreAlone'
    BY <1>1, CallType DEF TypeOK, FindHost, Idle, hostVars, poolVars, ctlVars, kernelVars, appVars,
       TasksAreOwned, TasksAreAlone, IsIssuing, Alike, Owned, Found
  <2>3. (IdsAreConsistent /\ FreeHostsAreUnused /\ QueuedHostsAreNew /\ SocketIsOwn)'
    BY <1>1, CallType DEF TypeOK, FindHost, Idle, hostVars, poolVars, ctlVars, kernelVars, appVars,
       IdsAreConsistent, FreeHostsAreUnused, Unused, QueuedHostsAreNew, SocketIsOwn
  <2>4. QED
    BY <2>1, <2>2, <2>3
<1>2. QED
  BY <1>1

\* NetworkHostPO::Waiting touches no counter and no list.
LEMMA WaitingKeepsIInv ==
    ASSUME IInv, Waiting
    PROVE  IInv'
<1> USE DEF IInv
<1>1. CASE Waiting
  <2>1. TypeOK'
    BY <1>1, CallType, MadeCalls DEF TypeOK, Waiting, hostVars, poolVars, ctlVars, kernelVars, appVars, CloseTypes
  <2>2. TasksAreOwned' /\ TasksAreAlone'
    BY SMTT(40), <1>1, CallType DEF TypeOK, Waiting, hostVars, poolVars, ctlVars, kernelVars, appVars,
       TasksAreOwned, TasksAreAlone, IsIssuing, Alike, Owned, Closing, Idle
  <2>3. UNCHANGED <<hostVars, poolVars, ctlVars>>
    BY <1>1 DEF Waiting
  <2>4. (IdsAreConsistent /\ FreeHostsAreUnused /\ QueuedHostsAreNew /\ SocketIsOwn)'
    BY <2>3 DEF hostVars, poolVars, ctlVars,
       IdsAreConsistent, FreeHostsAreUnused, Unused, QueuedHostsAreNew, SocketIsOwn
  <2>5. QED
    BY <2>1, <2>2, <2>4
<1>2. QED
  BY <1>1

\* A turn of the controller with an empty queue starts over the listed hosts.
LEMMA PopNothingKeepsIInv ==
    ASSUME IInv, PopNothing
    PROVE  IInv'
<1> USE DEF IInv
<1>1. CASE PopNothing
  <2>1. TypeOK'
    BY <1>1, CallType, MadeCalls DEF TypeOK, PopNothing, Listed, hostVars, poolVars, ctlVars, kernelVars, appVars, CloseTypes
  <2>2. TasksAreOwned' /\ TasksAreAlone'
    BY <1>1, CallType DEF TypeOK, PopNothing, Listed, hostVars, poolVars, ctlVars, kernelVars, appVars,
       TasksAreOwned, TasksAreAlone, IsIssuing, Alike, Owned
  <2>3. (IdsAreConsistent /\ FreeHostsAreUnused /\ QueuedHostsAreNew /\ SocketIsOwn)'
    BY <1>1, CallType DEF TypeOK, PopNothing, Listed, hostVars, poolVars, ctlVars, kernelVars, appVars,
       IdsAreConsistent, FreeHostsAreUnused, Unused, QueuedHostsAreNew, SocketIsOwn
  <2>4. QED
    BY <2>1, <2>2, <2>3
<1>2. QED
  BY <1>1

\* NetworkManager::Close queues a message that carries no host.
LEMMA CloseRequestKeepsIInv ==
    ASSUME IInv, NEW i \in Ids, Close(i)
    PROVE  IInv'
<1> DEFINE m == Msg("Close", NoHost, i)
<1> USE DEF IInv
<1>1. /\ m \in Msgs /\ m.type = "Close" /\ m.host = NoHost
      /\ msgQueue' = Append(msgQueue, m) /\ msgQueue \in Seq(Msgs)
      /\ UNCHANGED <<hostVars, poolVars, hostList, connectorList, sweep, kernelVars,
                     thread, callback>>
  BY DEF Msg, Msgs, Close, TypeOK
<1>2. /\ Len(msgQueue') = Len(msgQueue) + 1 /\ Len(msgQueue) \in Nat
      /\ msgQueue'[Len(msgQueue) + 1] = m /\ msgQueue' \in Seq(Msgs)
      /\ \A k \in 1 .. Len(msgQueue) : msgQueue'[k] = msgQueue[k]
      /\ \A k \in 1 .. Len(msgQueue') : k \in 1 .. Len(msgQueue) \/ k = Len(msgQueue) + 1
  BY <1>1
<1>3. TypeOK'
  BY <1>1, <1>2 DEF TypeOK, Close, hostVars, poolVars, kernelVars
<1>4. TasksAreOwned' /\ TasksAreAlone'
  BY <1>1 DEF TasksAreOwned, TasksAreAlone, IsIssuing, Alike, Owned, hostVars, kernelVars
<1>5. (IdsAreConsistent /\ FreeHostsAreUnused /\ SocketIsOwn)'
  BY <1>1 DEF IdsAreConsistent, FreeHostsAreUnused, Unused, SocketIsOwn, hostVars, poolVars
<1>6. QueuedHostsAreNew'
  BY <1>1, <1>2 DEF QueuedHostsAreNew, hostVars
<1>7. QED
  BY <1>3, <1>4, <1>5, <1>6

\* An operation about to be issued reaches the port, or gives its counter back.
LEMMA IssueKeepsIInv ==
    ASSUME IInv, NEW t \in Threads, Issue(t)
    PROVE  IInv'
<1> DEFINE h == thread[t].host
           i == thread[t].id
           k == thread[t].kind
           o == Op(k, h, i)
<1> USE DEF IInv
<1>1. /\ thread[t].pc = "issue" /\ h \in Hosts /\ i \in Ids /\ k \in BaseKinds \cup {"Send"}
      /\ Owned(k, h, i)
  BY CallType DEF Issue, TasksAreOwned, IsIssuing
<1>2. o \in Ops /\ o.kind = k /\ o.host = h /\ o.id = i
  BY <1>1 DEF Op, Ops, SendKinds
<1>3. UNCHANGED <<hostId, socket, eventSync, hostType, lastClose, poolVars, ctlVars,
                  kernelSocket, appVars>>
  BY DEF Issue
<1>4. (IdsAreConsistent /\ SocketIsOwn)'
  BY <1>3 DEF IdsAreConsistent, SocketIsOwn, poolVars, ctlVars
<1>5. CASE ios' = ios \cup {o} /\ thread' = [thread EXCEPT ![t] = Idle] /\ UNCHANGED <<baseTask, sendTask>>
  <2>1. TypeOK'
    BY <1>1, <1>2, <1>3, <1>5, MadeCalls DEF TypeOK, poolVars, ctlVars, appVars
  <2>2. TasksAreOwned'
    BY SMTT(40), <1>1, <1>2, <1>3, <1>5 DEF TypeOK, TasksAreOwned, IsIssuing, Owned, Idle, ctlVars
  <2>3. TasksAreAlone'
    BY <1>1, <1>2, <1>5 DEF TypeOK, TasksAreAlone, IsIssuing, Alike, Idle
  <2>4. (FreeHostsAreUnused /\ QueuedHostsAreNew)'
    BY <1>3, <1>5 DEF FreeHostsAreUnused, Unused, QueuedHostsAreNew, poolVars, ctlVars
  <2>5. QED
    BY <1>4, <2>1, <2>2, <2>3, <2>4
<1>6. CASE k \in BaseKinds /\ FailBaseTask(t, h, i, "FailedToBaseTask") /\ UNCHANGED ios
  <2>1. /\ baseTask[h] = 1
        /\ baseTask' = [baseTask EXCEPT ![h] = 0]
        /\ thread' = [thread EXCEPT ![t] = Closing("close", h, i, "FailedToBaseTask")]
        /\ UNCHANGED <<sendTask, ios>>
    <3>1. baseTask[h] = 1 /\ baseTask[h] - 1 = 0
      BY <1>1, <1>6 DEF Owned
    <3>2. QED
      BY <1>6, <3>1 DEF FailBaseTask
  <2>2. TypeOK'
    BY <1>1, <1>3, <2>1, MadeCalls DEF TypeOK, CloseTypes, poolVars, ctlVars, appVars
  <2>3. TasksAreOwned' /\ TasksAreAlone'
    BY SMTT(40), <1>1, <1>3, <1>6, <2>1 DEF TypeOK, TasksAreOwned, TasksAreAlone, IsIssuing, Alike,
       Owned, Closing, ctlVars
  <2>4. (FreeHostsAreUnused /\ QueuedHostsAreNew)'
    <3>1. \A g \in Hosts : baseTask[g] = 0 /\ sendTask[g] = 0 => baseTask'[g] = 0 /\ sendTask'[g] = 0
      BY <1>1, <2>1 DEF TypeOK
    <3>2. FreeHostsAreUnused'
      BY <1>3, <3>1, ElementOfSeq DEF TypeOK, FreeHostsAreUnused, Unused, poolVars
    <3>3. QueuedHostsAreNew'
      BY <1>3, <3>1, MsgType DEF QueuedHostsAreNew, poolVars, ctlVars
    <3>4. QED
      BY <3>2, <3>3
  <2>5. QED
    BY <1>4, <2>2, <2>3, <2>4
<1>7. CASE k = "Send" /\ FailSendTask(t, h, i) /\ UNCHANGED ios
  <2>1. /\ sendTask' = [sendTask EXCEPT ![h] = 0]
        /\ thread' = [thread EXCEPT ![t] = Closing("close", h, i, "FailedToSendTask")]
        /\ UNCHANGED <<baseTask, ios>>
    BY <1>7 DEF FailSendTask
  <2>2. TypeOK'
    BY <1>1, <1>3, <2>1, MadeCalls DEF TypeOK, CloseTypes, poolVars, ctlVars, appVars
  <2>3. TasksAreOwned' /\ TasksAreAlone'
    BY SMTT(40), <1>1, <1>3, <1>7, <2>1 DEF TypeOK, TasksAreOwned, TasksAreAlone, IsIssuing, Alike,
       Owned, Closing, ctlVars, BaseKinds
  <2>4. (FreeHostsAreUnused /\ QueuedHostsAreNew)'
    <3>1. \A g \in Hosts : baseTask[g] = 0 /\ sendTask[g] = 0 => baseTask'[g] = 0 /\ sendTask'[g] = 0
      BY <1>1, <2>1 DEF TypeOK
    <3>2. FreeHostsAreUnused'
      BY <1>3, <3>1, ElementOfSeq DEF TypeOK, FreeHostsAreUnused, Unused, poolVars
    <3>3. QueuedHostsAreNew'
      BY <1>3, <3>1, MsgType DEF QueuedHostsAreNew, poolVars, ctlVars
    <3>4. QED
      BY <3>2, <3>3
  <2>5. QED
    BY <1>4, <2>2, <2>3, <2>4
<1>8. QED
  BY <1>5, <1>6, <1>7 DEF Issue

\* An operation that a worker carries on stays the same task of the same host.
LEMMA TaskCarriedOn ==
    ASSUME IInv, NEW w \in Threads, NEW o \in ios, NEW kind \in BaseKinds \cup {"Send"},
           thread[w] = Idle, ios' = ios \ {o},
           thread' = [thread EXCEPT ![w] = Issuing(kind, o.host, o.id)],
           kind \in BaseKinds <=> o.kind \in BaseKinds,
           UNCHANGED <<hostId, hostList, baseTask, sendTask>>
    PROVE  TasksAreOwned' /\ TasksAreAlone'
<1>1. /\ Issuing(kind, o.host, o.id).kind = kind /\ Issuing(kind, o.host, o.id).host = o.host
      /\ Issuing(kind, o.host, o.id).id = o.id /\ Issuing(kind, o.host, o.id).pc = "issue"
  BY DEF Issuing
<1>2. thread[w].pc = "idle" /\ thread \in [Threads -> Calls]
  BY DEF Idle, IInv, TypeOK
<1>3. TasksAreOwned'
  BY <1>1, <1>2 DEF IInv, TasksAreOwned, IsIssuing, Owned
<1>4. TasksAreAlone'
  BY <1>1, <1>2 DEF IInv, TasksAreAlone, IsIssuing, Alike
<1>5. QED
  BY <1>3, <1>4

\* An operation that ends frees its counter and nothing else.
LEMMA TaskEnded ==
    ASSUME IInv, NEW w \in Threads, NEW o \in ios, NEW c \in Calls,
           thread[w] = Idle, ios' = ios \ {o}, c.pc # "issue",
           thread' = [thread EXCEPT ![w] = c],
           IF o.kind \in BaseKinds
           THEN baseTask' = [baseTask EXCEPT ![o.host] = 0] /\ UNCHANGED sendTask
           ELSE sendTask' = [sendTask EXCEPT ![o.host] = 0] /\ UNCHANGED baseTask,
           UNCHANGED <<hostId, hostList, poolVars, msgQueue>>
    PROVE  /\ TasksAreOwned' /\ TasksAreAlone'
           /\ FreeHostsAreUnused' /\ QueuedHostsAreNew'
           /\ baseTask' \in [Hosts -> 0 .. 1] /\ sendTask' \in [Hosts -> 0 .. 1]
<1>1. /\ thread[w].pc = "idle" /\ thread \in [Threads -> Calls]
      /\ baseTask \in [Hosts -> 0 .. 1] /\ sendTask \in [Hosts -> 0 .. 1]
      /\ o \in Ops /\ ios \subseteq Ops
  BY DEF Idle, IInv, TypeOK
<1>2. o.host \in Hosts /\ \A p \in ios : p.host \in Hosts
  BY <1>1 DEF Ops
<1>3. TasksAreAlone'
  BY <1>1 DEF IInv, TasksAreAlone, IsIssuing, Alike
<1>4. TasksAreOwned'
  <2>1. ASSUME NEW p \in ios' PROVE Owned(p.kind, p.host, p.id)'
    <3>1. p # o /\ p \in ios /\ ~Alike(o, p) /\ Owned(p.kind, p.host, p.id)
      BY DEF IInv, TasksAreAlone, TasksAreOwned
    <3>2. QED
      BY <1>1, <1>2, <3>1 DEF Alike, Owned
  <2>2. ASSUME NEW t \in Threads, IsIssuing(t)'
        PROVE  Owned(thread[t].kind, thread[t].host, thread[t].id)'
    <3>1. thread'[t] = thread[t] /\ IsIssuing(t)
      BY <1>1, <2>2 DEF IsIssuing
    <3>2. ~Alike(o, thread[t]) /\ Owned(thread[t].kind, thread[t].host, thread[t].id)
      BY <3>1 DEF IInv, TasksAreAlone, TasksAreOwned
    <3>3. thread[t].host \in Hosts
      BY <3>1, CallType DEF IInv, IsIssuing
    <3>4. QED
      BY <1>1, <1>2, <3>1, <3>2, <3>3 DEF Alike, Owned
  <2>3. QED
    BY <2>1, <2>2 DEF TasksAreOwned
<1>5. FreeHostsAreUnused'
  BY <1>1, <1>2 DEF IInv, TypeOK, FreeHostsAreUnused, Unused, poolVars
<1>6. QueuedHostsAreNew'
  BY <1>1, <1>2, MsgType DEF IInv, QueuedHostsAreNew
<1>7. baseTask' \in [Hosts -> 0 .. 1] /\ sendTask' \in [Hosts -> 0 .. 1]
  BY <1>1, <1>2
<1>8. QED
  BY <1>3, <1>4, <1>5, <1>6, <1>7

\* The two ways a task fails, as TaskEnded wants them.
LEMMA FailedTask ==
    ASSUME IInv, NEW w \in Threads, NEW o \in ios, NEW why \in CloseTypes
    PROVE  /\ o.host \in Hosts /\ o.id \in Ids /\ o \in Ops
           /\ o.kind \in BaseKinds /\ FailBaseTask(w, o.host, o.id, why) =>
                 /\ baseTask' = [baseTask EXCEPT ![o.host] = 0]
                 /\ UNCHANGED sendTask
                 /\ thread' = [thread EXCEPT ![w] = Closing("close", o.host, o.id, why)]
           /\ Closing("close", o.host, o.id, why) \in Calls
           /\ Closing("close", o.host, o.id, why).pc # "issue"
<1>1. o.host \in Hosts /\ o.id \in Ids /\ o \in Ops
  BY DEF IInv, TypeOK, Ops
<1>2. ASSUME o.kind \in BaseKinds PROVE baseTask[o.host] - 1 = 0
  <2>1. baseTask[o.host] = 1
    BY <1>2 DEF IInv, TasksAreOwned, Owned
  <2>2. QED
    BY <2>1
<1>3. QED
  BY <1>1, <1>2, MadeCalls DEF FailBaseTask, Closing

\* What a service has been told stays one of the cases of Told.
LEMMA ToldType ==
    /\ \A s \in Told : OnConnect(s) \in Told /\ OnReceive(s) \in Told
                      /\ OnClose(s) \in Told /\ OnConnectedFailed(s) \in Told
BY DEF Told, OnConnect, OnReceive, OnClose, OnConnectedFailed

\* NetworkWorkerPO::ProcessReceive goes on receiving, or gives the counter back.
LEMMA ProcessReceiveKeepsIInv ==
    ASSUME IInv, NEW w \in Workers, NEW o \in Ops, ProcessReceive(w, o)
    PROVE  IInv'
<1> USE DEF IInv
<1>1. /\ w \in Threads /\ thread[w] = Idle /\ o \in ios /\ ios' = ios \ {o}
      /\ o.kind = "Receive" /\ o.host \in Hosts /\ o.id \in Ids
  BY DEF ProcessReceive, Dequeue, Ops
<1>2. UNCHANGED <<hostId, socket, eventSync, hostType, lastClose, poolVars, ctlVars,
                  kernelSocket, asked>>
  BY DEF ProcessReceive
<1>3. (IdsAreConsistent /\ SocketIsOwn)'
  BY <1>2 DEF IdsAreConsistent, SocketIsOwn, poolVars, ctlVars
<1>4. CASE /\ Tell(o.host, OnReceive)
           /\ thread' = [thread EXCEPT ![w] = Issuing("Receive", o.host, o.id)]
           /\ UNCHANGED <<baseTask, sendTask>>
  <2>1. callback' \in [Ids -> Told]
    BY <1>4, ToldType DEF Tell, TypeOK
  <2>2. TypeOK'
    BY <1>1, <1>2, <1>4, <2>1, MadeCalls DEF TypeOK, poolVars, ctlVars, BaseKinds
  <2>3. TasksAreOwned' /\ TasksAreAlone'
    BY <1>1, <1>2, <1>4, TaskCarriedOn DEF BaseKinds, ctlVars
  <2>4. (FreeHostsAreUnused /\ QueuedHostsAreNew)'
    BY <1>2, <1>4 DEF FreeHostsAreUnused, Unused, QueuedHostsAreNew, poolVars, ctlVars
  <2>5. QED
    BY <1>3, <2>2, <2>3, <2>4
<1>5. CASE FailBaseTask(w, o.host, o.id, "FailedToBaseTask") /\ UNCHANGED callback
  <2>1. "FailedToBaseTask" \in CloseTypes /\ o.kind \in BaseKinds
    BY <1>1 DEF CloseTypes, BaseKinds
  <2>2. /\ TasksAreOwned' /\ TasksAreAlone' /\ FreeHostsAreUnused' /\ QueuedHostsAreNew'
        /\ baseTask' \in [Hosts -> 0 .. 1] /\ sendTask' \in [Hosts -> 0 .. 1]
    BY <1>1, <1>2, <1>5, <2>1, FailedTask, TaskEnded DEF poolVars, ctlVars
  <2>3. thread' \in [Threads -> Calls]
    BY ZenonT(60), <1>1, <1>5, <2>1, FailedTask DEF TypeOK
  <2>4. TypeOK'
    BY <1>1, <1>2, <1>5, <2>2, <2>3 DEF TypeOK, poolVars, ctlVars
  <2>5. QED
    BY <1>3, <2>2, <2>4
<1>6. QED
  BY <1>4, <1>5 DEF ProcessReceive

\* NetworkWorkerPO::ProcessConnect starts to receive, or gives the counter back.
LEMMA CompleteConnectKeepsIInv ==
    ASSUME IInv, NEW w \in Workers, NEW o \in Ops, CompleteConnect(w, o)
    PROVE  IInv'
<1> USE DEF IInv
<1>1. /\ w \in Threads /\ thread[w] = Idle /\ o \in ios /\ ios' = ios \ {o}
      /\ o.kind = "Connect" /\ o.host \in Hosts /\ o.id \in Ids
  BY DEF CompleteConnect, Dequeue, Ops
<1>2. UNCHANGED <<hostId, socket, eventSync, lastClose, poolVars, ctlVars, asked>>
  BY DEF CompleteConnect
<1>3. (IdsAreConsistent /\ SocketIsOwn)'
  BY <1>2 DEF IdsAreConsistent, SocketIsOwn, poolVars, ctlVars
<1>4. CASE /\ kernelSocket' = [kernelSocket EXCEPT ![o.id] = IF @ = "created" THEN "connected" ELSE @]
           /\ Tell(o.host, OnConnect)
           /\ hostType' = [hostType EXCEPT ![o.host] = "Connector"]
           /\ thread' = [thread EXCEPT ![w] = Issuing("Receive", o.host, o.id)]
           /\ UNCHANGED <<baseTask, sendTask>>
  <2>1. /\ callback' \in [Ids -> Told]
        /\ kernelSocket' \in [Ids -> {"none", "created", "connected", "closed"}]
        /\ hostType' \in [Hosts -> HostTypes]
    BY <1>4, ToldType DEF Tell, TypeOK, HostTypes
  <2>2. TypeOK'
    BY <1>1, <1>2, <1>4, <2>1, MadeCalls DEF TypeOK, poolVars, ctlVars, BaseKinds
  <2>3. TasksAreOwned' /\ TasksAreAlone'
    BY <1>1, <1>2, <1>4, TaskCarriedOn DEF BaseKinds, ctlVars
  <2>4. (FreeHostsAreUnused /\ QueuedHostsAreNew)'
    BY <1>2, <1>4 DEF FreeHostsAreUnused, Unused, QueuedHostsAreNew, poolVars, ctlVars
  <2>5. QED
    BY <1>3, <2>2, <2>3, <2>4
<1>5. CASE /\ FailBaseTask(w, o.host, o.id, "ConnectFailed")
           /\ UNCHANGED <<kernelSocket, callback, hostType>>
  <2>1. "ConnectFailed" \in CloseTypes /\ o.kind \in BaseKinds
    BY <1>1 DEF CloseTypes, BaseKinds
  <2>2. /\ TasksAreOwned' /\ TasksAreAlone' /\ FreeHostsAreUnused' /\ QueuedHostsAreNew'
        /\ baseTask' \in [Hosts -> 0 .. 1] /\ sendTask' \in [Hosts -> 0 .. 1]
    BY <1>1, <1>2, <1>5, <2>1, FailedTask, TaskEnded DEF poolVars, ctlVars
  <2>3. thread' \in [Threads -> Calls]
    BY ZenonT(60), <1>1, <1>5, <2>1, FailedTask DEF TypeOK
  <2>4. TypeOK'
    BY <1>1, <1>2, <1>5, <2>2, <2>3 DEF TypeOK, poolVars, ctlVars
  <2>5. QED
    BY <1>3, <2>2, <2>4
<1>6. QED
  BY <1>4, <1>5 DEF CompleteConnect

\* NetworkWorkerPO::ProcessEncrypt goes on to send under the same counter.
LEMMA ProcessEncryptKeepsIInv ==
    ASSUME IInv, NEW w \in Workers, NEW o \in Ops, ProcessEncrypt(w, o)
    PROVE  IInv'
<1> USE DEF IInv
<1>1. /\ w \in Threads /\ thread[w] = Idle /\ o \in ios /\ ios' = ios \ {o}
      /\ o.kind = "Encrypt" /\ o.host \in Hosts /\ o.id \in Ids
      /\ thread' = [thread EXCEPT ![w] = Issuing("Send", o.host, o.id)]
      /\ UNCHANGED <<hostVars, poolVars, ctlVars, kernelSocket, appVars>>
  BY DEF ProcessEncrypt, Dequeue, Ops
<1>2. (IdsAreConsistent /\ SocketIsOwn /\ FreeHostsAreUnused /\ QueuedHostsAreNew)'
  BY <1>1 DEF IdsAreConsistent, SocketIsOwn, FreeHostsAreUnused, Unused, QueuedHostsAreNew,
     hostVars, poolVars, ctlVars
<1>3. TypeOK'
  BY <1>1, MadeCalls DEF TypeOK, hostVars, poolVars, ctlVars, appVars
<1>4. TasksAreOwned' /\ TasksAreAlone'
  BY <1>1, TaskCarriedOn DEF BaseKinds, hostVars, ctlVars
<1>5. QED
  BY <1>2, <1>3, <1>4

\* NetworkWorkerPO::ProcessSend gives the send counter back.
LEMMA ProcessSendKeepsIInv ==
    ASSUME IInv, NEW w \in Workers, NEW o \in Ops, ProcessSend(w, o)
    PROVE  IInv'
<1> USE DEF IInv
<1>1. /\ w \in Threads /\ thread[w] = Idle /\ o \in ios /\ ios' = ios \ {o}
      /\ o.kind \notin BaseKinds /\ o.host \in Hosts /\ o.id \in Ids
  BY DEF ProcessSend, Dequeue, Ops, BaseKinds
<1>2. UNCHANGED <<hostId, socket, eventSync, hostType, lastClose, poolVars, ctlVars,
                  kernelSocket, appVars>>
  BY DEF ProcessSend
<1>3. PICK c \in {Idle, Closing("close", o.host, o.id, "FailedToSendTask")} :
        /\ thread' = [thread EXCEPT ![w] = c]
        /\ sendTask' = [sendTask EXCEPT ![o.host] = 0]
        /\ UNCHANGED baseTask
  <2>1. thread = [thread EXCEPT ![w] = Idle]
    BY <1>1 DEF TypeOK
  <2>2. QED
    BY <2>1 DEF ProcessSend, FailSendTask
<1>4. c \in Calls /\ c.pc # "issue"
  <2>1. Idle \in Calls /\ Idle.pc # "issue"
    BY DEF Calls, Idle
  <2>2. "FailedToSendTask" \in CloseTypes
    BY DEF CloseTypes
  <2>3. QED
    BY <1>1, <1>3, <2>1, <2>2, FailedTask
<1>5. /\ TasksAreOwned' /\ TasksAreAlone' /\ FreeHostsAreUnused' /\ QueuedHostsAreNew'
      /\ baseTask' \in [Hosts -> 0 .. 1] /\ sendTask' \in [Hosts -> 0 .. 1]
  BY <1>1, <1>2, <1>3, <1>4, TaskEnded DEF poolVars, ctlVars
<1>6. TypeOK'
  BY <1>1, <1>2, <1>3, <1>4, <1>5 DEF TypeOK, poolVars, ctlVars, appVars
<1>7. (IdsAreConsistent /\ SocketIsOwn)'
  BY <1>2 DEF IdsAreConsistent, SocketIsOwn, poolVars, ctlVars
<1>8. QED
  BY <1>5, <1>6, <1>7

\* A request for a new host: the host was in nobody's hands and its ID is new.
LEMMA AllocateKeepsIInv ==
    ASSUME IInv, NEW h \in Hosts, NEW type \in {"Connect", "Join"}, Allocate(h),
           socket' = socket \/ socket' = [socket EXCEPT ![h] = lastHostId + 1],
           msgQueue' = Append(msgQueue, Msg(type, h, lastHostId + 1)),
           UNCHANGED <<baseTask, sendTask, hostType, lastClose, hostList, connectorList,
                       sweep, ios, thread, appVars>>,
           kernelSocket' \in [Ids -> {"none", "created", "connected", "closed"}]
    PROVE  IInv'
<1> DEFINE new == lastHostId + 1
<1> USE DEF IInv
<1>1. new \in Ids /\ new # 0 /\ lastHostId \in Nat
  BY DEF Allocate, TypeOK
<1>2. Unused(h)
  <2>1. CASE freeQueue # <<>> /\ h = Head(freeQueue)
    <3>1. Len(freeQueue) \in Nat /\ Len(freeQueue) # 0 /\ Head(freeQueue) = freeQueue[1]
      BY <2>1, EmptySeq DEF TypeOK
    <3>2. QED
      BY <2>1, <3>1 DEF FreeHostsAreUnused
  <2>2. CASE h \notin created
    BY <2>2 DEF FreeHostsAreUnused
  <2>3. QED
    BY <2>1, <2>2 DEF Allocate
<1>3. /\ hostId' = [hostId EXCEPT ![h] = new]
      /\ active' = [active EXCEPT ![new] = h]
      /\ eventSync' = [eventSync EXCEPT ![h] = TRUE]
      /\ created' = created \cup {h}
      /\ lastHostId' = new
      /\ hostId \in [Hosts -> Ids \cup {0}]
      /\ \A i \in Ids : hostList[i] # h /\ active[i] # h
  <2>1. \A i \in Ids : hostList[i] # h /\ active[i] # h
    BY <1>2 DEF Unused, IdsAreConsistent
  <2>2. hostId \in [Hosts -> Ids \cup {0}]
    BY DEF TypeOK
  <2>3. QED
    BY <2>1, <2>2 DEF Allocate
<1>4. /\ Len(msgQueue') = Len(msgQueue) + 1 /\ Len(msgQueue) \in Nat
      /\ msgQueue'[Len(msgQueue) + 1] = Msg(type, h, new)
      /\ \A k \in 1 .. Len(msgQueue) : msgQueue'[k] = msgQueue[k]
      /\ msgQueue' \in Seq(Msgs)
  <2>1. Msg(type, h, new) \in Msgs
    BY <1>1 DEF Msg, Msgs
  <2>2. QED
    BY <2>1 DEF TypeOK
<1>5. /\ freeQueue' \in Seq(Hosts) /\ Len(freeQueue') \in Nat
      /\ \A n \in 1 .. Len(freeQueue') : freeQueue'[n] # h
      /\ FreeHostsAreUnused'
  <2>1. CASE freeQueue # <<>> /\ h = Head(freeQueue) /\ freeQueue' = Tail(freeQueue)
    <3>1. /\ freeQueue' \in Seq(Hosts) /\ Len(freeQueue) \in Nat /\ Len(freeQueue) # 0
          /\ Len(freeQueue') = Len(freeQueue) - 1 /\ h = freeQueue[1]
          /\ \A n \in 1 .. Len(freeQueue') : freeQueue'[n] = freeQueue[n + 1]
                                            /\ n + 1 \in 1 .. Len(freeQueue)
      BY <2>1, EmptySeq, HeadTailProperties DEF TypeOK
    <3>2. \A n \in 1 .. Len(freeQueue') : freeQueue'[n] # h
      BY <3>1 DEF FreeHostsAreUnused
    <3>3. \A n \in 1 .. Len(freeQueue') :
            /\ freeQueue'[n] \in Hosts
            /\ Unused(freeQueue[n])' /\ freeQueue'[n] \in created'
      <4>1. ASSUME NEW n \in 1 .. Len(freeQueue')
            PROVE  /\ freeQueue'[n] \in Hosts /\ freeQueue'[n] # h
                   /\ Unused(freeQueue'[n]) /\ freeQueue'[n] \in created
        BY <3>1, <3>2, ElementOfSeq DEF FreeHostsAreUnused
      <4>2. QED
        BY <1>3, <4>1 DEF Unused
    <3>4. \A n, k \in 1 .. Len(freeQueue') : freeQueue'[n] = freeQueue'[k] => n = k
      <4>1. \A n, k \in 1 .. Len(freeQueue') : freeQueue'[n] = freeQueue'[k] => n + 1 = k + 1
        BY <3>1 DEF FreeHostsAreUnused
      <4>2. QED
        BY <4>1, <3>1
    <3>5. \A g \in Hosts \ created' : Unused(g)'
      BY <1>3 DEF FreeHostsAreUnused, Unused
    <3>6. QED
      BY <3>1, <3>2, <3>3, <3>4, <3>5 DEF FreeHostsAreUnused, Unused
  <2>2. CASE freeQueue = <<>> /\ freeQueue' = freeQueue
    BY <1>3, <2>2 DEF Allocate, FreeHostsAreUnused, Unused, TypeOK
  <2>3. QED
    BY <2>1, <2>2 DEF Allocate
<1>6. TypeOK'
  <2>1. /\ hostId' \in [Hosts -> Ids \cup {0}]
        /\ active' \in [Ids -> Hosts \cup {NoHost}]
        /\ eventSync' \in [Hosts -> BOOLEAN]
        /\ created' \subseteq Hosts
        /\ lastHostId' \in 0 .. MaxId
        /\ socket' \in [Hosts -> Ids \cup {INVALID_SOCKET}]
    <3>1. /\ active \in [Ids -> Hosts \cup {NoHost}]
          /\ eventSync \in [Hosts -> BOOLEAN]
          /\ created \subseteq Hosts
          /\ socket \in [Hosts -> Ids \cup {INVALID_SOCKET}]
      BY DEF TypeOK
    <3>2. /\ eventSync' \in [Hosts -> BOOLEAN]
          /\ active' \in [Ids -> Hosts \cup {NoHost}]
      BY <1>1, <1>3, <3>1
    <3>3. /\ hostId' \in [Hosts -> Ids \cup {0}]
          /\ socket' \in [Hosts -> Ids \cup {INVALID_SOCKET}]
      BY <1>1, <1>3, <3>1
    <3>4. QED
      BY <1>1, <1>3, <3>1, <3>2, <3>3
  <2>2. QED
    BY <1>4, <1>5, <2>1 DEF TypeOK, appVars
<1>7. TasksAreOwned' /\ TasksAreAlone'
  <2>1. TasksAreAlone'
    BY DEF TasksAreAlone, IsIssuing, Alike
  <2>2. ASSUME NEW k, NEW g \in Hosts, NEW i, Owned(k, g, i) PROVE Owned(k, g, i)'
    BY <1>2, <1>3, <2>2 DEF Owned, Unused
  <2>3. ASSUME NEW o \in ios PROVE Owned(o.kind, o.host, o.id)'
    <3>1. o.host \in Hosts /\ Owned(o.kind, o.host, o.id)
      BY DEF TypeOK, Ops, TasksAreOwned
    <3>2. QED
      BY <2>2, <3>1
  <2>4. ASSUME NEW t \in Threads, IsIssuing(t)
        PROVE  Owned(thread[t].kind, thread[t].host, thread[t].id)'
    <3>1. thread[t].host \in Hosts /\ Owned(thread[t].kind, thread[t].host, thread[t].id)
      BY <2>4, CallType DEF IsIssuing, TasksAreOwned
    <3>2. Owned(thread[t].kind, thread[t].host, thread[t].id)' <=>
          (Owned(thread[t].kind, thread[t].host, thread[t].id))'
      OBVIOUS
    <3>3. QED
      BY <1>2, <1>3, <3>1 DEF Owned, Unused
  <2>5. QED
    BY <2>1, <2>3, <2>4 DEF TasksAreOwned, IsIssuing
<1>8. IdsAreConsistent'
  <2>1. \A g \in Hosts : hostId'[g] <= lastHostId'
    BY <1>1, <1>3 DEF IdsAreConsistent
  <2>2. \A i \in Ids : hostList'[i] # NoHost => hostId'[hostList'[i]] = i
    BY <1>3 DEF IdsAreConsistent, TypeOK
  <2>3. \A i \in Ids : active'[i] # NoHost => hostId'[active'[i]] = i
    BY <1>1, <1>3 DEF IdsAreConsistent, TypeOK
  <2>4. \A g \in Hosts : eventSync'[g] => hostId'[g] # 0
    BY <1>1, <1>3 DEF IdsAreConsistent, TypeOK
  <2>5. ASSUME NEW f \in Hosts, NEW g \in Hosts, hostId'[f] = hostId'[g], hostId'[g] # 0
        PROVE  f = g
    <3>1. \A e \in Hosts : hostId[e] \in Nat /\ hostId[e] <= lastHostId /\ hostId[e] # new
      BY <1>1, <1>3 DEF IdsAreConsistent
    <3>2. QED
      BY <1>3, <2>5, <3>1 DEF IdsAreConsistent
  <2>6. QED
    BY <2>1, <2>2, <2>3, <2>4, <2>5 DEF IdsAreConsistent
<1>9. hostList[new] = NoHost
  BY <1>1 DEF IdsAreConsistent, TypeOK
<1>10. QueuedHostsAreNew'
  <2>1. ASSUME NEW k \in 1 .. Len(msgQueue) PROVE msgQueue[k].host # h
    BY <1>2, MsgType DEF QueuedHostsAreNew, Unused
  <2>2. /\ Msg(type, h, new).host = h /\ Msg(type, h, new).id = new
        /\ Msg(type, h, new).type # "Close"
    BY DEF Msg
  <2>3. \A k \in 1 .. Len(msgQueue') : k \in 1 .. Len(msgQueue) \/ k = Len(msgQueue) + 1
    BY <1>4
  <2>4. \A k \in 1 .. Len(msgQueue') : msgQueue'[k].type = "Close" <=> msgQueue'[k].host = NoHost
    BY <1>4, <2>2, <2>3 DEF QueuedHostsAreNew
  <2>5. ASSUME NEW k \in 1 .. Len(msgQueue'), msgQueue'[k].host # NoHost
        PROVE  /\ hostId'[msgQueue'[k].host] = msgQueue'[k].id
               /\ hostList'[msgQueue'[k].id] = NoHost
               /\ baseTask'[msgQueue'[k].host] = 0
               /\ sendTask'[msgQueue'[k].host] = 0
    <3>1. CASE k \in 1 .. Len(msgQueue)
      BY <1>3, <1>4, <2>1, <2>5, <3>1, MsgType DEF QueuedHostsAreNew
    <3>2. CASE k = Len(msgQueue) + 1
      BY <1>2, <1>3, <1>4, <1>9, <2>2, <3>2 DEF Unused
    <3>3. QED
      BY <2>3, <3>1, <3>2
  <2>6. ASSUME NEW k \in 1 .. Len(msgQueue'), NEW n \in 1 .. Len(msgQueue'),
               msgQueue'[k].host # NoHost, msgQueue'[k].host = msgQueue'[n].host
        PROVE  k = n
    BY <1>4, <2>1, <2>2, <2>3, <2>6 DEF QueuedHostsAreNew
  <2>7. QED
    BY <2>4, <2>5, <2>6 DEF QueuedHostsAreNew
<1>11. SocketIsOwn'
  BY <1>1, <1>2, <1>3 DEF SocketIsOwn, Unused, TypeOK
<1>12. QED
  BY <1>5, <1>6, <1>7, <1>8, <1>10, <1>11

\* What services and accepting workers ask of the controller only allocates and queues.
LEMMA RequestsKeepIInv ==
    ASSUME IInv, Requests
    PROVE  IInv'
<1>1. ASSUME NEW h \in Hosts, Connect(h) PROVE IInv'
  <2>1. kernelSocket' \in [Ids -> {"none", "created", "connected", "closed"}]
    BY <1>1 DEF IInv, TypeOK, Connect, kernelVars
  <2>2. QED
    BY <1>1, <2>1, AllocateKeepsIInv DEF Connect, kernelVars
<1>2. ASSUME NEW w \in Workers, NEW h \in Hosts, Join(w, h) PROVE IInv'
  <2>1. kernelSocket' \in [Ids -> {"none", "created", "connected", "closed"}]
    BY <1>2 DEF IInv, TypeOK, Join
  <2>2. QED
    BY <1>2, <2>1, AllocateKeepsIInv DEF Join
<1>3. QED
  BY <1>1, <1>2, CloseRequestKeepsIInv, FindHostKeepsIInv DEF Requests

\* An update of the sweep, and the host it looks at.
LEMMA UpdatedHost ==
    ASSUME IInv, NEW i \in Ids, Update(i)
    PROVE  /\ hostList[i] \in Hosts /\ hostId[hostList[i]] = i
           /\ thread[Ctl] = Idle /\ Ctl \in Threads
           /\ sweep' = sweep \ {i}
BY DEF IInv, TypeOK, IdsAreConsistent, Update

\* BeginSendTask takes a counter that is free, and posts one operation.
LEMMA UpdateAliveKeepsIInv ==
    ASSUME IInv, NEW i \in Ids, UpdateAlive(i)
    PROVE  IInv'
<1> DEFINE h == hostList[i]
           o == Op("Encrypt", h, i)
<1> USE DEF IInv
<1>1. /\ h \in Hosts /\ hostId[h] = i /\ thread[Ctl] = Idle /\ Ctl \in Threads
      /\ sweep' = sweep \ {i}
  BY UpdatedHost DEF UpdateAlive
<1>2. UNCHANGED <<hostId, socket, baseTask, eventSync, hostType, lastClose, poolVars,
                  hostList, connectorList, msgQueue, kernelSocket, appVars>>
  BY DEF UpdateAlive
<1>3. IdsAreConsistent' /\ SocketIsOwn'
  BY <1>1, <1>2 DEF IdsAreConsistent, SocketIsOwn, poolVars
<1>4. CASE UNCHANGED <<sendTask, ios, thread>>
  <2>1. TypeOK'
    BY <1>1, <1>2, <1>4 DEF TypeOK, poolVars, appVars
  <2>2. TasksAreOwned' /\ TasksAreAlone' /\ FreeHostsAreUnused' /\ QueuedHostsAreNew'
    BY <1>2, <1>4 DEF TasksAreOwned, TasksAreAlone, IsIssuing, Alike, Owned,
       FreeHostsAreUnused, Unused, QueuedHostsAreNew, poolVars
  <2>3. QED
    BY <1>3, <2>1, <2>2
<1>5. CASE /\ MayBeginSend(h) /\ sendTask' = [sendTask EXCEPT ![h] = 1]
           /\ ios' = ios \cup {o} /\ UNCHANGED thread
  <2>1. o \in Ops /\ o.kind \notin BaseKinds /\ o.host = h /\ o.id = i
    BY <1>1 DEF Op, Ops, SendKinds, BaseKinds
  <2>2. /\ sendTask[h] = 0 /\ sendTask \in [Hosts -> 0 .. 1]
        /\ \A p \in ios : p.host \in Hosts
        /\ \A t \in Threads : IsIssuing(t) => thread[t].host \in Hosts
    BY <1>5, CallType DEF MayBeginSend, TypeOK, Ops, IsIssuing
  <2>3. TypeOK'
    BY <1>1, <1>2, <1>5, <2>1 DEF TypeOK, poolVars, appVars
  <2>4. /\ \A p \in ios : ~Alike(o, p) /\ ~Alike(p, o)
        /\ \A t \in Threads : IsIssuing(t) => ~Alike(o, thread[t])
    BY <2>1, <2>2 DEF TasksAreOwned, Owned, Alike
  <2>5. TasksAreAlone'
    BY <1>5, <2>4 DEF TasksAreAlone, IsIssuing, Alike
  <2>6. TasksAreOwned'
    <3>1. ASSUME NEW k, NEW g \in Hosts, NEW j, Owned(k, g, j)
          PROVE  Owned(k, g, j)'
      BY <1>2, <1>5, <2>2, <3>1 DEF Owned
    <3>2. Owned(o.kind, o.host, o.id)'
      BY <1>1, <1>2, <1>5, <2>1, <2>2 DEF Owned
    <3>3. ASSUME NEW p \in ios' PROVE Owned(p.kind, p.host, p.id)'
      <4>1. CASE p = o
        BY <1>2, <3>2, <4>1 DEF Owned, Op
      <4>2. CASE p \in ios
        <5>1. p.host \in Hosts /\ Owned(p.kind, p.host, p.id)
          BY <2>2, <4>2 DEF TasksAreOwned
        <5>2. QED
          BY <3>1, <5>1
      <4>3. QED
        BY <1>5, <4>1, <4>2
    <3>4. ASSUME NEW t \in Threads, IsIssuing(t)
          PROVE  Owned(thread[t].kind, thread[t].host, thread[t].id)'
      BY <1>2, <1>5, <2>2, <3>4 DEF TasksAreOwned, Owned
    <3>5. QED
      BY <1>5, <3>3, <3>4 DEF TasksAreOwned, IsIssuing
  <2>7. FreeHostsAreUnused' /\ QueuedHostsAreNew'
    <3>1. FreeHostsAreUnused'
      BY <1>1, <1>2, <1>5, <2>2 DEF FreeHostsAreUnused, Unused, poolVars
    <3>2. QueuedHostsAreNew'
      BY <1>1, <1>2, <1>5, <2>2, MsgType DEF QueuedHostsAreNew
    <3>3. QED
      BY <3>1, <3>2
  <2>8. QED
    BY <1>3, <2>3, <2>5, <2>6, <2>7
<1>6. CASE /\ thread' = [thread EXCEPT ![Ctl] = Closing("close", h, i, "FailedToSendTask")]
           /\ UNCHANGED <<sendTask, ios>>
  <2>1. /\ Closing("close", h, i, "FailedToSendTask") \in Calls
        /\ Closing("close", h, i, "FailedToSendTask").pc # "issue"
        /\ Idle.pc # "issue"
    <3>1. "FailedToSendTask" \in CloseTypes
      BY DEF CloseTypes
    <3>2. Closing("close", h, i, "FailedToSendTask") \in Calls
      BY <1>1, <3>1, MadeCalls
    <3>3. QED
      BY <3>2 DEF Closing, Idle
  <2>2. TypeOK'
    BY <1>1, <1>2, <1>6, <2>1 DEF TypeOK, poolVars, appVars
  <2>3. TasksAreOwned' /\ TasksAreAlone' /\ FreeHostsAreUnused' /\ QueuedHostsAreNew'
    BY <1>1, <1>2, <1>6, <2>1 DEF TypeOK, TasksAreOwned, TasksAreAlone, IsIssuing, Alike, Owned,
       FreeHostsAreUnused, Unused, QueuedHostsAreNew, poolVars
  <2>4. QED
    BY <1>3, <2>2, <2>3
<1>7. QED
  BY <1>4, <1>5, <1>6 DEF UpdateAlive

\* A host is recycled only when no operation of its ID is left.
LEMMA UpdateDeadKeepsIInv ==
    ASSUME IInv, NEW i \in Ids, UpdateDead(i)
    PROVE  IInv'
<1> DEFINE h == hostList[i]
<1> USE DEF IInv
<1>1. /\ h \in Hosts /\ hostId[h] = i /\ sweep' = sweep \ {i}
  BY UpdatedHost DEF UpdateDead
<1>2. /\ baseTask \in [Hosts -> 0 .. 1] /\ sendTask \in [Hosts -> 0 .. 1]
      /\ hostId \in [Hosts -> Ids \cup {0}]
      /\ hostList \in [Ids -> Hosts \cup {NoHost}] /\ active \in [Ids -> Hosts \cup {NoHost}]
      /\ eventSync \in [Hosts -> BOOLEAN]
      /\ freeQueue \in Seq(Hosts) /\ i # 0
  BY DEF TypeOK
<1>3. baseTask[h] = 0 /\ sendTask[h] = 0
  BY <1>1, <1>2 DEF UpdateDead, IsAlive
<1>4. /\ active' = [active EXCEPT ![i] = NoHost]
      /\ hostId' = [hostId EXCEPT ![h] = 0]
      /\ hostType' = [hostType EXCEPT ![h] = "None"]
      /\ eventSync' = [eventSync EXCEPT ![h] = FALSE]
      /\ baseTask' = [baseTask EXCEPT ![h] = 0]
      /\ sendTask' = [sendTask EXCEPT ![h] = 0]
      /\ lastClose' = [lastClose EXCEPT ![h] = "Reset"]
      /\ freeQueue' = Append(freeQueue, h)
      /\ hostList' = [hostList EXCEPT ![i] = NoHost]
      /\ UNCHANGED <<socket, created, lastHostId, msgQueue, kernelVars, thread, asked>>
  BY <1>1 DEF UpdateDead, ReleaseHost
<1>5. /\ \A o \in ios : o.host \in Hosts /\ o.host # h
      /\ \A t \in Threads : IsIssuing(t) => thread[t].host \in Hosts /\ thread[t].host # h
  <2>1. \A k, j : ~Owned(k, h, j)
    BY <1>3 DEF Owned
  <2>2. \A o \in ios : o.host \in Hosts
    BY DEF TypeOK, Ops
  <2>3. \A t \in Threads : IsIssuing(t) => thread[t].host \in Hosts
    BY CallType DEF IsIssuing
  <2>4. QED
    BY <2>1, <2>2, <2>3 DEF TasksAreOwned
<1>6. TypeOK'
  <2>1. callback' \in [Ids -> Told]
    <3>1. callback \in [Ids -> Told]
      BY DEF TypeOK
    <3>2. CASE Tell(h, OnClose)
      BY <3>1, <3>2, ToldType DEF Tell
    <3>3. CASE Tell(h, OnConnectedFailed)
      BY <3>1, <3>3, ToldType DEF Tell
    <3>4. QED
      BY <3>2, <3>3 DEF UpdateDead
  <2>2. freeQueue' \in Seq(Hosts)
    BY <1>1, <1>2, <1>4
  <2>3. /\ hostType' \in [Hosts -> HostTypes] /\ lastClose' \in [Hosts -> CloseTypes]
    BY <1>4 DEF TypeOK, HostTypes, CloseTypes
  <2>4. connectorList' \subseteq Ids
    BY DEF UpdateDead, TypeOK
  <2>5. QED
    BY <1>1, <1>2, <1>4, <2>1, <2>2, <2>3, <2>4 DEF TypeOK, kernelVars
<1>7. TasksAreAlone'
  BY <1>4 DEF TasksAreAlone, IsIssuing, Alike, kernelVars
<1>8. TasksAreOwned'
  <2>1. ASSUME NEW k, NEW g \in Hosts, NEW j \in Ids, g # h, Owned(k, g, j)
        PROVE  Owned(k, g, j)'
    BY <1>1, <1>2, <1>4, <2>1 DEF Owned
  <2>2. \A o \in ios : Owned(o.kind, o.host, o.id)'
    BY <1>5, <2>1 DEF TasksAreOwned, TypeOK, Ops
  <2>3. ASSUME NEW t \in Threads, IsIssuing(t)
        PROVE  Owned(thread[t].kind, thread[t].host, thread[t].id)'
    <3>1. thread'[t] = thread[t] /\ thread[t].id \in Ids
      BY <1>4, <2>3, CallType DEF IsIssuing
    <3>2. QED
      BY <1>1, <1>2, <1>4, <1>5, <2>3, <3>1 DEF TasksAreOwned, Owned
  <2>4. QED
    BY <1>4, <2>2, <2>3 DEF TasksAreOwned, IsIssuing, kernelVars
<1>9. IdsAreConsistent'
  BY <1>1, <1>2, <1>4 DEF IdsAreConsistent, TypeOK
<1>10. FreeHostsAreUnused'
  <2>1. /\ Len(freeQueue') = Len(freeQueue) + 1 /\ Len(freeQueue) \in Nat
        /\ freeQueue'[Len(freeQueue) + 1] = h
        /\ \A n \in 1 .. Len(freeQueue) : freeQueue'[n] = freeQueue[n] /\ freeQueue[n] \in Hosts
    BY <1>1, <1>2, <1>4, ElementOfSeq
  <2>2. \A n \in 1 .. Len(freeQueue) : freeQueue[n] # h
    BY <1>1, <1>2 DEF FreeHostsAreUnused, Unused
  <2>3. h \in created
    BY <1>1, <1>2 DEF FreeHostsAreUnused, Unused
  <2>4. \A n \in 1 .. Len(freeQueue') : n \in 1 .. Len(freeQueue) \/ n = Len(freeQueue) + 1
    BY <2>1
  <2>5. \A n \in 1 .. Len(freeQueue) : Unused(freeQueue[n])' /\ freeQueue[n] \in created
    BY <1>2, <1>4, <2>1 DEF FreeHostsAreUnused, Unused
  <2>6. \A g \in Hosts \ created : Unused(g)'
    BY <1>2, <1>4 DEF FreeHostsAreUnused, Unused
  <2>7. ASSUME NEW n \in 1 .. Len(freeQueue')
        PROVE  /\ hostId'[freeQueue'[n]] = 0 /\ baseTask'[freeQueue'[n]] = 0
               /\ sendTask'[freeQueue'[n]] = 0 /\ freeQueue'[n] \in created'
    <3>1. CASE n \in 1 .. Len(freeQueue)
      <4>1. freeQueue'[n] = freeQueue[n] /\ Unused(freeQueue[n])' /\ freeQueue[n] \in created
        BY <2>1, <2>5, <3>1
      <4>2. QED
        BY <1>4, <4>1 DEF Unused
    <3>2. CASE n = Len(freeQueue) + 1
      <4>1. freeQueue'[n] = h
        BY <2>1, <3>2
      <4>2. hostId'[h] = 0 /\ baseTask'[h] = 0 /\ sendTask'[h] = 0 /\ h \in created'
        BY <1>1, <1>2, <1>4, <2>3
      <4>3. QED
        BY <4>1, <4>2
    <3>3. QED
      BY <2>4, <3>1, <3>2
  <2>8. \A n, k \in 1 .. Len(freeQueue') : freeQueue'[n] = freeQueue'[k] => n = k
    BY <2>1, <2>2, <2>4 DEF FreeHostsAreUnused
  <2>9. QED
    BY <1>4, <2>6, <2>7, <2>8 DEF FreeHostsAreUnused, Unused
<1>11. QueuedHostsAreNew'
  BY <1>1, <1>2, <1>4, MsgType DEF QueuedHostsAreNew
<1>12. SocketIsOwn'
  BY <1>1, <1>2, <1>4 DEF SocketIsOwn, UpdateDead, IsAlive
<1>13. QED
  BY <1>6, <1>7, <1>8, <1>9, <1>10, <1>11, <1>12

\* What the controller knows of the message it takes, and what stays queued.
LEMMA PoppedMessage ==
    ASSUME IInv, NEW type, Pop(type)
    PROVE  /\ Head(msgQueue).id \in Ids /\ Head(msgQueue).host \in Hosts \cup {NoHost}
           /\ thread[Ctl] = Idle /\ Ctl \in Threads /\ sweep = {}
           /\ msgQueue' \in Seq(Msgs)
           /\ \A k \in 1 .. Len(msgQueue') :
                k + 1 \in 1 .. Len(msgQueue) /\ k \in Nat /\ msgQueue'[k] = msgQueue[k + 1]
           /\ type # "Close" =>
                /\ Head(msgQueue).host \in Hosts
                /\ hostId[Head(msgQueue).host] = Head(msgQueue).id
                /\ hostList[Head(msgQueue).id] = NoHost
                /\ baseTask[Head(msgQueue).host] = 0
                /\ sendTask[Head(msgQueue).host] = 0
                /\ \A k \in 1 .. Len(msgQueue') : msgQueue'[k].host # NoHost =>
                     msgQueue'[k].host # Head(msgQueue).host /\ msgQueue'[k].id # Head(msgQueue).id
<1> USE DEF IInv
<1> DEFINE m == Head(msgQueue)
<1>1. /\ msgQueue \in Seq(Msgs) /\ msgQueue # <<>> /\ m.type = type
      /\ thread[Ctl] = Idle /\ Ctl \in Threads /\ sweep = {} /\ msgQueue' = Tail(msgQueue)
  BY DEF Pop, TypeOK
<1>2. /\ Len(msgQueue) \in Nat /\ Len(msgQueue) # 0 /\ m = msgQueue[1] /\ m \in Msgs
      /\ msgQueue' \in Seq(Msgs) /\ Len(msgQueue') = Len(msgQueue) - 1
      /\ \A k \in 1 .. Len(msgQueue') : msgQueue'[k] = msgQueue[k + 1]
  BY <1>1, EmptySeq, HeadTailProperties
<1>3. \A k \in 1 .. Len(msgQueue') :
        k + 1 \in 1 .. Len(msgQueue) /\ k \in Nat /\ msgQueue'[k] = msgQueue[k + 1] /\ k + 1 # 1
  BY <1>2
<1>4. m.id \in Ids /\ m.host \in Hosts \cup {NoHost} /\ 1 \in 1 .. Len(msgQueue)
  BY <1>2 DEF Msgs
<1>5. ASSUME type # "Close"
      PROVE  /\ m.host \in Hosts /\ hostId[m.host] = m.id /\ hostList[m.id] = NoHost
             /\ baseTask[m.host] = 0 /\ sendTask[m.host] = 0
             /\ \A k \in 1 .. Len(msgQueue') : msgQueue'[k].host # NoHost =>
                  msgQueue'[k].host # m.host /\ msgQueue'[k].id # m.id
  <2>1. m.host # NoHost
    BY <1>1, <1>2, <1>4, <1>5 DEF QueuedHostsAreNew
  <2>2. /\ m.host \in Hosts /\ hostId[m.host] = m.id /\ hostList[m.id] = NoHost
        /\ baseTask[m.host] = 0 /\ sendTask[m.host] = 0
    BY <1>2, <1>4, <2>1 DEF QueuedHostsAreNew
  <2>3. ASSUME NEW k \in 1 .. Len(msgQueue'), msgQueue'[k].host # NoHost
        PROVE  msgQueue'[k].host # m.host /\ msgQueue'[k].id # m.id
    <3>1. /\ msgQueue[k + 1].host \in Hosts /\ msgQueue[k + 1].host # m.host
          /\ hostId[msgQueue[k + 1].host] = msgQueue[k + 1].id
      BY <1>2, <1>3, <1>4, <2>1, <2>3, MsgType DEF QueuedHostsAreNew
    <3>2. m.id # 0
      BY <1>4
    <3>3. QED
      BY <1>3, <2>2, <3>1, <3>2 DEF IdsAreConsistent
  <2>4. QED
    BY <2>2, <2>3
<1>6. QED
  BY <1>1, <1>2, <1>3, <1>4, <1>5

\* A host taken from the queue enters the list, with its first task or without.
LEMMA ListedHost ==
    ASSUME IInv, NEW type, type # "Close", Pop(type),
           NEW h, h = Head(msgQueue).host, NEW i, i = Head(msgQueue).id,
           hostList' = [hostList EXCEPT ![i] = h], sweep' = Listed(hostList'),
           NEW c \in Calls, thread' = [thread EXCEPT ![Ctl] = c],
           \/ c.pc # "issue" /\ baseTask' = baseTask
           \/ /\ \E kind \in BaseKinds : c = Issuing(kind, h, i)
              /\ baseTask' = [baseTask EXCEPT ![h] = @ + 1],
           socket' = socket \/ socket' = [socket EXCEPT ![h] = i],
           UNCHANGED <<hostId, sendTask, eventSync, lastClose, poolVars, ios, asked>>,
           connectorList' \subseteq Ids, hostType' \in [Hosts -> HostTypes],
           kernelSocket' \in [Ids -> {"none", "created", "connected", "closed"}],
           callback' \in [Ids -> Told]
    PROVE  IInv'
<1> USE DEF IInv
<1>1. /\ h \in Hosts /\ i \in Ids /\ hostId[h] = i /\ hostList[i] = NoHost
      /\ baseTask[h] = 0 /\ sendTask[h] = 0
      /\ thread[Ctl].pc # "issue" /\ Ctl \in Threads
      /\ msgQueue' \in Seq(Msgs)
      /\ \A k \in 1 .. Len(msgQueue') :
           /\ k + 1 \in 1 .. Len(msgQueue) /\ k \in Nat /\ msgQueue'[k] = msgQueue[k + 1]
           /\ msgQueue'[k].host # NoHost => msgQueue'[k].host # h /\ msgQueue'[k].id # i
  BY PoppedMessage DEF Idle
<1>2. /\ baseTask \in [Hosts -> 0 .. 1] /\ sendTask \in [Hosts -> 0 .. 1]
      /\ hostId \in [Hosts -> Ids \cup {0}] /\ hostList \in [Ids -> Hosts \cup {NoHost}]
      /\ socket \in [Hosts -> Ids \cup {0}] /\ thread \in [Threads -> Calls]
      /\ freeQueue \in Seq(Hosts) /\ i # 0
  BY <1>1 DEF TypeOK
<1>3. /\ baseTask' \in [Hosts -> 0 .. 1]
      /\ \A g \in Hosts : g # h => baseTask'[g] = baseTask[g]
      /\ c.pc = "issue" => /\ baseTask'[h] = 1 /\ c.kind \in BaseKinds
                           /\ c.host = h /\ c.id = i
      /\ c.pc # "issue" => baseTask'[h] = 0
  <2>1. CASE c.pc # "issue" /\ baseTask' = baseTask
    BY <1>1, <1>2, <2>1
  <2>2. CASE /\ \E kind \in BaseKinds : c = Issuing(kind, h, i)
             /\ baseTask' = [baseTask EXCEPT ![h] = @ + 1]
    <3>1. baseTask[h] + 1 = 1
      BY <1>1
    <3>2. baseTask' = [baseTask EXCEPT ![h] = 1]
      BY <2>2, <3>1
    <3>3. c.pc = "issue" /\ c.kind \in BaseKinds /\ c.host = h /\ c.id = i
      BY <2>2 DEF Issuing
    <3>4. QED
      BY <1>1, <1>2, <3>2, <3>3
  <2>3. QED
    BY <2>1, <2>2
<1>4. TypeOK'
  <2>1. /\ hostList' \in [Ids -> Hosts \cup {NoHost}] /\ sweep' \subseteq Ids
        /\ thread' \in [Threads -> Calls] /\ socket' \in [Hosts -> Ids \cup {INVALID_SOCKET}]
    BY <1>1, <1>2 DEF Listed
  <2>2. QED
    BY <1>1, <1>3, <2>1 DEF TypeOK, poolVars
<1>5. \A k, j : \A g \in Hosts : Owned(k, g, j) => g # h
  BY <1>1, <1>2 DEF Owned
<1>6. /\ \A o \in ios : o.host \in Hosts /\ o.id \in Ids /\ o.host # h /\ Owned(o.kind, o.host, o.id)
      /\ \A t \in Threads : IsIssuing(t) =>
           /\ thread[t].host \in Hosts /\ thread[t].id \in Ids /\ thread[t].host # h
           /\ Owned(thread[t].kind, thread[t].host, thread[t].id)
  <2>1. \A o \in ios : o.host \in Hosts /\ o.id \in Ids
    BY DEF TypeOK, Ops
  <2>2. \A t \in Threads : IsIssuing(t) => thread[t].host \in Hosts /\ thread[t].id \in Ids
    BY CallType DEF IsIssuing
  <2>3. QED
    BY <1>5, <2>1, <2>2 DEF TasksAreOwned
<1>7. ASSUME NEW k, NEW g \in Hosts, NEW j \in Ids, g # h, Owned(k, g, j)
      PROVE  Owned(k, g, j)'
  BY <1>1, <1>2, <1>3, <1>7 DEF Owned
<1>8. TasksAreOwned'
  <2>1. \A o \in ios' : Owned(o.kind, o.host, o.id)'
    BY <1>6, <1>7
  <2>2. ASSUME NEW t \in Threads, thread'[t].pc = "issue"
        PROVE  LET d == thread'[t] IN
               /\ hostId'[d.host] = d.id /\ hostList'[d.id] = d.host
               /\ IF d.kind \in BaseKinds THEN baseTask'[d.host] = 1 ELSE sendTask'[d.host] = 1
    <3>1. CASE t = Ctl
      BY <1>1, <1>2, <1>3, <2>2, <3>1
    <3>2. CASE t # Ctl
      <4>1. thread'[t] = thread[t] /\ IsIssuing(t)
        BY <1>2, <2>2, <3>2 DEF IsIssuing
      <4>2. /\ thread[t].host \in Hosts /\ thread[t].id \in Ids /\ thread[t].host # h
            /\ Owned(thread[t].kind, thread[t].host, thread[t].id)
        BY <1>6, <4>1
      <4>3. QED
        BY <1>1, <1>2, <1>3, <4>1, <4>2 DEF Owned
    <3>3. QED
      BY <3>1, <3>2
  <2>3. QED
    BY <2>1, <2>2 DEF TasksAreOwned, IsIssuing, Owned
<1>9. TasksAreAlone'
  BY SMTT(40), <1>1, <1>2, <1>3, <1>6 DEF TasksAreAlone, IsIssuing, Alike
<1>10. IdsAreConsistent'
  BY <1>1, <1>2 DEF IdsAreConsistent, Listed, poolVars
<1>11. FreeHostsAreUnused'
  <2>1. ASSUME NEW g \in Hosts, Unused(g) PROVE hostId'[g] = 0 /\ baseTask'[g] = 0 /\ sendTask'[g] = 0
    BY <1>1, <1>2, <1>3, <2>1 DEF Unused
  <2>2. \A n \in 1 .. Len(freeQueue) : freeQueue[n] \in Hosts
    BY <1>2, ElementOfSeq
  <2>3. QED
    BY <2>1, <2>2 DEF FreeHostsAreUnused, Unused, poolVars
<1>12. QueuedHostsAreNew'
  <2>1. ASSUME NEW k \in 1 .. Len(msgQueue')
        PROVE  msgQueue'[k].type = "Close" <=> msgQueue'[k].host = NoHost
    BY <1>1 DEF QueuedHostsAreNew
  <2>2. ASSUME NEW k \in 1 .. Len(msgQueue'), msgQueue'[k].host # NoHost
        PROVE  /\ hostId'[msgQueue'[k].host] = msgQueue'[k].id
               /\ hostList'[msgQueue'[k].id] = NoHost
               /\ baseTask'[msgQueue'[k].host] = 0
               /\ sendTask'[msgQueue'[k].host] = 0
    <3>1. /\ msgQueue'[k].host \in Hosts /\ msgQueue'[k].id \in Ids
          /\ msgQueue'[k].host # h /\ msgQueue'[k].id # i
          /\ hostId[msgQueue'[k].host] = msgQueue'[k].id
          /\ hostList[msgQueue'[k].id] = NoHost
          /\ baseTask[msgQueue'[k].host] = 0
          /\ sendTask[msgQueue'[k].host] = 0
      BY <1>1, <2>2, MsgType DEF QueuedHostsAreNew
    <3>2. QED
      BY <1>1, <1>2, <1>3, <3>1
  <2>3. ASSUME NEW k \in 1 .. Len(msgQueue'), NEW n \in 1 .. Len(msgQueue'),
               msgQueue'[k].host # NoHost, msgQueue'[k].host = msgQueue'[n].host
        PROVE  k = n
    <3>1. k + 1 = n + 1 /\ k \in Nat /\ n \in Nat
      <4>1. /\ k + 1 \in 1 .. Len(msgQueue) /\ n + 1 \in 1 .. Len(msgQueue)
            /\ k \in Nat /\ n \in Nat
            /\ msgQueue[k + 1].host # NoHost /\ msgQueue[k + 1].host = msgQueue[n + 1].host
        BY <1>1, <2>3
      <4>2. QED
        BY <4>1 DEF QueuedHostsAreNew
    <3>2. QED
      BY <3>1
  <2>4. QED
    BY <2>1, <2>2, <2>3 DEF QueuedHostsAreNew
<1>13. SocketIsOwn'
  BY <1>1, <1>2 DEF SocketIsOwn
<1>14. QED
  BY <1>4, <1>8, <1>9, <1>10, <1>11, <1>12, <1>13

\* _AddHost, as ListedHost wants it.
LEMMA AddedHost ==
    ASSUME IInv, NEW h \in Hosts, NEW i \in Ids, AddHost(h, i) \/ AddHostFails(h, i)
    PROVE  /\ hostList' = [hostList EXCEPT ![i] = h]
           /\ socket' = socket \/ socket' = [socket EXCEPT ![h] = i]
           /\ kernelSocket' \in [Ids -> {"none", "created", "connected", "closed"}]
BY DEF IInv, TypeOK, AddHost, AddHostFails

\* When _AddHost fails, the controller is idle or closes the host.
LEMMA FailedAddHost ==
    ASSUME IInv, NEW h \in Hosts, NEW i \in Ids, AddHostFails(h, i), thread[Ctl] = Idle
    PROVE  \E c \in Calls : c.pc # "issue" /\ thread' = [thread EXCEPT ![Ctl] = c]
<1>1. thread \in [Threads -> Calls] /\ Ctl \in Threads
  BY DEF IInv, TypeOK
<1>2. CASE UNCHANGED thread
  <2>1. thread' = [thread EXCEPT ![Ctl] = Idle] /\ Idle \in Calls /\ Idle.pc # "issue"
    BY <1>1, <1>2 DEF Idle, Calls
  <2>2. QED
    BY <2>1
<1>3. CASE thread' = [thread EXCEPT ![Ctl] = Closing("close", h, i, "RegisterWorkerFail")]
  <2>1. "RegisterWorkerFail" \in CloseTypes
    BY DEF CloseTypes
  <2>2. Closing("close", h, i, "RegisterWorkerFail") \in Calls
    BY <2>1, MadeCalls
  <2>3. Closing("close", h, i, "RegisterWorkerFail").pc # "issue"
    BY DEF Closing
  <2>4. QED
    BY <1>3, <2>2, <2>3
<1>4. QED
  BY <1>2, <1>3 DEF AddHostFails

\* A connector enters the list, alone or with its first task.
LEMMA ProcessConnectKeepsIInv ==
    ASSUME IInv, ProcessConnect
    PROVE  IInv'
<1> DEFINE h == Head(msgQueue).host
           i == Head(msgQueue).id
<1>1. /\ Pop("Connect") /\ h \in Hosts /\ i \in Ids /\ thread[Ctl] = Idle
      /\ sweep' = Listed(hostList')
      /\ UNCHANGED <<hostId, sendTask, eventSync, lastClose, poolVars, ios, asked, hostType, callback>>
  BY PoppedMessage DEF ProcessConnect, appVars
<1>2. /\ callback' \in [Ids -> Told] /\ hostType' \in [Hosts -> HostTypes]
      /\ connectorList \subseteq Ids
  BY <1>1 DEF IInv, TypeOK
<1>3. CASE AddHostFails(h, i) /\ UNCHANGED <<connectorList, baseTask>>
  <2>1. PICK c \in Calls : c.pc # "issue" /\ thread' = [thread EXCEPT ![Ctl] = c]
    BY <1>1, <1>3, FailedAddHost
  <2>2. /\ hostList' = [hostList EXCEPT ![i] = h]
        /\ socket' = socket \/ socket' = [socket EXCEPT ![h] = i]
        /\ kernelSocket' \in [Ids -> {"none", "created", "connected", "closed"}]
    BY <1>1, <1>3, AddedHost
  <2>3. baseTask' = baseTask /\ connectorList' \subseteq Ids
    BY <1>2, <1>3
  <2>4. QED
    BY <1>1, <1>2, <2>1, <2>2, <2>3, ListedHost
<1>4. CASE /\ AddHost(h, i) /\ connectorList' = connectorList \cup {i}
           /\ baseTask' = [baseTask EXCEPT ![h] = @ + 1]
           /\ thread' = [thread EXCEPT ![Ctl] = Issuing("Connect", h, i)]
  <2>1. "Connect" \in BaseKinds /\ Issuing("Connect", h, i) \in Calls
    BY <1>1, MadeCalls DEF BaseKinds
  <2>2. /\ hostList' = [hostList EXCEPT ![i] = h]
        /\ socket' = socket \/ socket' = [socket EXCEPT ![h] = i]
        /\ kernelSocket' \in [Ids -> {"none", "created", "connected", "closed"}]
    BY <1>1, <1>4, AddedHost
  <2>3. /\ \E kind \in BaseKinds : Issuing("Connect", h, i) = Issuing(kind, h, i)
        /\ connectorList' \subseteq Ids
    BY <1>1, <1>2, <1>4, <2>1
  <2>4. QED
    BY <1>1, <1>2, <1>4, <2>1, <2>2, <2>3, ListedHost
<1>5. QED
  BY <1>3, <1>4 DEF ProcessConnect

\* An accepted host enters the list, alone or with its first task.
LEMMA ProcessJoinKeepsIInv ==
    ASSUME IInv, ProcessJoin
    PROVE  IInv'
<1> DEFINE h == Head(msgQueue).host
           i == Head(msgQueue).id
<1>1. /\ Pop("Join") /\ h \in Hosts /\ i \in Ids /\ thread[Ctl] = Idle
      /\ sweep' = Listed(hostList')
      /\ UNCHANGED <<hostId, sendTask, eventSync, lastClose, poolVars, ios, asked>>
  BY PoppedMessage DEF ProcessJoin
<1>2. callback \in [Ids -> Told] /\ hostType \in [Hosts -> HostTypes] /\ connectorList \subseteq Ids
  BY <1>1 DEF IInv, TypeOK
<1>3. CASE AddHostFails(h, i) /\ UNCHANGED <<connectorList, hostType, baseTask, callback>>
  <2>1. PICK c \in Calls : c.pc # "issue" /\ thread' = [thread EXCEPT ![Ctl] = c]
    BY <1>1, <1>3, FailedAddHost
  <2>2. /\ hostList' = [hostList EXCEPT ![i] = h]
        /\ socket' = socket \/ socket' = [socket EXCEPT ![h] = i]
        /\ kernelSocket' \in [Ids -> {"none", "created", "connected", "closed"}]
    BY <1>1, <1>3, AddedHost
  <2>3. /\ baseTask' = baseTask /\ connectorList' \subseteq Ids
        /\ hostType' \in [Hosts -> HostTypes] /\ callback' \in [Ids -> Told]
    BY <1>2, <1>3
  <2>4. QED
    BY <1>1, <1>2, <2>1, <2>2, <2>3, ListedHost
<1>4. CASE /\ AddHost(h, i) /\ connectorList' = connectorList \cup {i}
           /\ Tell(h, OnConnect)
           /\ hostType' = [hostType EXCEPT ![h] = "Acceptor"]
           /\ baseTask' = [baseTask EXCEPT ![h] = @ + 1]
           /\ thread' = [thread EXCEPT ![Ctl] = Issuing("Receive", h, i)]
  <2>1. "Receive" \in BaseKinds /\ Issuing("Receive", h, i) \in Calls
    BY <1>1, MadeCalls DEF BaseKinds
  <2>2. callback' \in [Ids -> Told] /\ hostType' \in [Hosts -> HostTypes]
    BY <1>2, <1>4, ToldType DEF Tell, HostTypes
  <2>3. /\ hostList' = [hostList EXCEPT ![i] = h]
        /\ socket' = socket \/ socket' = [socket EXCEPT ![h] = i]
        /\ kernelSocket' \in [Ids -> {"none", "created", "connected", "closed"}]
    BY <1>1, <1>4, AddedHost
  <2>4. /\ \E kind \in BaseKinds : Issuing("Receive", h, i) = Issuing(kind, h, i)
        /\ connectorList' \subseteq Ids
    BY <1>1, <1>2, <1>4, <2>1
  <2>5. QED
    BY <1>1, <1>2, <1>4, <2>1, <2>2, <2>3, <2>4, ListedHost
<1>5. QED
  BY <1>3, <1>4 DEF ProcessJoin

\* The controller takes a close request from the queue and may enter Close.
LEMMA ProcessCloseKeepsIInv ==
    ASSUME IInv, ProcessClose
    PROVE  IInv'
<1> DEFINE i == Head(msgQueue).id
           h == hostList[i]
<1> USE DEF IInv
<1>1. /\ Pop("Close") /\ i \in Ids /\ thread[Ctl] = Idle /\ Ctl \in Threads
      /\ sweep' = Listed(hostList) /\ connectorList' = connectorList \ {i}
      /\ UNCHANGED <<hostVars, poolVars, hostList, kernelVars, appVars>>
      /\ msgQueue' \in Seq(Msgs)
      /\ \A k \in 1 .. Len(msgQueue') :
           k + 1 \in 1 .. Len(msgQueue) /\ k \in Nat /\ msgQueue'[k] = msgQueue[k + 1]
  BY PoppedMessage DEF ProcessClose
<1>2. PICK c \in Calls : c.pc # "issue" /\ thread' = [thread EXCEPT ![Ctl] = c]
  <2>1. thread \in [Threads -> Calls] /\ h \in Hosts \cup {NoHost}
    BY <1>1 DEF TypeOK
  <2>2. CASE h = NoHost
    <3>1. thread' = [thread EXCEPT ![Ctl] = Idle] /\ Idle \in Calls /\ Idle.pc # "issue"
      BY <1>1, <2>1, <2>2 DEF Idle, Calls, ProcessClose
    <3>2. QED
      BY <3>1
  <2>3. CASE h \in Hosts
    <3>1. "ProcessClose" \in CloseTypes
      BY DEF CloseTypes
    <3>2. Closing("close", h, i, "ProcessClose") \in Calls
      BY <1>1, <2>3, <3>1, MadeCalls
    <3>3. Closing("close", h, i, "ProcessClose").pc # "issue"
      BY DEF Closing
    <3>4. QED
      BY <2>3, <3>2, <3>3 DEF ProcessClose
  <2>4. QED
    BY <2>1, <2>2, <2>3
<1>3. TypeOK'
  BY <1>1, <1>2 DEF TypeOK, Listed, hostVars, poolVars, kernelVars, appVars
<1>4. TasksAreOwned' /\ TasksAreAlone'
  BY <1>1, <1>2 DEF TypeOK, TasksAreOwned, TasksAreAlone, IsIssuing, Alike, Owned,
     hostVars, kernelVars
<1>5. (IdsAreConsistent /\ FreeHostsAreUnused /\ SocketIsOwn)'
  BY <1>1 DEF IdsAreConsistent, FreeHostsAreUnused, Unused, SocketIsOwn, Listed, hostVars, poolVars
<1>6. QueuedHostsAreNew'
  <2>1. ASSUME NEW k \in 1 .. Len(msgQueue'), NEW n \in 1 .. Len(msgQueue'),
               msgQueue'[k].host # NoHost, msgQueue'[k].host = msgQueue'[n].host
        PROVE  k = n
    <3>1. k + 1 = n + 1 /\ k \in Nat /\ n \in Nat
      <4>1. /\ k + 1 \in 1 .. Len(msgQueue) /\ n + 1 \in 1 .. Len(msgQueue)
            /\ k \in Nat /\ n \in Nat
            /\ msgQueue[k + 1].host # NoHost /\ msgQueue[k + 1].host = msgQueue[n + 1].host
        BY <1>1, <2>1
      <4>2. QED
        BY <4>1 DEF QueuedHostsAreNew
    <3>2. QED
      BY <3>1
  <2>2. \A k \in 1 .. Len(msgQueue') : k + 1 \in 1 .. Len(msgQueue) /\ msgQueue'[k] = msgQueue[k + 1]
    BY <1>1
  <2>3. \A k \in 1 .. Len(msgQueue') :
          /\ msgQueue'[k].type = "Close" <=> msgQueue'[k].host = NoHost
          /\ msgQueue'[k].host # NoHost =>
               /\ hostId[msgQueue'[k].host] = msgQueue'[k].id
               /\ hostList[msgQueue'[k].id] = NoHost
               /\ baseTask[msgQueue'[k].host] = 0
               /\ sendTask[msgQueue'[k].host] = 0
    BY <2>2 DEF QueuedHostsAreNew
  <2>4. UNCHANGED <<hostId, hostList, baseTask, sendTask>>
    BY <1>1 DEF hostVars
  <2>5. QED
    BY <2>1, <2>3, <2>4 DEF QueuedHostsAreNew
<1>7. QED
  BY <1>3, <1>4, <1>5, <1>6

\* Every step of every thread keeps the invariant.
LEMMA NextKeepsIInv ==
    ASSUME IInv, [Next]_vars
    PROVE  IInv'
<1>1. CASE UNCHANGED vars
  BY <1>1 DEF IInv, TypeOK, TasksAreOwned, TasksAreAlone, IsIssuing, Alike, Owned,
     IdsAreConsistent, FreeHostsAreUnused, Unused, QueuedHostsAreNew, SocketIsOwn,
     vars, hostVars, poolVars, ctlVars, kernelVars, appVars
<1>2. CASE Requests
  BY <1>2, RequestsKeepIInv
<1>3. CASE Controller
  BY <1>3, UpdateAliveKeepsIInv, UpdateDeadKeepsIInv, PopNothingKeepsIInv,
     ProcessConnectKeepsIInv, ProcessJoinKeepsIInv, ProcessCloseKeepsIInv DEF Controller
<1>4. ASSUME NEW w \in Workers, NEW o \in Ops, Complete(w, o) PROVE IInv'
  BY <1>4, ProcessReceiveKeepsIInv, CompleteConnectKeepsIInv, ProcessEncryptKeepsIInv,
     ProcessSendKeepsIInv DEF Complete
<1>5. ASSUME NEW t \in Threads, Continue(t) PROVE IInv'
  BY <1>5, CloseKeepsIInv, IssueKeepsIInv DEF Continue
<1>6. CASE Waiting
  BY <1>6, WaitingKeepsIInv
<1>7. QED
  BY <1>1, <1>2, <1>3, <1>4, <1>5, <1>6 DEF Next

\* The strengthened invariant holds in every reachable state: the controller, the
\* workers and a sender may interleave at will over the unlocked host objects.
THEOREM LifecycleInvariant == Spec => []IInv
<1>1. IInv /\ [Next]_vars => IInv'
  BY NextKeepsIInv
<1>2. QED
  BY InitIInv, <1>1, PTL DEF Spec

\* Every variable of the life of a host keeps its type; in particular the task
\* counters of NetworkHostPO never leave 0 .. 1.
THEOREM TypeCorrect == Spec => []TypeOK
<1>1. IInv => TypeOK
  BY DEF IInv
<1>2. QED
  BY LifecycleInvariant, <1>1, PTL

\* The host a completion is handed to is the one it was issued for, still listed
\* under its ID: a host is recycled only after its last operation.
THEOREM CompletionsAreFresh == Spec => []NoStaleCompletion
<1>1. IInv => NoStaleCompletion
  <2>1. SUFFICES ASSUME IInv, NEW h \in Hosts, NEW i \in Ids
                 PROVE  /\ Holds(BaseKinds, h, i) =>
                             hostId[h] = i /\ hostList[i] = h /\ baseTask[h] = 1
                        /\ Holds(SendKinds, h, i) =>
                             hostId[h] = i /\ hostList[i] = h /\ sendTask[h] = 1
    BY DEF NoStaleCompletion
  <2>2. BaseKinds \cap SendKinds = {}
    BY DEF BaseKinds, SendKinds
  <2>3. /\ \A o \in ios : Owned(o.kind, o.host, o.id)
        /\ \A t \in Threads : thread[t].pc = "issue" =>
             Owned(thread[t].kind, thread[t].host, thread[t].id)
    BY <2>1 DEF IInv, TasksAreOwned, IsIssuing
  <2>4. ASSUME Holds(BaseKinds, h, i)
        PROVE  hostId[h] = i /\ hostList[i] = h /\ baseTask[h] = 1
    BY <2>3, <2>4 DEF Holds, Owned
  <2>5. ASSUME Holds(SendKinds, h, i)
        PROVE  hostId[h] = i /\ hostList[i] = h /\ sendTask[h] = 1
    BY <2>2, <2>3, <2>5 DEF Holds, Owned
  <2>6. QED
    BY <2>4, <2>5
<1>2. QED
  BY LifecycleInvariant, <1>1, PTL

\* A socket always belongs to the present incarnation of its host.
THEOREM SocketsAreOwn == Spec => []SocketIsOwn
<1>1. IInv => SocketIsOwn
  BY DEF IInv
<1>2. QED
  BY LifecycleInvariant, <1>1, PTL

\* A host that is queued for the controller is in no other hands: the duplicate
\* branch of _AddHost is never taken.
THEOREM QueuedIdsAreUnlisted == Spec => []NewIdsAreUnlisted
<1>1. IInv => NewIdsAreUnlisted
  <2>1. SUFFICES ASSUME IInv PROVE NewIdsAreUnlisted
    OBVIOUS
  <2>2. QueuedHostsAreNew /\ DOMAIN msgQueue = 1 .. Len(msgQueue)
    BY <2>1 DEF IInv, TypeOK
  <2>3. QED
    BY <2>2 DEF QueuedHostsAreNew, NewIdsAreUnlisted
<1>2. QED
  BY LifecycleInvariant, <1>1, PTL

\* A host that waits in the pool is in nobody's hands.
THEOREM PoolIsClean == Spec => []FreeHostsAreClean
<1>1. IInv => FreeHostsAreClean
  <2>1. SUFFICES ASSUME IInv, NEW n \in DOMAIN freeQueue
                 PROVE  LET h == freeQueue[n] IN
                        /\ socket[h] = INVALID_SOCKET /\ baseTask[h] = 0 /\ sendTask[h] = 0
                        /\ ~eventSync[h]
                        /\ \A i \in Ids : active[i] # h /\ hostList[i] # h
                        /\ \A k \in DOMAIN msgQueue : msgQueue[k].host # h
                        /\ \A k \in DOMAIN freeQueue : freeQueue[k] = h => k = n
    BY DEF FreeHostsAreClean
  <2>2. freeQueue \in Seq(Hosts) /\ eventSync \in [Hosts -> BOOLEAN] /\ TypeOK
    BY <2>1 DEF IInv, TypeOK
  <2>3. DOMAIN freeQueue = 1 .. Len(freeQueue) /\ DOMAIN msgQueue = 1 .. Len(msgQueue)
    BY <2>2 DEF TypeOK
  <2> DEFINE h == freeQueue[n]
  <2>4. h \in Hosts /\ h # NoHost
    BY <2>1, <2>2, <2>3, ElementOfSeq, LifecycleAssumption
  <2>5. /\ hostId[h] = 0 /\ baseTask[h] = 0 /\ sendTask[h] = 0
        /\ \A k \in DOMAIN freeQueue : freeQueue[k] = h => k = n
    BY <2>1, <2>3 DEF IInv, FreeHostsAreUnused, Unused
  <2>6. socket[h] = INVALID_SOCKET /\ ~eventSync[h]
    BY <2>1, <2>2, <2>4, <2>5 DEF IInv, SocketIsOwn, IdsAreConsistent, INVALID_SOCKET
  <2>7. \A i \in Ids : i # 0
    BY DEF Ids
  <2>8. \A i \in Ids : active[i] # h /\ hostList[i] # h
    BY <2>1, <2>4, <2>5, <2>7 DEF IInv, IdsAreConsistent
  <2>9. \A k \in DOMAIN msgQueue : msgQueue[k].host # h
    BY <2>1, <2>2, <2>3, <2>4, <2>5, <2>7, MsgType DEF IInv, QueuedHostsAreNew
  <2>10. QED
    BY <2>5, <2>6, <2>8, <2>9
<1>2. QED
  BY LifecycleInvariant, <1>1, PTL

\* A set whose elements are all equal has at most one.
LEMMA AtMostOne ==
    ASSUME NEW S, \A x, y \in S : x = y
    PROVE  Cardinality(S) \in {0, 1} /\ (Cardinality(S) = 1 => S # {})
<1>1. CASE S = {}
  BY <1>1, FS_EmptySet
<1>2. CASE S # {}
  <2>1. PICK x : x \in S
    BY <1>2
  <2>2. S = {x}
    BY <2>1
  <2>3. QED
    BY <1>2, <2>2, FS_Singleton
<1>3. QED
  BY <1>1, <1>2

\* At most one receive or connect, and one encrypt or send, of a host is under
\* way at any time: nothing else protects its send queue and its half packet.
THEOREM TasksExclude == Spec => []OneTaskOfAKind
<1>1. IInv => OneTaskOfAKind
  <2>1. SUFFICES ASSUME IInv, NEW kinds \in {BaseKinds, SendKinds}, NEW h \in Hosts
                 PROVE  Cardinality({o \in ios : o.kind \in kinds /\ o.host = h})
                        + Cardinality({t \in Threads : thread[t].pc = "issue"
                              /\ thread[t].kind \in kinds /\ thread[t].host = h}) <= 1
    BY DEF OneTaskOfAKind
  <2> DEFINE O == {o \in ios : o.kind \in kinds /\ o.host = h}
             T == {t \in Threads : thread[t].pc = "issue" /\ thread[t].kind \in kinds
                                   /\ thread[t].host = h}
  <2>2. \A k, l \in kinds : k \in BaseKinds <=> l \in BaseKinds
    BY DEF BaseKinds, SendKinds
  <2>3. \A o, p \in O : o = p
    BY <2>1, <2>2 DEF IInv, TasksAreAlone, Alike
  <2>4. \A t, u \in T : t = u
    BY <2>1, <2>2 DEF IInv, TasksAreAlone, Alike, IsIssuing
  <2>5. O = {} \/ T = {}
    BY <2>1, <2>2 DEF IInv, TasksAreAlone, Alike, IsIssuing
  <2>6. /\ Cardinality(O) \in {0, 1} /\ (Cardinality(O) = 1 => O # {})
        /\ Cardinality(T) \in {0, 1} /\ (Cardinality(T) = 1 => T # {})
    BY <2>3, <2>4, AtMostOne
  <2> HIDE DEF O, T
  <2>7. Cardinality(O) + Cardinality(T) <= 1
    BY <2>5, <2>6
  <2>8. QED
    BY <2>7 DEF O, T
<1>2. QED
  BY LifecycleInvariant, <1>1, PTL

=============================================================================
