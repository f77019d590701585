------------------------- MODULE GameServerCheck_proofs -------------------------
(***************************************************************************)
(* For any game servers whose ports are set: none is ever recorded as          *)
(* connected, and none is tried twice.                                         *)
(***************************************************************************)
EXTENDS GameServerCheck, SequenceTheorems, FiniteSetTheorems, TLAPS

\* At first no server was tried.
LEMMA InitCheckInv == ASSUME IsConfigured, Init PROVE CheckInv
<1>1. TypeOK
  <2>1. link \in [HostIds -> Links]
    BY DEF Init, Links
  <2>2. <<>> \in Seq(Packets)
    BY EmptySeq
  <2>3. server \in [Servers -> [hostId : Int, connecting : BOOLEAN, connected : BOOLEAN]]
    BY DEF Init
  <2>4. initialized \in BOOLEAN /\ lastHostId \in Nat /\ connectedCount \in Nat
        /\ hostToServer \subseteq HostIds \X Servers /\ queue = <<>>
    BY DEF Init
  <2>5. QED
    BY <2>1, <2>2, <2>3, <2>4 DEF TypeOK
<1>2. NeverConnected
  BY DEF Init, NeverConnected
<1>3. AttemptIsKept
  BY DEF Init, AttemptIsKept
<1>4. QED
  BY <1>1, <1>2, <1>3 DEF CheckInv

\* The IDs that are given out in one turn are host IDs.
LEMMA TurnsAreIds ==
    ASSUME IsConfigured, CheckInv, lastHostId + Cardinality(ToTry) <= MaxHosts
    PROVE  /\ Cardinality(ToTry) \in Nat
           /\ lastHostId + 1 .. lastHostId + Cardinality(ToTry) \subseteq HostIds
<1>1. ToTry \subseteq Servers
  BY DEF ToTry
<1>2. Cardinality(ToTry) \in Nat
  BY <1>1, FS_Subset, FS_CardinalityType DEF IsConfigured
<1>3. lastHostId \in Nat
  BY DEF CheckInv, TypeOK
<1>4. QED
  BY <1>2, <1>3 DEF IsConfigured, HostIds

\* _CheckConnect does not touch a server that was tried.
LEMMA CheckConnectKeeps == ASSUME IsConfigured, CheckInv, CheckConnect PROVE CheckInv'
<1> DEFINE n == Cardinality(ToTry)
<1>1. n \in Nat /\ lastHostId + 1 .. lastHostId + n \subseteq HostIds
  BY TurnsAreIds DEF CheckConnect
<1> HIDE DEF n
<1>2. PICK turn \in [ToTry -> lastHostId + 1 .. lastHostId + n] :
        /\ server' = [s \in Servers |-> IF s \in ToTry
              THEN [hostId |-> turn[s], connecting |-> TRUE, connected |-> FALSE]
              ELSE server[s]]
        /\ link' = [i \in HostIds |-> IF \E s \in ToTry : turn[s] = i
              THEN [server |-> CHOOSE s \in ToTry : turn[s] = i, state |-> "trying"]
              ELSE link[i]]
  BY DEF CheckConnect, n
<1>3. /\ lastHostId' = lastHostId + n
      /\ connectedCount' = 0
      /\ UNCHANGED <<initialized, queue, hostToServer>>
  BY DEF CheckConnect, n
<1>4. ToTry \subseteq Servers
  BY DEF ToTry
<1>5. \A s \in ToTry : turn[s] \in HostIds /\ turn[s] \in Int
  BY <1>1, <1>2 DEF HostIds
<1>6. TypeOK'
  <2>1. server' \in [Servers -> [hostId : Int, connecting : BOOLEAN, connected : BOOLEAN]]
    BY <1>2, <1>5 DEF CheckInv, TypeOK
  <2>2. link' \in [HostIds -> Links]
    BY <1>2, <1>4 DEF CheckInv, TypeOK, Links
  <2>3. lastHostId' \in Nat /\ connectedCount' \in Nat
    BY <1>1, <1>3 DEF CheckInv, TypeOK
  <2>4. QED
    BY <1>3, <2>1, <2>2, <2>3 DEF CheckInv, TypeOK
<1>7. NeverConnected'
  BY <1>2, <1>3 DEF CheckInv, NeverConnected
<1>8. AttemptIsKept'
  <2> SUFFICES ASSUME NEW i \in HostIds, link'[i].state # "none"
               PROVE  server'[link'[i].server].connecting /\ server'[link'[i].server].hostId = i
    BY DEF AttemptIsKept
  <2>1. CASE \E s \in ToTry : turn[s] = i
    <3>1. link'[i].server \in ToTry /\ turn[link'[i].server] = i
      BY <1>2, <2>1
    <3>2. server'[link'[i].server] = [hostId |-> i, connecting |-> TRUE, connected |-> FALSE]
      BY <1>2, <1>4, <3>1
    <3>3. QED
      BY <3>2
  <2>2. CASE ~ \E s \in ToTry : turn[s] = i
    <3>1. link'[i] = link[i] /\ link[i].server \in Servers
      BY <1>2, <2>2 DEF CheckInv, TypeOK, Links
    <3>2. server[link[i].server].connecting /\ server[link[i].server].hostId = i
      BY <3>1 DEF CheckInv, AttemptIsKept
    <3>3. link[i].server \notin ToTry
      BY <3>2 DEF ToTry
    <3>4. QED
      BY <1>2, <3>1, <3>2, <3>3
  <2>3. QED
    BY <2>1, <2>2
<1>9. QED
  BY <1>6, <1>7, <1>8 DEF CheckInv

\* The network core changes the state of a link, and says so with the port 0.
LEMMA LinkKeeps ==
    ASSUME IsConfigured, CheckInv, NEW i \in HostIds, ConnectSucceeds(i) \/ LinkEnds(i)
    PROVE  CheckInv'
<1>1. PICK st \in {"up", "down"}, ip \in {PublicHost[s] : s \in Servers} \cup {NoHost} :
        /\ link' = [link EXCEPT ![i].state = st]
        /\ queue' = Append(queue, [host |-> i, ip |-> ip, port |-> 0])
        /\ link[i].state # "none"
  <2>1. link[i].server \in Servers
    BY DEF CheckInv, TypeOK, Links
  <2>2. CASE ConnectSucceeds(i)
    BY <2>1, <2>2 DEF ConnectSucceeds, Push
  <2>3. CASE LinkEnds(i)
    BY <2>3 DEF LinkEnds, Push
  <2>4. QED
    BY <2>2, <2>3
<1>2. UNCHANGED <<initialized, server, lastHostId, hostToServer, connectedCount>>
  BY DEF ConnectSucceeds, LinkEnds
<1>3. TypeOK'
  <2>1. [host |-> i, ip |-> ip, port |-> 0] \in Packets
    BY <1>1 DEF Packets
  <2>2. queue' \in Seq(Packets)
    BY <1>1, <2>1, AppendProperties DEF CheckInv, TypeOK
  <2>3. link' \in [HostIds -> Links]
    BY <1>1 DEF CheckInv, TypeOK, Links
  <2>4. QED
    BY <1>2, <2>2, <2>3 DEF CheckInv, TypeOK
<1>4. NeverConnected'
  BY <1>2 DEF CheckInv, NeverConnected
<1>5. AttemptIsKept'
  BY <1>1, <1>2 DEF CheckInv, TypeOK, Links, AttemptIsKept
<1>6. QED
  BY <1>3, <1>4, <1>5 DEF CheckInv

\* No packet has the port of a server.
LEMMA OnHostConnectKeeps == ASSUME IsConfigured, CheckInv, OnHostConnect PROVE CheckInv'
<1>1. queue \in Seq(Packets) /\ queue # <<>>
  BY DEF OnHostConnect, CheckInv, TypeOK
<1>2. Head(queue) \in Packets /\ Tail(queue) \in Seq(Packets)
  BY <1>1, HeadTailProperties
<1>3. \A s \in Servers : ~ IsOf(s, Head(queue))
  BY <1>2 DEF Packets, IsOf, IsConfigured
<1>4. UNCHANGED <<server, hostToServer, initialized, link, lastHostId, connectedCount>>
      /\ queue' = Tail(queue)
  BY <1>3 DEF OnHostConnect
<1>5. QED
  BY <1>2, <1>4 DEF CheckInv, TypeOK, NeverConnected, AttemptIsKept

\* Every step keeps the invariant.
LEMMA NextCheckInv == ASSUME IsConfigured, CheckInv, [Next]_vars PROVE CheckInv'
<1>1. CASE CreateNetwork
  BY <1>1 DEF CreateNetwork, CheckInv, TypeOK, NeverConnected, AttemptIsKept
<1>2. CASE CheckTooEarly
  <2>1. Cardinality({s \in Servers : ~ server[s].connected}) \in Nat
    BY FS_Subset, FS_CardinalityType DEF IsConfigured
  <2>2. QED
    BY <1>2, <2>1 DEF CheckTooEarly, CheckInv, TypeOK, NeverConnected, AttemptIsKept
<1>3. CASE UNCHANGED vars
  BY <1>3 DEF vars, CheckInv, TypeOK, NeverConnected, AttemptIsKept
<1>4. QED
  BY <1>1, <1>2, <1>3, CheckConnectKeeps, OnHostConnectKeeps, LinkKeeps DEF Next

\* The invariant of the service, when every game server has a port.
THEOREM CheckInvariant == ASSUME IsConfigured PROVE Spec => []CheckInv
<1>1. Init => CheckInv
  BY InitCheckInv
<1>2. CheckInv /\ [Next]_vars => CheckInv'
  BY NextCheckInv
<1>3. QED
  BY <1>1, <1>2, PTL DEF Spec

\* No game server is ever recorded as connected: the port of the configuration is not 0,
\* and the port the network core reports is.  (EventConnect, OnHostConnect)
THEOREM NoServerIsConnected == ASSUME IsConfigured PROVE Spec => []NeverConnected
<1>1. CheckInv => NeverConnected
  BY DEF CheckInv
<1>2. QED
  BY <1>1, CheckInvariant, PTL

\* No game server is tried again, whatever becomes of the first attempt.  (_CheckConnect)
THEOREM ServersAreTriedOnce == ASSUME IsConfigured PROVE Spec => []TriedOnce
<1>1. CheckInv => TriedOnce
  BY DEF CheckInv, AttemptIsKept, TriedOnce
<1>2. QED
  BY <1>1, CheckInvariant, PTL
=============================================================================
