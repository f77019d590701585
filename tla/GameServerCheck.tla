---------------------------- MODULE GameServerCheck ----------------------------
(***************************************************************************)
(* How the login server keeps connections to the game servers: the timer and    *)
(* the handler of GameServerCheckService, the events of GameServerCheckNES, and *)
(* what the network core makes of a connect (HostLifecycle in detail).          *)
(*                                                                          *)
(* No packet is ever pushed as HostClose (GameServerCheckNES::OnClose pushes    *)
(* Host_Connect), so that the handler OnHostClose is left out.                  *)
(***************************************************************************)
EXTENDS Integers, Sequences, FiniteSets

CONSTANTS
    Servers,      \* m_umGameServerList
    PublicHost,   \* m_sOutboundHost of each
    PublicPort,   \* m_nOutboundPort of each; LoadConfig skips servers without one
    NoHost,       \* the peerip of a packet that has none
    MaxHosts      \* bound: host IDs that are given out

VARIABLES
    initialized,     \* NetworkManager::IsInitialized
    server,          \* m_nHostID, m_bIsConnecting, m_bIsConnected of each server
    link,            \* each host ID: the server and the state of its connection
    lastHostId,
    queue,           \* m_oOuterPacketQueue and work list
    hostToServer,    \* m_umHIDGSIDList
    connectedCount   \* m_nConnectedServerCount
vars == <<initialized, server, link, lastHostId, queue, hostToServer, connectedCount>>

HostIds == 1 .. MaxHosts
Links == [server : Servers, state : {"none", "trying", "up", "down"}]
Packets == [host : HostIds, ip : {PublicHost[s] : s \in Servers} \cup {NoHost}, port : {0}]

Init ==
    /\ initialized = FALSE
    /\ server = [s \in Servers |-> [hostId |-> 0, connecting |-> FALSE, connected |-> FALSE]]
    /\ link \in [HostIds -> [server : Servers, state : {"none"}]]
    /\ lastHostId = 0
    /\ queue = <<>>
    /\ hostToServer = {}
    /\ connectedCount = 0

\* NetworkManagerPO::CreateNetwork, after the service was started
CreateNetwork ==
    /\ ~ initialized
    /\ initialized' = TRUE
    /\ UNCHANGED <<server, link, lastHostId, queue, hostToServer, connectedCount>>

\* Servers that are neither connected nor being tried
ToTry == {s \in Servers : ~ server[s].connected /\ ~ server[s].connecting}

\* _CheckConnect before there is a network: it counts what is not connected.
CheckTooEarly ==
    /\ ~ initialized
    /\ connectedCount' = Cardinality({s \in Servers : ~ server[s].connected})
    /\ UNCHANGED <<initialized, server, link, lastHostId, queue, hostToServer>>

\* _CheckConnect with NetworkManagerPO::Connect for each server, in the order of the map:
\* turn[s] is the host ID it gets.
CheckConnect ==
    LET n == Cardinality(ToTry) IN
    /\ initialized
    /\ lastHostId + n <= MaxHosts
    /\ \E turn \in [ToTry -> lastHostId + 1 .. lastHostId + n] :
        /\ \A s, t \in ToTry : turn[s] = turn[t] => s = t
        /\ server' = [s \in Servers |-> IF s \in ToTry
              THEN [hostId |-> turn[s], connecting |-> TRUE, connected |-> FALSE]
              ELSE server[s]]
        /\ link' = [i \in HostIds |-> IF \E s \in ToTry : turn[s] = i
              THEN [server |-> CHOOSE s \in ToTry : turn[s] = i, state |-> "trying"]
              ELSE link[i]]
    /\ lastHostId' = lastHostId + n
    /\ connectedCount' = 0
    /\ UNCHANGED <<initialized, queue, hostToServer>>

Push(i, ip) == queue' = Append(queue, [host |-> i, ip |-> ip, port |-> 0])

\* EventConnect hands on the address of the host and 0 for the port.
ConnectSucceeds(i) ==
    /\ link[i].state = "trying"
    /\ link' = [link EXCEPT ![i].state = "up"]
    /\ Push(i, PublicHost[link[i].server])
    /\ UNCHANGED <<initialized, server, lastHostId, hostToServer, connectedCount>>

\* OnConnectedFailed, which is OnClose, or OnClose: a HostConnect without a peer
LinkEnds(i) ==
    /\ link[i].state \in {"trying", "up"}
    /\ link' = [link EXCEPT ![i].state = "down"]
    /\ Push(i, NoHost)
    /\ UNCHANGED <<initialized, server, lastHostId, hostToServer, connectedCount>>

IsOf(s, p) == PublicPort[s] = p.port /\ PublicHost[s] = p.ip

\* OnHostConnect
OnHostConnect ==
    /\ queue # <<>>
    /\ queue' = Tail(queue)
    /\ LET p == Head(queue) IN
       \/ \E s \in Servers :
            /\ IsOf(s, p)
            /\ server' = [server EXCEPT ![s] = [hostId |-> p.host, connecting |-> FALSE, connected |-> TRUE]]
            /\ hostToServer' = {q \in hostToServer : q[1] # p.host} \cup {<<p.host, s>>}
       \/ /\ \A s \in Servers : ~ IsOf(s, p)
          /\ UNCHANGED <<server, hostToServer>>
    /\ UNCHANGED <<initialized, link, lastHostId, connectedCount>>

Next ==
    \/ CreateNetwork
    \/ CheckTooEarly \/ CheckConnect \/ OnHostConnect
    \/ \E i \in HostIds : ConnectSucceeds(i) \/ LinkEnds(i)

Spec == Init /\ [][Next]_vars

-----------------------------------------------------------------------------
(* Properties *)

\* Type invariant: every variable stays within its type.
TypeOK ==
    /\ initialized \in BOOLEAN
    /\ server \in [Servers -> [hostId : Int, connecting : BOOLEAN, connected : BOOLEAN]]
    /\ link \in [HostIds -> Links]
    /\ lastHostId \in Nat
    /\ queue \in Seq(Packets)
    /\ hostToServer \subseteq HostIds \X Servers
    /\ connectedCount \in Nat

Reported(i) == \A k \in 1 .. Len(queue) : queue[k].host # i

\* A server whose connection is up, and reported, is recorded as connected: OnHostConnect
\* compares the port of the packet with the port whose connection is to be confirmed
\* (comment at GameServerCheckService.cpp:190).
ConnectedIsRecorded ==
    \A i \in HostIds : link[i].state = "up" /\ Reported(i) => server[link[i].server].connected

\* No game server is ever recorded as connected.  (OnHostConnect, EventConnect)
NeverConnected == hostToServer = {} /\ \A s \in Servers : ~ server[s].connected

\* Each game server is tried once, and never again when the attempt fails or the
\* connection is lost.  (_CheckConnect, GameServerCheckNES::OnClose)
TriedOnce ==
    \A i, j \in HostIds : link[i].state # "none" /\ link[j].state # "none" /\ i # j =>
        link[i].server # link[j].server

-----------------------------------------------------------------------------
(* The inductive invariant behind both *)

\* What LoadConfig makes sure of
IsConfigured ==
    /\ IsFiniteSet(Servers)
    /\ MaxHosts \in Nat
    /\ \A s \in Servers : PublicPort[s] # 0

\* A server that was ever tried stays in the state of being tried, with the host ID of that
\* one attempt.
AttemptIsKept ==
    \A i \in HostIds : link[i].state # "none" =>
        LET s == link[i].server IN server[s].connecting /\ server[s].hostId = i

CheckInv == TypeOK /\ NeverConnected /\ AttemptIsKept

=============================================================================
