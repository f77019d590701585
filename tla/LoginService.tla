----------------------------- MODULE LoginService -----------------------------
(***************************************************************************)
(* The login server (PGLogin): client connections, LoginService with its two   *)
(* packet queues, LoginPlayerManager, the registry of NetworkManagerPO, the     *)
(* one thread of LoginDBService and the procedure it calls.                    *)
(*                                                                          *)
(* What a service sees of a connection is what HostLifecycle shows of it: one   *)
(* HostConnect, then requests, then one HostClose.  A host ID names one         *)
(* connection.  A handler runs as one step: other threads only push to queues.  *)
(*                                                                          *)
(* Left out because the procedure rules them out: it never returns 2, the       *)
(* DuplicateLogin of EDBResult, and never sets RemainingPeriod, so that branch  *)
(* of OnUDBLAuthRes and the message LC_AuthErrorRes are never reached.          *)
(***************************************************************************)
EXTENDS Integers, Sequences, FiniteSets

CONSTANTS
    Hosts,        \* host IDs of client connections
    Accounts,     \* the account IDs that clients give
    NoAccount,    \* no account: AccountSeq is 0
    NoPlayer,     \* the host is not in m_umPlayerList
    NoRow,        \* the account is not in the table
    ServerId,     \* ServerID of this login server
    Statuses,     \* what AccountStatus of the rows may be
    Kinds,        \* the kinds of packets each client sends
    KickDelay,    \* KICK_RESERVE_DELAY_MS in ticks of LOGIN_SERVICE_KICK_DELAY_MS
    MaxRequests   \* bound: packets all clients send

Rows == [status : Statuses, server : {0, ServerId}]
Players == [state : {"None", "PlatformAuthorize", "DBProcess"}, account : Accounts]

ASSUME LoginAssumption ==
    /\ NoAccount \notin Accounts
    /\ NoRow \notin Rows /\ NoPlayer \notin Players
    /\ ServerId \in Nat \ {0}
    /\ Statuses \subseteq Nat /\ 0 \in Statuses
    /\ Kinds \in [Hosts -> SUBSET {"guest", "platform", "badClient", "badKey", "unregistered",
                                   "broken"}]
    /\ KickDelay \in Nat \ {0}
    /\ MaxRequests \in Nat

\* EDBResult, and what spAccountLoginProcessSelect returns for an account in use
None           == -1
Success        == 0
InUse          == 1
PermanentBlock == 3
DurationBlock  == 4

VARIABLES
    host,            \* each connection, as the network core sees it
    closing,         \* hosts whose Close waits for the controller
    requests,        \* bound: packets the clients have sent
    outerQueue,      \* m_oOuterPacketQueue
    outerWork,       \* m_oOuterPacketWorkList
    innerQueue,      \* m_oInnerPacketQueue
    innerWork,       \* m_oInnerPacketWorkList
    stage,           \* which work list the service thread is in
    timerDue,        \* the kick timer has expired
    playerList,      \* m_umPlayerList
    kickList,        \* m_umKickList: ticks until the deadline
    usingHosts,      \* m_oUsingHostIDList
    dbQueue,         \* m_oPacketQueue of the direct DB service
    dbWork,          \* its m_oWorkList
    session,         \* m_pSession: never connected, connected, lost
    row,             \* table Account
    sent             \* what each client was sent

netVars   == <<host, closing, requests>>
queueVars == <<outerQueue, outerWork, innerQueue, innerWork, stage>>
kickVars  == <<timerDue, kickList>>
dbVars    == <<dbQueue, dbWork, session, row>>
vars == <<netVars, queueVars, kickVars, dbVars, playerList, usingHosts, sent>>

NotListed == -1
NewPlayer(a) == [state |-> "None", account |-> a]

Error == [msg |-> "Error", account |-> NoAccount]
AuthRes(a) == [msg |-> "LC_AuthRes", account |-> a]
Messages == {Error} \cup {AuthRes(a) : a \in Accounts \cup {NoAccount}}

\* Packet: HostConnect and HostClose of the NES, else a packet of the client
Packets == [host : Hosts, kind : UNION {Kinds[h] : h \in Hosts}, account : Accounts]
    \cup [host : Hosts, kind : {"HostConnect", "HostClose"}, account : {NoAccount}]
Packet(h, k, a) == [host |-> h, kind |-> k, account |-> a]

\* InnerPacket with its DTO, on its way to the DB and back
Requests == [host : Hosts, account : Accounts]
Results == [host : Hosts, result : {None, Success, InUse, PermanentBlock, DurationBlock},
            account : Accounts \cup {NoAccount}]

Init ==
    /\ host = [h \in Hosts |-> "none"]
    /\ closing = {}
    /\ requests = 0
    /\ outerQueue = <<>> /\ outerWork = <<>>
    /\ innerQueue = <<>> /\ innerWork = <<>>
    /\ stage = "outer"
    /\ timerDue = FALSE
    /\ playerList = [h \in Hosts |-> NoPlayer]
    /\ kickList = [h \in Hosts |-> NotListed]
    /\ usingHosts = {}
    /\ dbQueue = <<>> /\ dbWork = <<>>
    /\ session \in {"none", "up"}
    /\ row \in [Accounts -> {NoRow} \cup [status : Statuses, server : {0}]]
    /\ sent = [h \in Hosts |-> <<>>]

-----------------------------------------------------------------------------
(* The connections: LoginServerNES pushes what the network core reports. *)

PushOuter(p) == outerQueue' = Append(outerQueue, p)

\* NetworkHostPO::EventConnect: NetworkManagerPO::OnConnect, then that of the NES
OnConnect(h) ==
    /\ host[h] = "none"
    /\ host' = [host EXCEPT ![h] = "open"]
    /\ usingHosts' = usingHosts \cup {h}
    /\ PushOuter(Packet(h, "HostConnect", NoAccount))
    /\ UNCHANGED <<closing, requests, outerWork, innerQueue, innerWork, stage, kickVars, dbVars,
                   playerList, sent>>

OnReceive(h) ==
    /\ host[h] = "open"
    /\ requests < MaxRequests
    /\ requests' = requests + 1
    /\ \E k \in Kinds[h], a \in Accounts : PushOuter(Packet(h, k, a))
    /\ UNCHANGED <<host, closing, outerWork, innerQueue, innerWork, stage, kickVars, dbVars,
                   playerList, usingHosts, sent>>

\* The connection ends: the client leaves, or the controller carries out a Close.
OnClose(h) ==
    /\ host[h] = "open"
    /\ host' = [host EXCEPT ![h] = "closed"]
    /\ closing' = closing \ {h}
    /\ PushOuter(Packet(h, "HostClose", NoAccount))
    /\ UNCHANGED <<requests, outerWork, innerQueue, innerWork, stage, kickVars, dbVars,
                   playerList, usingHosts, sent>>

\* ProcessClose of a host that has gone in the meantime
CloseUnknownHost(h) ==
    /\ h \in closing
    /\ host[h] # "open"
    /\ closing' = closing \ {h}
    /\ UNCHANGED <<host, requests, queueVars, kickVars, dbVars, playerList, usingHosts, sent>>

\* mutant: the message is sent before the player is added
SendPacketFirst(h, m) ==
    sent' = IF playerList[h] # NoPlayer /\ host[h] = "open"
            THEN [sent EXCEPT ![h] = Append(@, m)] ELSE sent

\* LoginPlayerManager::SendPacket, and the controller's look-up of the host
SendPacket(h, m) ==
    sent' = IF playerList'[h] # NoPlayer /\ host[h] = "open"
            THEN [sent EXCEPT ![h] = Append(@, m)] ELSE sent

-----------------------------------------------------------------------------
(* ServicePO::Run: timers, then all inner packets, then all outer packets. *)

\* mutant: hosts that are not in the list are counted down as well
TickAll ==
    /\ timerDue' = TRUE
    /\ kickList' = [h \in Hosts |-> IF kickList[h] # 0 THEN kickList[h] - 1 ELSE 0]
    /\ UNCHANGED <<netVars, queueVars, dbVars, playerList, usingHosts, sent>>

\* Time passes, while a kick is reserved: over an empty list the timer does nothing.
Tick ==
    /\ \E h \in Hosts : kickList[h] # NotListed
    /\ timerDue' = TRUE
    /\ kickList' = [h \in Hosts |-> IF kickList[h] > 0 THEN kickList[h] - 1 ELSE kickList[h]]
    /\ kickVars' # kickVars
    /\ UNCHANGED <<netVars, queueVars, dbVars, playerList, usingHosts, sent>>

\* mutant: emplace becomes an assignment, so that a new reserve puts the kick off
AddKickReserveAnew(h) == kickList' = [kickList EXCEPT ![h] = KickDelay]

\* LoginService::AddKickReserve: emplace keeps an older deadline.
AddKickReserve(h) ==
    kickList' = IF kickList[h] = NotListed THEN [kickList EXCEPT ![h] = KickDelay] ELSE kickList

\* mutant: the whole list is emptied
KickProcessForgets ==
    LET over == {h \in Hosts : kickList[h] = 0} IN
    /\ closing' = closing \cup (over \cap usingHosts)
    /\ kickList' = [h \in Hosts |-> NotListed]

\* LoginService::_KickProcess with NetworkManagerPO::CloseHost and IsConnected
KickProcess ==
    LET over == {h \in Hosts : kickList[h] = 0} IN
    /\ closing' = closing \cup (over \cap usingHosts)
    /\ kickList' = [h \in Hosts |-> IF h \in over THEN NotListed ELSE kickList[h]]

\* The turn begins when the last one has handled its outer packets.
UpdateTimer ==
    /\ stage = "outer" /\ outerWork = <<>>
    /\ stage' = "inner"
    /\ IF timerDue THEN KickProcess ELSE UNCHANGED <<closing, kickList>>
    /\ timerDue' = FALSE
    /\ innerWork' = innerQueue
    /\ innerQueue' = <<>>
    /\ UNCHANGED <<host, requests, outerQueue, outerWork, dbVars, playerList, usingHosts, sent>>

SwapOuter ==
    /\ stage = "inner" /\ innerWork = <<>>
    /\ stage' = "outer"
    /\ outerWork' = outerQueue
    /\ outerQueue' = <<>>
    /\ UNCHANGED <<netVars, innerQueue, innerWork, kickVars, dbVars, playerList, usingHosts, sent>>

-----------------------------------------------------------------------------
(* LoginService: the handlers of outer packets *)

TakeOuter(k, h) ==
    /\ stage = "outer" /\ outerWork # <<>>
    /\ Head(outerWork).kind = k
    /\ Head(outerWork).host = h
    /\ outerWork' = Tail(outerWork)
    /\ UNCHANGED <<outerQueue, innerQueue, innerWork, stage, host, requests, timerDue>>

\* NetworkManagerPO::OnConnect again
OnHostConnect(h) ==
    /\ TakeOuter("HostConnect", h)
    /\ usingHosts' = usingHosts \cup {h}
    /\ UNCHANGED <<closing, kickList, dbVars, playerList, sent>>

\* LoginService::OnHostClose and NetworkManagerPO::OnDisconnect, which returns when the
\* host is in the list.  It always is: EventConnect comes before EventClose.
OnHostClose(h) ==
    /\ TakeOuter("HostClose", h)
    /\ UNCHANGED <<usingHosts, closing, kickList, dbVars, playerList, sent>>

\* A message without a handler, CLConnectGameServerReq for one
DropUnregistered(h) ==
    /\ TakeOuter("unregistered", h)
    /\ UNCHANGED <<usingHosts, closing, kickList, dbVars, playerList, sent>>

\* Service::_OnDeserializeFail
OnDeserializeFail(h) ==
    /\ TakeOuter("broken", h)
    /\ closing' = closing \cup {h}
    /\ UNCHANGED <<usingHosts, kickList, dbVars, playerList, sent>>

\* mutant: the player of a host is replaced
IsNewRequest(h) == h \in Hosts

\* LoginPlayerManager::Add, which gives no player if the host has one
IsNewPlayer(h) == playerList[h] = NoPlayer
Add(h, p) == playerList' = [playerList EXCEPT ![h] = p]

\* OnCLAuthReq refuses a second request of a host, without looking into it.
RefuseSecond(h) ==
    /\ \E k \in Kinds[h] \ {"unregistered", "broken"} : TakeOuter(k, h)
    /\ ~ IsNewPlayer(h)
    /\ UNCHANGED playerList
    /\ SendPacket(h, Error)
    /\ AddKickReserve(h)
    /\ UNCHANGED <<usingHosts, closing, dbVars>>

\* An unknown ClientType is not answered.
IgnoreClient(h) ==
    /\ TakeOuter("badClient", h)
    /\ IsNewPlayer(h)
    /\ Add(h, NewPlayer(Head(outerWork).account))
    /\ UNCHANGED <<usingHosts, closing, kickList, dbVars, sent>>

\* The account ID is missing, or not a valid key.
RefuseKey(h) ==
    /\ TakeOuter("badKey", h)
    /\ IsNewPlayer(h)
    /\ Add(h, NewPlayer(Head(outerWork).account))
    /\ SendPacket(h, Error)
    /\ AddKickReserve(h)
    /\ UNCHANGED <<usingHosts, closing, dbVars>>

\* Handed to OPFService, whose thread the application does not start
AskPlatform(h) ==
    /\ TakeOuter("platform", h)
    /\ IsNewPlayer(h)
    /\ Add(h, [NewPlayer(Head(outerWork).account) EXCEPT !.state = "PlatformAuthorize"])
    /\ UNCHANGED <<usingHosts, closing, kickList, dbVars, sent>>

\* _AuthLoginProcess with SendToUDB
AskDB(h) ==
    /\ TakeOuter("guest", h)
    /\ IsNewPlayer(h)
    /\ Add(h, [NewPlayer(Head(outerWork).account) EXCEPT !.state = "DBProcess"])
    /\ dbQueue' = Append(dbQueue, [host |-> h, account |-> Head(outerWork).account])
    /\ UNCHANGED <<usingHosts, closing, kickList, dbWork, session, row, sent>>

-----------------------------------------------------------------------------
(* LoginService: the handler of the DB's answer *)

TakeInner(h) ==
    /\ stage = "inner" /\ innerWork # <<>>
    /\ Head(innerWork).host = h
    /\ innerWork' = Tail(innerWork)
    /\ UNCHANGED <<outerQueue, outerWork, innerQueue, stage, netVars, timerDue, dbVars,
                   playerList, usingHosts>>

Blocked(r) == r \in {PermanentBlock, DurationBlock}
\* OnUDBLAuthRes
RefuseBlocked(h) ==
    /\ TakeInner(h)
    /\ Blocked(Head(innerWork).result)
    /\ SendPacket(h, Error)
    /\ AddKickReserve(h)

\* Every other result goes on to LC_AuthRes.
Accept(h) ==
    /\ TakeInner(h)
    /\ ~ Blocked(Head(innerWork).result)
    /\ SendPacket(h, AuthRes(Head(innerWork).account))
    /\ UNCHANGED kickList

-----------------------------------------------------------------------------
(* DBServicePO::Run and LoginDBService::_OnLUDBLoginReq *)

\* mutant: the work list is replaced before it is done
TakeDBWorkAnew ==
    /\ dbQueue # <<>>
    /\ dbWork' = dbQueue
    /\ dbQueue' = <<>>
    /\ UNCHANGED <<netVars, queueVars, kickVars, session, row, playerList, usingHosts, sent>>

TakeDBWork ==
    /\ dbWork = <<>> /\ dbQueue # <<>>
    /\ dbWork' = dbQueue
    /\ dbQueue' = <<>>
    /\ UNCHANGED <<netVars, queueVars, kickVars, session, row, playerList, usingHosts, sent>>

LoseSession ==
    /\ session = "up"
    /\ session' = "lost"
    /\ UNCHANGED <<netVars, queueVars, kickVars, dbQueue, dbWork, row, playerList, usingHosts, sent>>

\* DBWorkerPO::_CheckDBConnection: reconnects, or gives up after some tries
Reconnects == session # "up" /\ session' = "up"

TakeRequest ==
    /\ dbWork # <<>>
    /\ dbWork' = Tail(dbWork)
    /\ UNCHANGED <<netVars, outerQueue, outerWork, innerWork, stage, kickVars, dbQueue,
                   playerList, usingHosts, sent>>

Reply(res, a) ==
    innerQueue' = Append(innerQueue, [host |-> Head(dbWork).host, result |-> res, account |-> a])

\* CheckSession returns: there has never been a connection, and there is none now.
DropRequest ==
    /\ TakeRequest
    /\ session = "none"
    /\ UNCHANGED <<session, innerQueue, row>>

\* mutant: the exception ends the handler
FailSilently ==
    /\ TakeRequest
    /\ UNCHANGED session \/ Reconnects
    /\ session # "none" \/ session' # "none"
    /\ UNCHANGED <<row, innerQueue>>

\* The session is lost, or the statement fails: the exception is caught, Result stays None.
FailRequest ==
    /\ TakeRequest
    /\ UNCHANGED session \/ Reconnects
    /\ session # "none" \/ session' # "none"
    /\ UNCHANGED row
    /\ Reply(None, NoAccount)

\* mutant: a new row is made without the server
TakenIfExists(r) ==
    IF r = NoRow THEN [status |-> 0, server |-> 0]
    ELSE IF r.status > 1 THEN [r EXCEPT !.server = 0]
    ELSE [r EXCEPT !.server = ServerId]

\* The row the procedure leaves: a new one, one that is freed, one that is taken
TakenRow(r) ==
    IF r = NoRow THEN [status |-> 0, server |-> ServerId]
    ELSE IF r.status > 1 THEN [r EXCEPT !.server = 0]
    ELSE [r EXCEPT !.server = ServerId]

\* @Result of the procedure for a row
ResultOf(r) ==
    IF r = NoRow THEN Success
    ELSE IF r.status \in {PermanentBlock, DurationBlock} THEN r.status
    ELSE IF r.status <= 1 /\ r.server # 0 THEN InUse
    ELSE Success

\* spAccountLoginProcessSelect
RunProcedure ==
    /\ TakeRequest
    /\ (session = "up" /\ UNCHANGED session) \/ Reconnects
    /\ LET a == Head(dbWork).account IN
       /\ row' = [row EXCEPT ![a] = TakenRow(row[a])]
       /\ Reply(ResultOf(row[a]), a)

-----------------------------------------------------------------------------
ServiceStep ==
    \/ UpdateTimer \/ SwapOuter
    \/ \E h \in Hosts :
        \/ OnHostConnect(h) \/ OnHostClose(h) \/ DropUnregistered(h) \/ OnDeserializeFail(h)
        \/ RefuseSecond(h) \/ IgnoreClient(h) \/ RefuseKey(h) \/ AskPlatform(h) \/ AskDB(h)
        \/ RefuseBlocked(h) \/ Accept(h)

DBStep == TakeDBWork \/ DropRequest \/ FailRequest \/ RunProcedure

ControllerStep(h) == h \in closing /\ (OnClose(h) \/ CloseUnknownHost(h))

Next ==
    \/ \E h \in Hosts : OnConnect(h) \/ OnReceive(h) \/ OnClose(h) \/ CloseUnknownHost(h)
    \/ Tick
    \/ ServiceStep
    \/ DBStep \/ LoseSession

Spec == Init /\ [][Next]_vars

\* The threads run, time passes, and the controller takes its messages.
FairSpec ==
    /\ Spec
    /\ WF_vars(ServiceStep) /\ WF_vars(DBStep) /\ WF_vars(Tick)
    /\ \A h \in Hosts : WF_vars(ControllerStep(h))

-----------------------------------------------------------------------------
(* Properties *)

IsSeqOf(s, S) == \A k \in 1 .. Len(s) : s[k] \in S

\* Type invariant: every variable stays within its type.
TypeOK ==
    /\ host \in [Hosts -> {"none", "open", "closed"}]
    /\ closing \subseteq Hosts
    /\ requests \in 0 .. MaxRequests
    /\ outerQueue \in Seq(Packets) /\ outerWork \in Seq(Packets)
    /\ innerQueue \in Seq(Results) /\ innerWork \in Seq(Results)
    /\ stage \in {"inner", "outer"}
    /\ timerDue \in BOOLEAN
    /\ playerList \in [Hosts -> Players \cup {NoPlayer}]
    /\ kickList \in [Hosts -> {NotListed} \cup 0 .. KickDelay]
    /\ usingHosts \subseteq Hosts
    /\ dbQueue \in Seq(Requests) /\ dbWork \in Seq(Requests)
    /\ session \in {"none", "up", "lost"}
    /\ row \in [Accounts -> {NoRow} \cup Rows]
    /\ sent \in [Hosts -> Seq(Messages)]

Of(h, s) == {k \in 1 .. Len(s) : s[k].host = h}
InFlight(h) ==
    Cardinality(Of(h, dbQueue)) + Cardinality(Of(h, dbWork))
        + Cardinality(Of(h, innerQueue)) + Cardinality(Of(h, innerWork))
Answers(h) == {k \in 1 .. Len(sent[h]) : sent[h][k].msg = "LC_AuthRes"}

\* A client is looked up and answered once: whatever it sends, the requests and answers
\* of its host that are on their way through the four queues, and the LC_AuthRes it has
\* been sent, are never more than one together, and only for a player in DBProcess.
\* (OnCLAuthReq, DBServicePO::Run, OnUDBLAuthRes)
LookedUpOnce ==
    \A h \in Hosts :
        /\ InFlight(h) + Cardinality(Answers(h)) <= 1
        /\ InFlight(h) + Cardinality(Answers(h)) = 1 =>
              playerList[h] # NoPlayer /\ playerList[h].state = "DBProcess"

\* A client is not kicked without a word: a host that is still open and due to be kicked
\* has been sent an error, and is known to IsConnected, without which CloseHost would drop
\* the kick.  (LoginService::_KickProcess and the three places that reserve a kick)
KickCanClose ==
    \A h \in Hosts : kickList[h] # NotListed /\ host[h] = "open" =>
        /\ h \in usingHosts
        /\ \E k \in 1 .. Len(sent[h]) : sent[h][k] = Error

\* A client that goes on sending does not put its kick off.  (LoginService::AddKickReserve)
KickIsNotPutOff ==
    [][\A h \in Hosts : kickList[h] # NotListed =>
          kickList'[h] <= kickList[h]]_kickList

\* A request does not vanish on its way through the four queues and two threads: where one
\* is taken off, the client is sent something, or has gone.  The one exception is the drop
\* of CheckSession while there has never been a session.
\* (SendToUDB, DBServicePO::Run, _OnLUDBLoginReq, ServicePO::Run, OnUDBLAuthRes)
RequestIsNotLost ==
    [][\A h \in Hosts : InFlight(h)' < InFlight(h) =>
          session = "none" \/ host[h] # "open" \/ sent'[h] # sent[h]]_vars

\* The table says so before the client hears of it: an account that LC_AuthRes names
\* exists, is not blocked, and is taken by this server, unless it is one that is closed.
\* (spAccountLoginProcessSelect and OnUDBLAuthRes)
AnswerIsRecorded ==
    \A h \in Hosts : \A k \in Answers(h) :
        sent[h][k].account # NoAccount =>
            LET r == row[sent[h][k].account] IN
            /\ r # NoRow
            /\ ~ Blocked(r.status)
            /\ r.status <= 1 => r.server = ServerId

\* EDBResult has DuplicateLogin, "double access of an account" (PEnum.h:11), for an account
\* that is in use: no two clients that are connected have LC_AuthRes for one account.
NoDoubleLogin ==
    \A g, h \in Hosts : g # h /\ host[g] = "open" /\ host[h] = "open" =>
        \A j \in Answers(g), k \in Answers(h) :
            sent[g][j].account = NoAccount \/ sent[g][j].account # sent[h][k].account

\* How the login server appears to each client
phase == [h \in Hosts |->
            CASE host[h] = "none"   -> "away"
              [] host[h] = "closed" -> "gone"
              [] OTHER -> IF Answers(h) # {} THEN "answered"
                          ELSE IF playerList[h] # NoPlayer /\ playerList[h].state = "DBProcess"
                               THEN "asking" ELSE "connected"]
notice == {h \in Hosts : host[h] = "open" /\ (h \in closing \/ kickList[h] # NotListed)}

Session == INSTANCE LoginSession

\* The threads, queues and tables of the login server together keep its promise to each
\* client: one answer at most, and a host whose kick is reserved is closed, although the
\* answer may be late, the client may ask again, and the kick waits for its timer.
ImplementsSession == Session!SessionSpec

\* A guest that asks while there has been a DB connection is told its account, or its host is
\* closed: the request is not lost between the threads, even if the DB then fails, and one that
\* is refused is kicked in the end, whatever else the client sends.
\* (SendToUDB, DBServicePO::Run, OnUDBLAuthRes, LoginService::_KickProcess)
GuestIsAnswered ==
    \A h \in Hosts :
        (session # "none" /\ \E k \in 1 .. Len(outerQueue) : outerQueue[k].host = h
                                /\ outerQueue[k].kind = "guest")
            ~> (Answers(h) # {} \/ host[h] = "closed")

-----------------------------------------------------------------------------
(* The inductive invariant *)

Elems(s) == {s[k] : k \in 1 .. Len(s)}
OnTheirWay == Elems(dbQueue) \cup Elems(dbWork) \cup Elems(innerQueue) \cup Elems(innerWork)

\* The inner packets are all handled before the outer ones.
InnerFirst == stage = "outer" => innerWork = <<>>

\* Whatever is queued, kept or reserved for a host is of one that has connected, and a
\* look-up that is on its way is of a host that has a player.
HostsHaveCome ==
    /\ \A h \in Hosts : host[h] = "open" => h \in usingHosts
    /\ \A p \in Elems(outerQueue) \cup Elems(outerWork) : host[p.host] # "none"
    /\ \A h \in Hosts : playerList[h] # NoPlayer \/ kickList[h] # NotListed => host[h] # "none"
    /\ \A h \in closing : host[h] # "none"
    /\ \A x \in OnTheirWay : playerList[x.host] # NoPlayer

\* A look-up that succeeded left its mark in the table.
IsRecorded(a) ==
    /\ row[a] # NoRow
    /\ ~ Blocked(row[a].status)
    /\ row[a].status <= 1 => row[a].server = ServerId
ResultsAreRecorded ==
    \A x \in Elems(innerQueue) \cup Elems(innerWork) :
        x.account # NoAccount /\ ~ Blocked(x.result) => IsRecorded(x.account)

LoginInv ==
    /\ TypeOK
    /\ InnerFirst
    /\ HostsHaveCome
    /\ LookedUpOnce
    /\ KickCanClose
    /\ ResultsAreRecorded
    /\ AnswerIsRecorded

=============================================================================
