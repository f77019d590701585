-------------------------- MODULE LoginService_proofs --------------------------
(***************************************************************************)
(* For any hosts, accounts, statuses and packets: a client is looked up and     *)
(* answered once, hears why before it is kicked, is named an account only when  *)
(* the table has it, and cannot put its kick off.  Step by step the login       *)
(* server does to each client what LoginSession allows.                        *)
(***************************************************************************)
EXTENDS LoginService, FiniteSetTheorems, SequenceTheorems, TLAPS

USE LoginAssumption

-----------------------------------------------------------------------------
(* Queues *)

LEMMA QueueOps ==
    ASSUME NEW S, NEW s \in Seq(S)
    PROVE  /\ <<>> \in Seq(S)
           /\ s # <<>> => Head(s) \in S /\ Tail(s) \in Seq(S)
           /\ \A e \in S : Append(s, e) \in Seq(S)
BY EmptySeq, HeadTailProperties, AppendProperties

LEMMA ElemsOfEmpty == Elems(<<>>) = {}
BY DEF Elems

LEMMA ElemsInSet == ASSUME NEW S, NEW s \in Seq(S) PROVE Elems(s) \subseteq S
BY ElementOfSeq DEF Elems

LEMMA ElemsOfAppend ==
    ASSUME NEW S, NEW s \in Seq(S), NEW e \in S
    PROVE  Elems(Append(s, e)) = Elems(s) \cup {e}
<1>1. /\ Len(s) \in Nat
      /\ Len(Append(s, e)) = Len(s) + 1
      /\ \A k \in 1 .. Len(s) : Append(s, e)[k] = s[k]
      /\ Append(s, e)[Len(s) + 1] = e
  BY LenProperties, AppendProperties
<1>2. 1 .. Len(s) + 1 = (1 .. Len(s)) \cup {Len(s) + 1}
  BY <1>1
<1>3. QED
  BY <1>1, <1>2 DEF Elems

LEMMA ElemsOfTail ==
    ASSUME NEW S, NEW s \in Seq(S), s # <<>>
    PROVE  Elems(Tail(s)) \subseteq Elems(s) /\ Head(s) \in Elems(s)
<1>1. /\ Len(s) \in Nat \ {0}
      /\ Len(Tail(s)) = Len(s) - 1
      /\ \A k \in 1 .. Len(Tail(s)) : Tail(s)[k] = s[k + 1]
  BY EmptySeq, HeadTailProperties
<1>2. \A k \in 1 .. Len(Tail(s)) : k + 1 \in 1 .. Len(s)
  BY <1>1
<1>3. Head(s) = s[1] /\ 1 \in 1 .. Len(s)
  BY <1>1
<1>4. QED
  BY <1>1, <1>2, <1>3 DEF Elems

-----------------------------------------------------------------------------
(* How many elements of a queue are about a host *)

Count(h, s) == Cardinality(Of(h, s))

LEMMA OfIsFinite ==
    ASSUME NEW S, NEW s \in Seq(S), NEW h
    PROVE  IsFiniteSet(Of(h, s)) /\ Count(h, s) \in Nat
<1>1. IsFiniteSet(1 .. Len(s))
  BY LenProperties, FS_Interval
<1>2. Of(h, s) \subseteq 1 .. Len(s)
  BY DEF Of
<1>3. QED
  BY <1>1, <1>2, FS_Subset, FS_CardinalityType DEF Count

LEMMA CountOfEmpty == ASSUME NEW h PROVE Count(h, <<>>) = 0
<1>1. Of(h, <<>>) = {}
  BY DEF Of
<1>2. QED
  BY <1>1, FS_EmptySet DEF Count

LEMMA CountOfAppend ==
    ASSUME NEW S, NEW s \in Seq(S), NEW e \in S, NEW h
    PROVE  Count(h, Append(s, e)) = Count(h, s) + (IF e.host = h THEN 1 ELSE 0)
<1> DEFINE n == Len(s) + 1
<1>1. /\ Len(s) \in Nat
      /\ Len(Append(s, e)) = n
      /\ \A k \in 1 .. Len(s) : Append(s, e)[k] = s[k]
      /\ Append(s, e)[n] = e
  BY LenProperties, AppendProperties
<1>2. 1 .. n = (1 .. Len(s)) \cup {n} /\ n \notin 1 .. Len(s)
  BY <1>1
<1> HIDE DEF n
<1>3. Of(h, Append(s, e)) = IF e.host = h THEN Of(h, s) \cup {n} ELSE Of(h, s)
  BY <1>1, <1>2 DEF Of
<1>4. n \notin Of(h, s)
  BY <1>2 DEF Of
<1>5. Cardinality(Of(h, s) \cup {n}) = Cardinality(Of(h, s)) + 1
  BY <1>4, OfIsFinite, FS_AddElement
<1>6. QED
  BY <1>3, <1>5, OfIsFinite DEF Count

LEMMA CountOfTail ==
    ASSUME NEW S, NEW s \in Seq(S), s # <<>>, NEW h
    PROVE  Count(h, s) = Count(h, Tail(s)) + (IF Head(s).host = h THEN 1 ELSE 0)
<1> DEFINE rest == Of(h, s) \ {1}
           f == [k \in Of(h, Tail(s)) |-> k + 1]
<1>1. /\ Len(s) \in Nat \ {0}
      /\ Len(Tail(s)) = Len(s) - 1
      /\ \A k \in 1 .. Len(Tail(s)) : Tail(s)[k] = s[k + 1]
      /\ Head(s) = s[1]
  BY EmptySeq, HeadTailProperties
<1>2. \A k \in Of(h, Tail(s)) : k \in Nat /\ k + 1 \in rest
  BY <1>1 DEF Of
<1>3. \A j \in rest : j \in Nat /\ j - 1 \in Of(h, Tail(s))
  BY <1>1 DEF Of
<1>4. f \in Bijection(Of(h, Tail(s)), rest)
  <2>1. f \in [Of(h, Tail(s)) -> rest]
    BY <1>2
  <2>2. \A a, b \in Of(h, Tail(s)) : f[a] = f[b] => a = b
    BY <1>2
  <2>3. \A j \in rest : f[j - 1] = j
    BY <1>3
  <2>4. \A j \in rest : \E k \in Of(h, Tail(s)) : f[k] = j
    BY <1>3, <2>3
  <2> HIDE DEF f, rest
  <2>5. QED
    BY <2>1, <2>2, <2>4 DEF Bijection, Injection, Surjection, IsInjective
<1>5. Cardinality(rest) = Count(h, Tail(s))
  <2>1. Tail(s) \in Seq(S)
    BY HeadTailProperties
  <2>2. IsFiniteSet(Of(h, Tail(s)))
    BY <2>1, OfIsFinite
  <2>3. ExistsBijection(Of(h, Tail(s)), rest)
    BY <1>4 DEF ExistsBijection
  <2>4. QED
    BY <2>2, <2>3, FS_Bijection DEF Count
<1>6. Cardinality(rest) = Count(h, s) - (IF 1 \in Of(h, s) THEN 1 ELSE 0)
  <2>1. IsFiniteSet(Of(h, s)) /\ Count(h, s) \in Nat
    BY OfIsFinite
  <2>2. Cardinality(rest) = IF 1 \in Of(h, s) THEN Count(h, s) - 1 ELSE Count(h, s)
    BY <2>1, FS_RemoveElement DEF Count
  <2>3. QED
    BY <2>1, <2>2
<1>7. 1 \in Of(h, s) <=> Head(s).host = h
  BY <1>1 DEF Of
<1>8. QED
  BY <1>5, <1>6, <1>7, OfIsFinite

\* The same for the answers among the messages of a client.
AnswersIn(s) == {k \in 1 .. Len(s) : s[k].msg = "LC_AuthRes"}

LEMMA AnswersOfAppend ==
    ASSUME NEW S, NEW s \in Seq(S), NEW e \in S
    PROVE  /\ IsFiniteSet(AnswersIn(s)) /\ Cardinality(AnswersIn(s)) \in Nat
           /\ AnswersIn(Append(s, e)) = IF e.msg = "LC_AuthRes" THEN AnswersIn(s) \cup {Len(s) + 1}
                                        ELSE AnswersIn(s)
           /\ Cardinality(AnswersIn(Append(s, e))) =
                Cardinality(AnswersIn(s)) + (IF e.msg = "LC_AuthRes" THEN 1 ELSE 0)
<1> DEFINE n == Len(s) + 1
<1>1. /\ Len(s) \in Nat
      /\ Len(Append(s, e)) = n
      /\ \A k \in 1 .. Len(s) : Append(s, e)[k] = s[k]
      /\ Append(s, e)[n] = e
  BY LenProperties, AppendProperties
<1>2. 1 .. n = (1 .. Len(s)) \cup {n} /\ n \notin 1 .. Len(s)
  BY <1>1
<1>3. IsFiniteSet(AnswersIn(s)) /\ Cardinality(AnswersIn(s)) \in Nat
  <2>1. IsFiniteSet(1 .. Len(s))
    <3>1. 1 \in Int /\ Len(s) \in Int
      BY <1>1
    <3>2. QED
      BY <3>1, FS_Interval
  <2>2. AnswersIn(s) \subseteq 1 .. Len(s)
    BY DEF AnswersIn
  <2>3. QED
    BY <2>1, <2>2, FS_Subset, FS_CardinalityType
<1> HIDE DEF n
<1>4. AnswersIn(Append(s, e)) = IF e.msg = "LC_AuthRes" THEN AnswersIn(s) \cup {n} ELSE AnswersIn(s)
  BY <1>1, <1>2 DEF AnswersIn
<1>5. Cardinality(AnswersIn(s) \cup {n}) = Cardinality(AnswersIn(s)) + 1
  <2>1. n \notin AnswersIn(s)
    BY <1>2 DEF AnswersIn
  <2>2. QED
    BY <1>3, <2>1, FS_AddElement
<1>6. QED
  BY <1>3, <1>4, <1>5 DEF n

-----------------------------------------------------------------------------
(* What the handlers are made of *)

LEMMA MessagesAre ==
    /\ Error \in Messages /\ Error.msg # "LC_AuthRes"
    /\ \A a \in Accounts \cup {NoAccount} :
        /\ AuthRes(a) \in Messages
        /\ AuthRes(a).msg = "LC_AuthRes" /\ AuthRes(a).account = a
BY DEF Error, AuthRes, Messages

\* SendPacket reaches the host if it is open and has a player.
LEMMA SendEffect ==
    ASSUME TypeOK, NEW h \in Hosts, NEW m \in Messages, SendPacket(h, m)
    PROVE  /\ sent' \in [Hosts -> Seq(Messages)]
           /\ \A g \in Hosts : g # h => sent'[g] = sent[g]
           /\ sent'[h] = IF playerList'[h] # NoPlayer /\ host[h] = "open"
                         THEN Append(sent[h], m) ELSE sent[h]
           /\ sent[h] \in Seq(Messages)
<1>1. sent \in [Hosts -> Seq(Messages)] /\ sent[h] \in Seq(Messages)
  BY DEF TypeOK
<1>2. Append(sent[h], m) \in Seq(Messages)
  BY <1>1, QueueOps
<1>3. QED
  BY <1>1, <1>2 DEF SendPacket

\* AddKickReserve lists the host; a host that is listed keeps its deadline.
LEMMA KickEffect ==
    ASSUME TypeOK, NEW h \in Hosts, AddKickReserve(h)
    PROVE  /\ kickList' \in [Hosts -> {NotListed} \cup 0 .. KickDelay]
           /\ \A g \in Hosts : g # h => kickList'[g] = kickList[g]
           /\ kickList[h] # NotListed => kickList'[h] = kickList[h]
           /\ kickList'[h] # NotListed
<1>1. KickDelay \in 0 .. KickDelay /\ KickDelay # NotListed
  BY DEF NotListed
<1>2. QED
  BY <1>1 DEF TypeOK, AddKickReserve

\* A handler of outer packets takes one from the work list.
LEMMA OuterEffect ==
    ASSUME TypeOK, NEW k, NEW h, TakeOuter(k, h)
    PROVE  /\ Head(outerWork) \in Packets /\ Head(outerWork).host = h /\ Head(outerWork).kind = k
           /\ Head(outerWork) \in Elems(outerWork)
           /\ outerWork' \in Seq(Packets) /\ Elems(outerWork') \subseteq Elems(outerWork)
           /\ UNCHANGED <<outerQueue, innerQueue, innerWork, stage, host, requests, timerDue>>
BY QueueOps, ElemsOfTail DEF TypeOK, TakeOuter

\* The handler of inner packets takes one from the work list.
LEMMA InnerEffect ==
    ASSUME TypeOK, NEW h, TakeInner(h)
    PROVE  /\ Head(innerWork) \in Results /\ Head(innerWork).host = h
           /\ Head(innerWork) \in Elems(innerWork)
           /\ innerWork' \in Seq(Results) /\ Elems(innerWork') \subseteq Elems(innerWork)
           /\ innerWork' = Tail(innerWork) /\ innerWork # <<>>
           /\ stage = "inner"
           /\ UNCHANGED <<outerQueue, outerWork, innerQueue, stage, host, closing, requests,
                          timerDue, dbQueue, dbWork, session, row, playerList, usingHosts>>
BY QueueOps, ElemsOfTail DEF TypeOK, TakeInner, netVars, dbVars

\* The DB thread takes a request.
LEMMA RequestEffect ==
    ASSUME TypeOK, TakeRequest
    PROVE  /\ Head(dbWork) \in Requests /\ Head(dbWork) \in Elems(dbWork)
           /\ dbWork' \in Seq(Requests) /\ Elems(dbWork') \subseteq Elems(dbWork)
           /\ dbWork' = Tail(dbWork) /\ dbWork # <<>>
           /\ UNCHANGED <<host, closing, requests, outerQueue, outerWork, innerWork, stage,
                          timerDue, kickList, dbQueue, playerList, usingHosts, sent>>
BY QueueOps, ElemsOfTail DEF TypeOK, TakeRequest, netVars, kickVars

\* What the procedure returns, and the row it leaves
LEMMA ProcedureEffect ==
    ASSUME NEW r \in {NoRow} \cup Rows
    PROVE  /\ TakenRow(r) \in Rows
           /\ ResultOf(r) \in {Success, InUse, PermanentBlock, DurationBlock}
           /\ TakenRow(r) # NoRow
           /\ TakenRow(r).status = IF r = NoRow THEN 0 ELSE r.status
           /\ TakenRow(r).status <= 1 => TakenRow(r).server = ServerId
           /\ ~ Blocked(ResultOf(r)) => ~ Blocked(TakenRow(r).status)
<1>1. CASE r = NoRow
  BY <1>1 DEF TakenRow, ResultOf, Rows, Blocked, Success, PermanentBlock, DurationBlock
<1>2. CASE r \in Rows
  BY <1>2 DEF TakenRow, ResultOf, Rows, Blocked, Success, InUse, PermanentBlock, DurationBlock
<1>3. QED
  BY <1>1, <1>2

-----------------------------------------------------------------------------
(* Types *)

LEMMA InitTypes == ASSUME Init PROVE TypeOK
<1>1. /\ <<>> \in Seq(Packets) /\ <<>> \in Seq(Results) /\ <<>> \in Seq(Requests)
      /\ <<>> \in Seq(Messages)
  BY EmptySeq
<1>2. row \in [Accounts -> {NoRow} \cup Rows]
  BY DEF Init, Rows
<1>3. kickList \in [Hosts -> {NotListed} \cup 0 .. KickDelay] /\ requests \in 0 .. MaxRequests
  BY DEF Init
<1>4. QED
  BY <1>1, <1>2, <1>3 DEF Init, TypeOK

\* The connections
LEMMA NetworkTypes ==
    ASSUME TypeOK, NEW h \in Hosts, OnConnect(h) \/ OnReceive(h) \/ OnClose(h) \/ CloseUnknownHost(h)
    PROVE  TypeOK'
<1>1. CASE OnConnect(h)
  <2>1. Packet(h, "HostConnect", NoAccount) \in Packets
    BY DEF Packet, Packets
  <2>2. outerQueue' \in Seq(Packets)
    BY <1>1, <2>1, QueueOps DEF OnConnect, PushOuter, TypeOK
  <2>3. QED
    BY <1>1, <2>2 DEF OnConnect, TypeOK, kickVars, dbVars
<1>2. CASE OnReceive(h)
  <2>1. PICK k \in Kinds[h], a \in Accounts : PushOuter(Packet(h, k, a))
    BY <1>2 DEF OnReceive
  <2>2. Packet(h, k, a) \in Packets
    BY DEF Packet, Packets
  <2>3. outerQueue' \in Seq(Packets)
    BY <2>1, <2>2, QueueOps DEF PushOuter, TypeOK
  <2>4. QED
    BY <1>2, <2>3 DEF OnReceive, TypeOK, kickVars, dbVars
<1>3. CASE OnClose(h)
  <2>1. Packet(h, "HostClose", NoAccount) \in Packets
    BY DEF Packet, Packets
  <2>2. outerQueue' \in Seq(Packets)
    BY <1>3, <2>1, QueueOps DEF OnClose, PushOuter, TypeOK
  <2>3. QED
    BY <1>3, <2>2 DEF OnClose, TypeOK, kickVars, dbVars
<1>4. CASE CloseUnknownHost(h)
  BY <1>4 DEF CloseUnknownHost, TypeOK, queueVars, kickVars, dbVars
<1>5. QED
  BY <1>1, <1>2, <1>3, <1>4

\* Time and the turns of the service thread
LEMMA TurnTypes ==
    ASSUME TypeOK, Tick \/ UpdateTimer \/ SwapOuter
    PROVE  TypeOK'
<1>1. CASE Tick
  <2>1. kickList' \in [Hosts -> {NotListed} \cup 0 .. KickDelay]
    BY <1>1 DEF Tick, TypeOK, NotListed
  <2>2. QED
    BY <1>1, <2>1 DEF Tick, TypeOK, netVars, queueVars, dbVars
<1>2. CASE UpdateTimer
  <2>1. <<>> \in Seq(Results)
    BY EmptySeq
  <2>2. kickList' \in [Hosts -> {NotListed} \cup 0 .. KickDelay] /\ closing' \subseteq Hosts
    BY <1>2 DEF UpdateTimer, KickProcess, TypeOK
  <2>3. QED
    BY <1>2, <2>1, <2>2 DEF UpdateTimer, TypeOK, dbVars
<1>3. CASE SwapOuter
  <2>1. <<>> \in Seq(Packets)
    BY EmptySeq
  <2>2. QED
    BY <1>3, <2>1 DEF SwapOuter, TypeOK, netVars, kickVars, dbVars
<1>4. QED
  BY <1>1, <1>2, <1>3

\* The handlers that leave the players alone
LEMMA SimpleTypes ==
    ASSUME TypeOK, NEW h \in Hosts,
           OnHostConnect(h) \/ OnHostClose(h) \/ DropUnregistered(h) \/ OnDeserializeFail(h)
    PROVE  TypeOK'
<1>1. PICK k : TakeOuter(k, h)
  BY DEF OnHostConnect, OnHostClose, DropUnregistered, OnDeserializeFail
<1>2. /\ outerWork' \in Seq(Packets)
      /\ UNCHANGED <<outerQueue, innerQueue, innerWork, stage, host, requests, timerDue>>
  BY <1>1, OuterEffect
<1>3. /\ usingHosts' \subseteq Hosts /\ closing' \subseteq Hosts
      /\ UNCHANGED <<kickList, dbQueue, dbWork, session, row, playerList, sent>>
  BY DEF OnHostConnect, OnHostClose, DropUnregistered, OnDeserializeFail, TypeOK, dbVars
<1>4. QED
  BY <1>2, <1>3 DEF TypeOK

\* What the handlers of a first request that is not looked up have in common
LEMMA NoLookUp ==
    ASSUME TypeOK, NEW h \in Hosts, IgnoreClient(h) \/ RefuseKey(h) \/ AskPlatform(h)
    PROVE  /\ \E k \in {"badClient", "badKey", "platform"} : TakeOuter(k, h)
           /\ playerList[h] = NoPlayer
           /\ playerList' \in [Hosts -> Players \cup {NoPlayer}]
           /\ \A g \in Hosts : g # h => playerList'[g] = playerList[g]
           /\ playerList'[h] \in Players /\ playerList'[h].state # "DBProcess"
           /\ UNCHANGED <<usingHosts, closing, dbQueue, dbWork, session, row>>
           /\ \/ UNCHANGED <<kickList, sent>>
              \/ SendPacket(h, Error) /\ AddKickReserve(h)
<1>1. PICK k \in {"badClient", "badKey", "platform"} : TakeOuter(k, h)
  BY DEF IgnoreClient, RefuseKey, AskPlatform
<1>2. Head(outerWork).account \in Accounts
  BY <1>1, OuterEffect DEF Packets
<1>3. \E st \in {"None", "PlatformAuthorize"} :
        playerList' = [playerList EXCEPT ![h] = [state |-> st, account |-> Head(outerWork).account]]
  BY DEF IgnoreClient, RefuseKey, AskPlatform, Add, NewPlayer
<1>4. /\ playerList' \in [Hosts -> Players \cup {NoPlayer}]
      /\ \A g \in Hosts : g # h => playerList'[g] = playerList[g]
      /\ playerList'[h] \in Players /\ playerList'[h].state # "DBProcess"
  BY <1>2, <1>3 DEF TypeOK, Players
<1>5. QED
  BY <1>1, <1>4 DEF IgnoreClient, RefuseKey, AskPlatform, IsNewPlayer, dbVars

LEMMA LookUp ==
    ASSUME TypeOK, NEW h \in Hosts, AskDB(h)
    PROVE  /\ TakeOuter("guest", h)
           /\ playerList[h] = NoPlayer
           /\ playerList' \in [Hosts -> Players \cup {NoPlayer}]
           /\ \A g \in Hosts : g # h => playerList'[g] = playerList[g]
           /\ playerList'[h] \in Players /\ playerList'[h].state = "DBProcess"
           /\ \E x \in Requests : x.host = h /\ dbQueue' = Append(dbQueue, x)
           /\ dbQueue' \in Seq(Requests)
           /\ UNCHANGED <<usingHosts, closing, kickList, dbWork, session, row, sent>>
<1> DEFINE x == [host |-> h, account |-> Head(outerWork).account]
<1>1. Head(outerWork).account \in Accounts
  <2>1. Head(outerWork) \in Packets /\ Head(outerWork).kind = "guest"
    BY OuterEffect DEF AskDB, TakeOuter
  <2>2. ASSUME NEW p \in Packets, p.kind = "guest" PROVE p.account \in Accounts
    BY <2>2 DEF Packets
  <2>3. QED
    BY <2>1, <2>2
<1>2. x \in Requests /\ x.host = h /\ dbQueue' = Append(dbQueue, x)
  BY <1>1 DEF AskDB, Requests
<1>3. playerList' = [playerList EXCEPT ![h] = [state |-> "DBProcess", account |-> Head(outerWork).account]]
  <2>1. [NewPlayer(Head(outerWork).account) EXCEPT !.state = "DBProcess"]
          = [state |-> "DBProcess", account |-> Head(outerWork).account]
    BY DEF NewPlayer
  <2>2. QED
    BY <2>1 DEF AskDB, Add
<1>4. /\ playerList' \in [Hosts -> Players \cup {NoPlayer}]
      /\ \A g \in Hosts : g # h => playerList'[g] = playerList[g]
      /\ playerList'[h] \in Players /\ playerList'[h].state = "DBProcess"
  BY <1>1, <1>3 DEF TypeOK, Players
<1> HIDE DEF x
<1>5. dbQueue' \in Seq(Requests)
  BY <1>2, QueueOps DEF TypeOK
<1>6. QED
  BY <1>2, <1>4, <1>5 DEF AskDB, IsNewPlayer

\* The handlers of requests
LEMMA RequestTypes ==
    ASSUME TypeOK, NEW h \in Hosts,
           RefuseSecond(h) \/ IgnoreClient(h) \/ RefuseKey(h) \/ AskPlatform(h) \/ AskDB(h)
    PROVE  TypeOK'
<1>1. PICK k : TakeOuter(k, h)
  BY NoLookUp DEF RefuseSecond, AskDB
<1>2. /\ outerWork' \in Seq(Packets)
      /\ UNCHANGED <<outerQueue, innerQueue, innerWork, stage, host, requests, timerDue>>
  BY <1>1, OuterEffect
<1>3. CASE RefuseSecond(h)
  <2>1. /\ sent' \in [Hosts -> Seq(Messages)]
        /\ kickList' \in [Hosts -> {NotListed} \cup 0 .. KickDelay]
    BY <1>3, SendEffect, KickEffect, MessagesAre DEF RefuseSecond
  <2>2. QED
    BY <1>2, <1>3, <2>1 DEF RefuseSecond, TypeOK, dbVars
<1>4. CASE IgnoreClient(h) \/ RefuseKey(h) \/ AskPlatform(h)
  <2>1. /\ sent' \in [Hosts -> Seq(Messages)]
        /\ kickList' \in [Hosts -> {NotListed} \cup 0 .. KickDelay]
    BY <1>4, NoLookUp, SendEffect, KickEffect, MessagesAre DEF TypeOK
  <2>2. QED
    BY <1>2, <1>4, <2>1, NoLookUp DEF TypeOK
<1>5. CASE AskDB(h)
  BY <1>2, <1>5, LookUp DEF TypeOK
<1>6. QED
  BY <1>3, <1>4, <1>5

\* The answer of the DB
LEMMA AnswerTypes ==
    ASSUME TypeOK, NEW h \in Hosts, RefuseBlocked(h) \/ Accept(h)
    PROVE  TypeOK'
<1>1. TakeInner(h)
  BY DEF RefuseBlocked, Accept
<1>2. /\ sent' \in [Hosts -> Seq(Messages)]
      /\ kickList' \in [Hosts -> {NotListed} \cup 0 .. KickDelay]
  <2>1. CASE RefuseBlocked(h)
    BY <2>1, SendEffect, KickEffect, MessagesAre DEF RefuseBlocked
  <2>2. CASE Accept(h)
    <3>1. Head(innerWork).account \in Accounts \cup {NoAccount}
      BY <1>1, InnerEffect DEF Results
    <3>2. QED
      BY <2>2, <3>1, SendEffect, MessagesAre DEF Accept, TypeOK
  <2>3. QED
    BY <2>1, <2>2
<1>3. QED
  BY <1>1, <1>2, InnerEffect DEF TypeOK

\* What a reply adds to the queue
LEMMA ReplyEffect ==
    ASSUME TypeOK, Head(dbWork) \in Requests,
           NEW res \in {None, Success, InUse, PermanentBlock, DurationBlock},
           NEW a \in Accounts \cup {NoAccount}, Reply(res, a)
    PROVE  /\ innerQueue' \in Seq(Results)
           /\ \E x \in Results : /\ x.host = Head(dbWork).host /\ x.result = res /\ x.account = a
                                 /\ innerQueue' = Append(innerQueue, x)
<1> DEFINE x == [host |-> Head(dbWork).host, result |-> res, account |-> a]
<1>1. x \in Results /\ x.host = Head(dbWork).host /\ x.result = res /\ x.account = a
  BY DEF Requests, Results
<1>2. innerQueue' = Append(innerQueue, x)
  BY DEF Reply
<1> HIDE DEF x
<1>3. QED
  BY <1>1, <1>2, QueueOps DEF TypeOK

\* The DB thread
LEMMA DBTypes ==
    ASSUME TypeOK, TakeDBWork \/ LoseSession \/ DropRequest \/ FailRequest \/ RunProcedure
    PROVE  TypeOK'
<1>1. CASE TakeDBWork
  <2>1. <<>> \in Seq(Requests)
    BY EmptySeq
  <2>2. QED
    BY <1>1, <2>1 DEF TakeDBWork, TypeOK, netVars, queueVars, kickVars
<1>2. CASE LoseSession
  BY <1>2 DEF LoseSession, TypeOK, netVars, queueVars, kickVars
<1>3. CASE DropRequest
  BY <1>3, RequestEffect DEF DropRequest, TypeOK
<1>4. CASE FailRequest
  <2>1. innerQueue' \in Seq(Results)
    BY <1>4, RequestEffect, ReplyEffect DEF FailRequest
  <2>2. session' \in {"none", "up", "lost"} /\ row' = row
    BY <1>4 DEF FailRequest, Reconnects, TypeOK
  <2>3. QED
    BY <1>4, <2>1, <2>2, RequestEffect DEF FailRequest, TypeOK
<1>5. CASE RunProcedure
  <2> DEFINE a == Head(dbWork).account
  <2>1. a \in Accounts
    BY <1>5, RequestEffect DEF RunProcedure, Requests
  <2>2. TakenRow(row[a]) \in Rows
        /\ ResultOf(row[a]) \in {None, Success, InUse, PermanentBlock, DurationBlock}
    BY <2>1, ProcedureEffect DEF TypeOK
  <2>3. row' \in [Accounts -> {NoRow} \cup Rows]
    BY <1>5, <2>2 DEF RunProcedure, TypeOK
  <2>4. innerQueue' \in Seq(Results)
    BY <1>5, <2>1, <2>2, RequestEffect, ReplyEffect DEF RunProcedure
  <2>5. session' \in {"none", "up", "lost"}
    BY <1>5 DEF RunProcedure, Reconnects, TypeOK
  <2>6. QED
    BY <1>5, <2>3, <2>4, <2>5, RequestEffect DEF RunProcedure, TypeOK
<1>6. QED
  BY <1>1, <1>2, <1>3, <1>4, <1>5

LEMMA NextTypes == ASSUME TypeOK, [Next]_vars PROVE TypeOK'
<1>1. CASE UNCHANGED vars
  BY <1>1 DEF vars, netVars, queueVars, kickVars, dbVars, TypeOK
<1>2. QED
  BY <1>1, NetworkTypes, TurnTypes, SimpleTypes, RequestTypes, AnswerTypes, DBTypes
     DEF Next, ServiceStep, DBStep

-----------------------------------------------------------------------------
(* The inner queue *)

\* Steps that touch neither a player, nor a look-up, nor what clients were sent
Quiet ==
    \/ \E h \in Hosts :
        \/ OnConnect(h) \/ OnReceive(h) \/ OnClose(h) \/ CloseUnknownHost(h)
        \/ OnHostConnect(h) \/ OnHostClose(h) \/ DropUnregistered(h) \/ OnDeserializeFail(h)
    \/ Tick \/ SwapOuter \/ LoseSession
    \/ UNCHANGED vars

LEMMA QuietKeeps ==
    ASSUME TypeOK, Quiet
    PROVE  UNCHANGED <<playerList, dbQueue, dbWork, innerQueue, innerWork, row, sent>>
<1>1. ASSUME NEW h \in Hosts,
             OnHostConnect(h) \/ OnHostClose(h) \/ DropUnregistered(h) \/ OnDeserializeFail(h)
      PROVE  UNCHANGED <<playerList, dbQueue, dbWork, innerQueue, innerWork, row, sent>>
  <2>1. PICK k : TakeOuter(k, h)
    BY <1>1 DEF OnHostConnect, OnHostClose, DropUnregistered, OnDeserializeFail
  <2>2. UNCHANGED <<innerQueue, innerWork>>
    BY <2>1, OuterEffect
  <2>3. QED
    BY <1>1, <2>2 DEF OnHostConnect, OnHostClose, DropUnregistered, OnDeserializeFail, dbVars
<1>2. ASSUME NEW h \in Hosts, OnConnect(h) \/ OnReceive(h) \/ OnClose(h) \/ CloseUnknownHost(h)
      PROVE  UNCHANGED <<playerList, dbQueue, dbWork, innerQueue, innerWork, row, sent>>
  BY <1>2 DEF OnConnect, OnReceive, OnClose, CloseUnknownHost, queueVars, dbVars
<1>3. CASE Tick \/ SwapOuter \/ LoseSession \/ UNCHANGED vars
  BY <1>3 DEF Tick, SwapOuter, LoseSession, queueVars, dbVars, vars
<1>4. QED
  BY <1>1, <1>2, <1>3 DEF Quiet

\* Every step is a quiet one or one of these.
LEMMA NextCases ==
    ASSUME [Next]_vars
    PROVE  \/ Quiet
           \/ UpdateTimer
           \/ \E h \in Hosts :
                \/ RefuseSecond(h)
                \/ IgnoreClient(h) \/ RefuseKey(h) \/ AskPlatform(h)
                \/ AskDB(h)
                \/ RefuseBlocked(h) \/ Accept(h)
           \/ TakeDBWork \/ DropRequest \/ FailRequest \/ RunProcedure
BY DEF Next, ServiceStep, DBStep, Quiet

LEMMA NextInnerFirst == ASSUME TypeOK, InnerFirst, [Next]_vars PROVE InnerFirst'
<1>1. CASE Quiet
  <2>1. innerWork' = innerWork
    BY <1>1, QuietKeeps
  <2>2. CASE SwapOuter
    BY <2>1, <2>2 DEF SwapOuter, InnerFirst
  <2>3. CASE \E h \in Hosts : \/ OnHostConnect(h) \/ OnHostClose(h) \/ DropUnregistered(h)
                              \/ OnDeserializeFail(h)
    BY <2>1, <2>3, OuterEffect
       DEF OnHostConnect, OnHostClose, DropUnregistered, OnDeserializeFail, InnerFirst
  <2>4. CASE stage' = stage
    BY <2>1, <2>4 DEF InnerFirst
  <2>5. QED
    BY <1>1, <2>2, <2>3, <2>4 DEF Quiet, OnConnect, OnReceive, OnClose, CloseUnknownHost, Tick,
       LoseSession, queueVars, vars
<1>2. CASE UpdateTimer
  BY <1>2 DEF UpdateTimer, InnerFirst
<1>3. ASSUME NEW h \in Hosts, NEW k, TakeOuter(k, h) PROVE InnerFirst'
  BY <1>3, OuterEffect DEF InnerFirst
<1>4. ASSUME NEW h \in Hosts, TakeInner(h) PROVE InnerFirst'
  BY <1>4, InnerEffect DEF InnerFirst
<1>5. CASE TakeDBWork \/ DropRequest \/ FailRequest \/ RunProcedure
  BY <1>5, RequestEffect DEF TakeDBWork, DropRequest, FailRequest, RunProcedure, InnerFirst, queueVars
<1>6. QED
  BY <1>1, <1>2, <1>3, <1>4, <1>5, NextCases, NoLookUp
     DEF RefuseSecond, AskDB, RefuseBlocked, Accept

-----------------------------------------------------------------------------
(* One look-up of each client *)

Total(h) == Count(h, dbQueue) + Count(h, dbWork) + Count(h, innerQueue) + Count(h, innerWork)
              + Cardinality(AnswersIn(sent[h]))
IsLookedUp(h) == playerList[h] # NoPlayer /\ playerList[h].state = "DBProcess"

LEMMA TotalIsInFlight ==
    ASSUME NEW h \in Hosts
    PROVE  /\ Total(h) = InFlight(h) + Cardinality(Answers(h))
           /\ Total(h)' = InFlight(h)' + Cardinality(Answers(h))'
BY DEF Total, Count, InFlight, Answers, AnswersIn

LEMMA CountsAreNatural ==
    ASSUME TypeOK, NEW h \in Hosts
    PROVE  /\ Count(h, dbQueue) \in Nat /\ Count(h, dbWork) \in Nat
           /\ Count(h, innerQueue) \in Nat /\ Count(h, innerWork) \in Nat
           /\ Cardinality(AnswersIn(sent[h])) \in Nat
<1>1. sent[h] \in Seq(Messages)
  BY DEF TypeOK
<1>2. Cardinality(AnswersIn(sent[h])) \in Nat
  BY <1>1, AnswersOfAppend, MessagesAre
<1>3. QED
  BY <1>2, OfIsFinite DEF TypeOK

\* A message adds to the answers of its host if it is one.
LEMMA SendAdds ==
    ASSUME TypeOK, NEW h \in Hosts, NEW m \in Messages, SendPacket(h, m), NEW g \in Hosts
    PROVE  /\ g # h \/ m.msg # "LC_AuthRes" =>
                Cardinality(AnswersIn(sent'[g])) = Cardinality(AnswersIn(sent[g]))
           /\ \/ Cardinality(AnswersIn(sent'[g])) = Cardinality(AnswersIn(sent[g]))
              \/ Cardinality(AnswersIn(sent'[g])) = Cardinality(AnswersIn(sent[g])) + 1
<1>1. CASE sent'[g] = sent[g]
  BY <1>1
<1>2. CASE g = h /\ sent'[g] = Append(sent[g], m)
  <2>1. sent[g] \in Seq(Messages)
    BY DEF TypeOK
  <2>2. /\ Cardinality(AnswersIn(sent[g])) \in Nat
        /\ Cardinality(AnswersIn(Append(sent[g], m))) =
             Cardinality(AnswersIn(sent[g])) + (IF m.msg = "LC_AuthRes" THEN 1 ELSE 0)
    BY <2>1, AnswersOfAppend
  <2>3. QED
    BY <1>2, <2>2
<1>3. QED
  BY <1>1, <1>2, SendEffect

\* With a session, the DB thread answers the host that asked, even if the call failed.
LEMMA DBAnswers ==
    ASSUME TypeOK, FailRequest \/ RunProcedure
    PROVE  TakeRequest /\ \E x \in Results :
               x.host = Head(dbWork).host /\ innerQueue' = Append(innerQueue, x)
<1>1. TakeRequest /\ Head(dbWork) \in Requests
  BY RequestEffect DEF FailRequest, RunProcedure
<1>3. CASE FailRequest
  BY <1>1, <1>3, ReplyEffect DEF FailRequest
<1>4. CASE RunProcedure
  <2> DEFINE a == Head(dbWork).account
  <2>1. a \in Accounts /\ row[a] \in {NoRow} \cup Rows
    BY <1>1 DEF Requests, TypeOK
  <2>2. Reply(ResultOf(row[a]), a)
    BY <1>4 DEF RunProcedure
  <2>3. QED
    BY <1>1, <2>1, <2>2, ProcedureEffect, ReplyEffect
<1>5. QED
  BY <1>3, <1>4

\* The DB thread drops a request, or answers the host that asked.
LEMMA DBReplies ==
    ASSUME TypeOK, DropRequest \/ FailRequest \/ RunProcedure
    PROVE  TakeRequest /\ (UNCHANGED innerQueue \/ \E x \in Results :
               x.host = Head(dbWork).host /\ innerQueue' = Append(innerQueue, x))
BY DBAnswers DEF DropRequest

LEMMA NextLookedUpOnce ==
    ASSUME TypeOK, InnerFirst, LookedUpOnce, [Next]_vars
    PROVE  LookedUpOnce'
<1> SUFFICES ASSUME NEW g \in Hosts
             PROVE  Total(g)' <= 1 /\ (Total(g)' = 1 => IsLookedUp(g)')
  BY TotalIsInFlight DEF LookedUpOnce, IsLookedUp
<1>1. Total(g) <= 1 /\ (Total(g) = 1 => IsLookedUp(g))
  BY TotalIsInFlight DEF LookedUpOnce, IsLookedUp
<1>2. /\ Count(g, dbQueue) \in Nat /\ Count(g, dbWork) \in Nat
      /\ Count(g, innerQueue) \in Nat /\ Count(g, innerWork) \in Nat
      /\ Cardinality(AnswersIn(sent[g])) \in Nat
  BY CountsAreNatural
<1>3. CASE Quiet
  BY <1>1, <1>3, QuietKeeps DEF Total, IsLookedUp
<1>4. CASE UpdateTimer
  <2>1. /\ innerWork = <<>> /\ innerWork' = innerQueue /\ innerQueue' = <<>>
        /\ UNCHANGED <<dbQueue, dbWork, playerList, sent>>
    BY <1>4 DEF UpdateTimer, InnerFirst, dbVars
  <2>2. Total(g)' = Total(g)
    BY <1>2, <2>1, CountOfEmpty DEF Total
  <2>3. QED
    BY <1>1, <2>1, <2>2 DEF IsLookedUp
<1>5. ASSUME NEW h \in Hosts, RefuseSecond(h) PROVE Total(g)' = Total(g) /\ playerList' = playerList
  <2>1. UNCHANGED <<dbQueue, dbWork, innerQueue, innerWork, playerList>>
    BY <1>5, OuterEffect DEF RefuseSecond, dbVars
  <2>2. Cardinality(AnswersIn(sent'[g])) = Cardinality(AnswersIn(sent[g]))
    BY <1>5, SendAdds, MessagesAre DEF RefuseSecond
  <2>3. QED
    BY <2>1, <2>2 DEF Total
<1>6. ASSUME NEW h \in Hosts, IgnoreClient(h) \/ RefuseKey(h) \/ AskPlatform(h)
      PROVE  /\ Total(g)' = Total(g)
             /\ g # h => playerList'[g] = playerList[g]
             /\ g = h => Total(g) = 0
  <2>1. UNCHANGED <<innerQueue, innerWork, dbQueue, dbWork>>
    BY <1>6, NoLookUp, OuterEffect
  <2>2. Cardinality(AnswersIn(sent'[g])) = Cardinality(AnswersIn(sent[g]))
    <3>1. CASE UNCHANGED sent
      BY <3>1
    <3>2. CASE SendPacket(h, Error)
      BY <3>2, SendAdds, MessagesAre
    <3>3. QED
      BY <1>6, <3>1, <3>2, NoLookUp
  <2>3. g = h => playerList[g] = NoPlayer
    BY <1>6, NoLookUp
  <2>4. g # h => playerList'[g] = playerList[g]
    BY <1>6, NoLookUp
  <2>5. Total(g)' = Total(g) /\ Total(g) \in Nat
    BY <1>2, <2>1, <2>2 DEF Total
  <2>6. g = h => Total(g) # 1
    BY <1>1, <2>3 DEF IsLookedUp
  <2>7. QED
    BY <1>1, <2>4, <2>5, <2>6
<1>7. ASSUME NEW h \in Hosts, AskDB(h) PROVE Total(g)' <= 1 /\ (Total(g)' = 1 => IsLookedUp(g)')
  <2>1. UNCHANGED <<innerQueue, innerWork>>
    BY <1>7, OuterEffect DEF AskDB
  <2>2. PICK x \in Requests : x.host = h /\ dbQueue' = Append(dbQueue, x)
    BY <1>7, LookUp
  <2>3. Count(g, dbQueue') = Count(g, dbQueue) + (IF h = g THEN 1 ELSE 0)
    BY <2>2, CountOfAppend DEF TypeOK
  <2>4. UNCHANGED <<dbWork, sent>>
    BY <1>7, LookUp
  <2>5. Total(g)' = Total(g) + (IF h = g THEN 1 ELSE 0)
    BY <1>2, <2>1, <2>3, <2>4 DEF Total
  <2>6. /\ g # h => playerList'[g] = playerList[g]
        /\ playerList[h] = NoPlayer
        /\ playerList'[h] \in Players /\ playerList'[h].state = "DBProcess"
    BY <1>7, LookUp
  <2>7. Total(g) \in Nat /\ (g = h => Total(g) # 1)
    BY <1>1, <1>2, <2>6 DEF Total, IsLookedUp
  <2>8. IsLookedUp(h)'
    BY <2>6 DEF IsLookedUp
  <2>9. CASE g = h
    BY <1>1, <2>5, <2>7, <2>8, <2>9
  <2>10. CASE g # h
    <3>1. IsLookedUp(g)' = IsLookedUp(g) /\ Total(g)' = Total(g)
      BY <2>5, <2>6, <2>7, <2>10 DEF IsLookedUp
    <3>2. QED
      BY <1>1, <3>1
  <2>11. QED
    BY <2>9, <2>10
<1>8. ASSUME NEW h \in Hosts, TakeInner(h),
             NEW m \in Messages, SendPacket(h, m)
      PROVE  Total(g)' <= Total(g) /\ Total(g)' \in Nat /\ playerList' = playerList
  <2>1. /\ innerWork' = Tail(innerWork) /\ innerWork # <<>> /\ Head(innerWork).host = h
        /\ UNCHANGED <<innerQueue, dbQueue, dbWork, playerList>>
    BY <1>8, InnerEffect
  <2>2. Count(g, innerWork) = Count(g, innerWork') + (IF h = g THEN 1 ELSE 0)
    BY <2>1, CountOfTail DEF TypeOK
  <2>3. Count(g, innerWork') \in Nat
    BY <1>8, InnerEffect, OfIsFinite
  <2>4. \/ Cardinality(AnswersIn(sent'[g])) = Cardinality(AnswersIn(sent[g]))
        \/ g = h /\ Cardinality(AnswersIn(sent'[g])) = Cardinality(AnswersIn(sent[g])) + 1
    BY <1>8, SendAdds
  <2>5. QED
    BY <1>2, <2>1, <2>2, <2>3, <2>4 DEF Total
<1>9. CASE TakeDBWork
  <2>1. /\ dbWork = <<>> /\ dbWork' = dbQueue /\ dbQueue' = <<>>
        /\ UNCHANGED <<innerQueue, innerWork, playerList, sent>>
    BY <1>9 DEF TakeDBWork, queueVars
  <2>2. Total(g)' = Total(g)
    BY <1>2, <2>1, CountOfEmpty DEF Total
  <2>3. QED
    BY <1>1, <2>1, <2>2 DEF IsLookedUp
<1>10. ASSUME TakeRequest, UNCHANGED innerQueue \/ \E x \in Results :
                 x.host = Head(dbWork).host /\ innerQueue' = Append(innerQueue, x)
       PROVE  Total(g)' <= Total(g) /\ Total(g)' \in Nat /\ playerList' = playerList
  <2>1. /\ dbWork' = Tail(dbWork) /\ dbWork # <<>>
        /\ UNCHANGED <<innerWork, dbQueue, playerList, sent>>
    BY <1>10, RequestEffect
  <2>2. Count(g, dbWork) = Count(g, dbWork') + (IF Head(dbWork).host = g THEN 1 ELSE 0)
    BY <2>1, CountOfTail DEF TypeOK
  <2>3. Count(g, dbWork') \in Nat
    BY <1>10, RequestEffect, OfIsFinite
  <2>4. \/ Count(g, innerQueue') = Count(g, innerQueue)
        \/ Count(g, innerQueue') = Count(g, innerQueue) + (IF Head(dbWork).host = g THEN 1 ELSE 0)
    <3>1. CASE \E x \in Results : x.host = Head(dbWork).host /\ innerQueue' = Append(innerQueue, x)
      <4>1. PICK x \in Results : x.host = Head(dbWork).host /\ innerQueue' = Append(innerQueue, x)
        BY <3>1
      <4>2. Count(g, Append(innerQueue, x)) = Count(g, innerQueue) + (IF x.host = g THEN 1 ELSE 0)
        BY CountOfAppend DEF TypeOK
      <4>3. QED
        BY <4>1, <4>2
    <3>2. QED
      BY <1>10, <3>1
  <2>5. /\ Count(g, dbQueue') = Count(g, dbQueue) /\ Count(g, innerWork') = Count(g, innerWork)
        /\ Cardinality(AnswersIn(sent'[g])) = Cardinality(AnswersIn(sent[g]))
    BY <2>1
  <2>6. Count(g, dbWork') + Count(g, innerQueue') <= Count(g, dbWork) + Count(g, innerQueue)
        /\ Count(g, innerQueue') \in Nat
    BY <1>2, <2>2, <2>3, <2>4
  <2>7. QED
    BY <1>2, <2>1, <2>3, <2>5, <2>6 DEF Total
<1>11. ASSUME Total(g)' <= Total(g), Total(g)' \in Nat, playerList' = playerList
       PROVE  Total(g)' <= 1 /\ (Total(g)' = 1 => IsLookedUp(g)')
  <2>1. Total(g) \in Nat
    BY <1>2 DEF Total
  <2>2. QED
    BY <1>1, <1>11, <2>1 DEF IsLookedUp
<1>12. ASSUME NEW h \in Hosts, RefuseBlocked(h) \/ Accept(h)
       PROVE  \E m \in Messages : TakeInner(h) /\ SendPacket(h, m)
  <2>1. TakeInner(h) /\ Head(innerWork).account \in Accounts \cup {NoAccount}
    BY <1>12, InnerEffect DEF RefuseBlocked, Accept, Results
  <2>2. QED
    BY <1>12, <2>1, MessagesAre DEF RefuseBlocked, Accept
<1>13. DropRequest \/ FailRequest \/ RunProcedure =>
         TakeRequest /\ (UNCHANGED innerQueue \/ \E x \in Results :
             x.host = Head(dbWork).host /\ innerQueue' = Append(innerQueue, x))
  BY DBReplies
<1>14. ASSUME NEW h \in Hosts, RefuseSecond(h) PROVE Total(g)' <= 1 /\ (Total(g)' = 1 => IsLookedUp(g)')
  BY <1>1, <1>5, <1>14 DEF IsLookedUp
<1>15. ASSUME NEW h \in Hosts, IgnoreClient(h) \/ RefuseKey(h) \/ AskPlatform(h)
       PROVE  Total(g)' <= 1 /\ (Total(g)' = 1 => IsLookedUp(g)')
  BY <1>1, <1>6, <1>15 DEF IsLookedUp
<1>16. ASSUME NEW h \in Hosts, RefuseBlocked(h) \/ Accept(h)
       PROVE  Total(g)' <= 1 /\ (Total(g)' = 1 => IsLookedUp(g)')
  <2>1. PICK m \in Messages : TakeInner(h) /\ SendPacket(h, m)
    BY <1>12, <1>16
  <2>2. QED
    BY <1>8, <1>11, <2>1
<1>17. ASSUME DropRequest \/ FailRequest \/ RunProcedure
       PROVE  Total(g)' <= 1 /\ (Total(g)' = 1 => IsLookedUp(g)')
  BY <1>10, <1>11, <1>13, <1>17
<1>18. QED
  BY <1>3, <1>4, <1>7, <1>9, <1>14, <1>15, <1>16, <1>17, NextCases

-----------------------------------------------------------------------------
(* Every host that anything is kept for has connected. *)

\* What queues and lists may gain in a step, and what they may not lose
Grows ==
    /\ \A h \in Hosts : host[h] # "none" => host'[h] # "none"
    /\ \A h \in Hosts : playerList[h] # NoPlayer => playerList'[h] # NoPlayer
    /\ \A h \in Hosts : playerList'[h] # NoPlayer => playerList[h] # NoPlayer \/ host[h] # "none"
    /\ \A h \in Hosts : kickList'[h] # NotListed => kickList[h] # NotListed \/ host[h] # "none"
    /\ \A h \in closing' : h \in closing \/ host[h] # "none"
    /\ \A p \in (Elems(outerQueue) \cup Elems(outerWork))' :
          p \in Elems(outerQueue) \cup Elems(outerWork) \/ host'[p.host] # "none"
    /\ \A x \in OnTheirWay' : \/ \E y \in OnTheirWay : y.host = x.host
                              \/ playerList'[x.host] # NoPlayer

LEMMA QueuesAreTyped ==
    ASSUME TypeOK
    PROVE  /\ Elems(outerQueue) \cup Elems(outerWork) \subseteq Packets
           /\ \A p \in Packets : p.host \in Hosts
           /\ OnTheirWay \subseteq Requests \cup Results
           /\ \A x \in Requests \cup Results : x.host \in Hosts
BY ElemsInSet DEF TypeOK, OnTheirWay, Packets, Requests, Results

LEMMA GrowsSuffices ==
    ASSUME TypeOK, TypeOK', HostsHaveCome, Grows,
           \A h \in Hosts : host'[h] = "open" => h \in usingHosts'
    PROVE  HostsHaveCome'
<1>1. \A p \in (Elems(outerQueue) \cup Elems(outerWork))' : host'[p.host] # "none"
  <2> SUFFICES ASSUME NEW p \in (Elems(outerQueue) \cup Elems(outerWork))'
               PROVE  host'[p.host] # "none"
    OBVIOUS
  <2>1. CASE p \in Elems(outerQueue) \cup Elems(outerWork)
    BY <2>1, QueuesAreTyped DEF Grows, HostsHaveCome
  <2>2. QED
    BY <2>1 DEF Grows
<1>2. /\ \A h \in Hosts : playerList'[h] # NoPlayer \/ kickList'[h] # NotListed => host'[h] # "none"
      /\ \A h \in closing' : host'[h] # "none"
  BY DEF Grows, HostsHaveCome, TypeOK
<1>3. \A x \in OnTheirWay' : playerList'[x.host] # NoPlayer
  <2> SUFFICES ASSUME NEW x \in OnTheirWay'
               PROVE  playerList'[x.host] # NoPlayer
    OBVIOUS
  <2>1. CASE \E y \in OnTheirWay : y.host = x.host
    BY <2>1, QueuesAreTyped DEF Grows, HostsHaveCome
  <2>2. QED
    BY <2>1 DEF Grows
<1>4. QED
  BY <1>1, <1>2, <1>3 DEF HostsHaveCome

LEMMA NextHostsHaveCome ==
    ASSUME TypeOK, HostsHaveCome, [Next]_vars
    PROVE  HostsHaveCome'
<1>1. TypeOK'
  BY NextTypes
<1> DEFINE Listed == \A h \in Hosts : host'[h] = "open" => h \in usingHosts'
\* The connections
<1>2. ASSUME NEW h \in Hosts, NEW p \in Packets, p.host = h, PushOuter(p), host'[h] # "none",
             host' = host \/ \E st \in {"open", "closed"} : host' = [host EXCEPT ![h] = st],
             UNCHANGED <<playerList, kickList, outerWork, dbQueue, dbWork, innerQueue, innerWork>>,
             closing' \subseteq closing
      PROVE  Grows
  <2>1. Elems(outerQueue') = Elems(outerQueue) \cup {p}
    BY <1>2, ElemsOfAppend DEF PushOuter, TypeOK
  <2>2. OnTheirWay' = OnTheirWay
    BY <1>2 DEF OnTheirWay
  <2>3. \A g \in Hosts : host[g] # "none" => host'[g] # "none"
    BY <1>2 DEF TypeOK
  <2>4. Elems(outerWork') = Elems(outerWork)
    BY <1>2
  <2>5. QED
    BY <1>2, <2>1, <2>2, <2>3, <2>4 DEF Grows
<1>3. ASSUME NEW h \in Hosts, OnConnect(h) PROVE Grows /\ Listed
  <2>1. Packet(h, "HostConnect", NoAccount) \in Packets
    BY DEF Packet, Packets
  <2>2. Packet(h, "HostConnect", NoAccount).host = h
    BY DEF Packet
  <2>3. /\ host' = [host EXCEPT ![h] = "open"] /\ host'[h] = "open"
        /\ UNCHANGED <<playerList, kickList, outerWork, dbQueue, dbWork, innerQueue, innerWork>>
    BY <1>3 DEF OnConnect, kickVars, dbVars, TypeOK
  <2>4. Grows
    <3>1. closing' \subseteq closing
      BY <1>3 DEF OnConnect
    <3>2. QED
      BY <1>2, <1>3, <2>1, <2>2, <2>3, <3>1 DEF OnConnect
  <2>5. Listed
    BY <1>3, <2>3 DEF OnConnect, TypeOK, HostsHaveCome
  <2>6. QED
    BY <2>4, <2>5
<1>4. ASSUME NEW h \in Hosts, OnReceive(h) PROVE Grows /\ Listed
  <2>1. PICK k \in Kinds[h], a \in Accounts : PushOuter(Packet(h, k, a))
    BY <1>4 DEF OnReceive
  <2>2. Packet(h, k, a) \in Packets /\ Packet(h, k, a).host = h
    BY DEF Packet, Packets
  <2>3. UNCHANGED <<host, closing, usingHosts, playerList, kickList, outerWork, dbQueue, dbWork,
                    innerQueue, innerWork>>
    BY <1>4 DEF OnReceive, kickVars, dbVars
  <2>4. host[h] = "open"
    BY <1>4 DEF OnReceive
  <2>5. Grows
    BY <1>2, <2>1, <2>2, <2>3, <2>4
  <2>6. QED
    BY <2>3, <2>5 DEF HostsHaveCome
<1>5. ASSUME NEW h \in Hosts, OnClose(h) PROVE Grows /\ Listed
  <2>1. Packet(h, "HostClose", NoAccount) \in Packets
    BY DEF Packet, Packets
  <2>2. Packet(h, "HostClose", NoAccount).host = h
    BY DEF Packet
  <2>3. /\ host' = [host EXCEPT ![h] = "closed"] /\ host'[h] = "closed"
        /\ UNCHANGED <<usingHosts, playerList, kickList, outerWork, dbQueue, dbWork, innerQueue,
                       innerWork>>
    BY <1>5 DEF OnClose, kickVars, dbVars, TypeOK
  <2>4. Grows
    <3>1. closing' \subseteq closing
      BY <1>5 DEF OnClose
    <3>2. QED
      BY <1>2, <1>5, <2>1, <2>2, <2>3, <3>1 DEF OnClose
  <2>5. Listed
    BY <2>3 DEF TypeOK, HostsHaveCome
  <2>6. QED
    BY <2>4, <2>5
\* Steps that change no host and push no outer packet
<1>6. ASSUME UNCHANGED host,
             (Elems(outerQueue) \cup Elems(outerWork))' \subseteq Elems(outerQueue) \cup Elems(outerWork),
             usingHosts \subseteq usingHosts',
             \A h \in closing' : h \in closing \/ host[h] # "none",
             \A h \in Hosts : kickList'[h] # NotListed => kickList[h] # NotListed \/ host[h] # "none",
             \A h \in Hosts : playerList[h] # NoPlayer => playerList'[h] # NoPlayer,
             \A h \in Hosts : playerList'[h] # NoPlayer => playerList[h] # NoPlayer \/ host[h] # "none",
             \A x \in OnTheirWay' : \/ \E y \in OnTheirWay : y.host = x.host
                                    \/ playerList'[x.host] # NoPlayer
      PROVE  Grows /\ Listed
  BY <1>6 DEF Grows, HostsHaveCome
<1>a. ASSUME UNCHANGED <<host, playerList>>,
             (Elems(outerQueue) \cup Elems(outerWork))' \subseteq Elems(outerQueue) \cup Elems(outerWork),
             usingHosts \subseteq usingHosts',
             \A h \in closing' : h \in closing \/ host[h] # "none",
             \A h \in Hosts : kickList'[h] # NotListed => kickList[h] # NotListed \/ host[h] # "none",
             \A x \in OnTheirWay' : \E y \in OnTheirWay : y.host = x.host
      PROVE  Grows /\ Listed
  <2>1. \A x \in OnTheirWay' : \/ \E y \in OnTheirWay : y.host = x.host
                               \/ playerList'[x.host] # NoPlayer
    BY <1>a
  <2>2. \A h \in Hosts : playerList[h] # NoPlayer => playerList'[h] # NoPlayer
    BY <1>a
  <2>3. \A h \in Hosts : playerList'[h] # NoPlayer => playerList[h] # NoPlayer \/ host[h] # "none"
    BY <1>a
  <2>4. host' = host
    BY <1>a
  <2> HIDE DEF Listed
  <2>5. QED
    BY <1>6, <1>a, <2>1, <2>2, <2>3, <2>4
<1>7. ASSUME Quiet /\ ~ \E h \in Hosts : OnConnect(h) \/ OnReceive(h) \/ OnClose(h) PROVE Grows /\ Listed
  <2>1. UNCHANGED <<playerList, dbQueue, dbWork, innerQueue, innerWork>> /\ OnTheirWay' = OnTheirWay
    BY <1>7, QuietKeeps DEF OnTheirWay
  <2>2. /\ UNCHANGED host
        /\ (Elems(outerQueue) \cup Elems(outerWork))' \subseteq Elems(outerQueue) \cup Elems(outerWork)
        /\ usingHosts \subseteq usingHosts'
        /\ \A h \in closing' : h \in closing \/ host[h] # "none"
        /\ \A h \in Hosts : kickList'[h] # NotListed => kickList[h] # NotListed
    <3>1. CASE \E h \in Hosts : \/ OnHostConnect(h) \/ OnHostClose(h) \/ DropUnregistered(h)
                                \/ OnDeserializeFail(h)
      <4>1. PICK h \in Hosts : \/ OnHostConnect(h) \/ OnHostClose(h) \/ DropUnregistered(h)
                               \/ OnDeserializeFail(h)
        BY <3>1
      <4>2. PICK k : TakeOuter(k, h)
        BY <4>1 DEF OnHostConnect, OnHostClose, DropUnregistered, OnDeserializeFail
      <4>3. /\ Elems(outerWork') \subseteq Elems(outerWork)
            /\ UNCHANGED <<outerQueue, host>>
            /\ host[h] # "none"
        BY <4>2, OuterEffect DEF HostsHaveCome
      <4>4. /\ kickList' = kickList /\ usingHosts \subseteq usingHosts'
            /\ closing' \subseteq closing \cup {h}
        BY <4>1 DEF OnHostConnect, OnHostClose, DropUnregistered, OnDeserializeFail
      <4>5. QED
        BY <4>3, <4>4
    <3>2. CASE Tick
      BY <3>2 DEF Tick, TypeOK, NotListed, netVars, queueVars
    <3>3. CASE SwapOuter
      BY <3>3, ElemsOfEmpty DEF SwapOuter, netVars, kickVars
    <3>4. CASE LoseSession \/ UNCHANGED vars \/ \E h \in Hosts : CloseUnknownHost(h)
      BY <3>4 DEF LoseSession, CloseUnknownHost, vars, netVars, queueVars, kickVars
    <3>5. QED
      BY <1>7, <3>1, <3>2, <3>3, <3>4 DEF Quiet
  <2>3. \A x \in OnTheirWay' : \E y \in OnTheirWay : y.host = x.host
    BY <2>1
  <2> HIDE DEF Listed
  <2>4. QED
    BY <1>a, <2>1, <2>2, <2>3
<1>8. ASSUME UpdateTimer PROVE Grows /\ Listed
  <2>1. /\ innerWork' = innerQueue /\ innerQueue' = <<>>
        /\ UNCHANGED <<host, outerQueue, outerWork, playerList, usingHosts, dbQueue, dbWork>>
    BY <1>8 DEF UpdateTimer, dbVars
  <2>2. OnTheirWay' \subseteq OnTheirWay
    BY <2>1, ElemsOfEmpty DEF OnTheirWay
  <2>3. /\ \A h \in Hosts : kickList'[h] # NotListed => kickList[h] # NotListed
        /\ \A h \in closing' : h \in closing \/ host[h] # "none"
    <3>1. CASE timerDue
      BY <1>8, <3>1 DEF UpdateTimer, KickProcess, TypeOK, HostsHaveCome, NotListed
    <3>2. CASE ~ timerDue
      BY <1>8, <3>2 DEF UpdateTimer
    <3>3. QED
      BY <3>1, <3>2
  <2>4. \A x \in OnTheirWay' : \E y \in OnTheirWay : y.host = x.host
    BY <2>2
  <2>5. (Elems(outerQueue) \cup Elems(outerWork))' = Elems(outerQueue) \cup Elems(outerWork)
    BY <2>1
  <2> HIDE DEF Listed
  <2>6. QED
    BY <1>a, <2>1, <2>3, <2>4, <2>5
\* The handlers of requests
<1>9. ASSUME NEW h \in Hosts, NEW k, TakeOuter(k, h)
      PROVE  /\ UNCHANGED <<host, innerQueue, innerWork>>
             /\ (Elems(outerQueue) \cup Elems(outerWork))' \subseteq Elems(outerQueue) \cup Elems(outerWork)
             /\ host[h] # "none"
  BY <1>9, OuterEffect DEF HostsHaveCome
<1>10. ASSUME NEW h \in Hosts, RefuseSecond(h) PROVE Grows /\ Listed
  <2>1. PICK k : TakeOuter(k, h)
    BY <1>10 DEF RefuseSecond
  <2>2. UNCHANGED <<usingHosts, closing, dbQueue, dbWork, playerList>>
    BY <1>10 DEF RefuseSecond, dbVars
  <2>3. OnTheirWay' = OnTheirWay
    BY <1>9, <2>1, <2>2 DEF OnTheirWay
  <2>4. \A g \in Hosts : kickList'[g] # NotListed => kickList[g] # NotListed \/ host[g] # "none"
    BY <1>9, <1>10, <2>1, KickEffect DEF RefuseSecond
  <2>5. QED
    BY <1>6, <1>9, <2>1, <2>2, <2>3, <2>4
<1>11. ASSUME NEW h \in Hosts, IgnoreClient(h) \/ RefuseKey(h) \/ AskPlatform(h)
       PROVE  Grows /\ Listed
  <2>1. PICK k : TakeOuter(k, h)
    BY <1>11, NoLookUp
  <2>2. /\ UNCHANGED <<usingHosts, closing, dbQueue, dbWork>>
        /\ \A g \in Hosts : g # h => playerList'[g] = playerList[g]
        /\ playerList'[h] # NoPlayer
        /\ kickList' = kickList \/ AddKickReserve(h)
    BY <1>11, NoLookUp
  <2>3. OnTheirWay' = OnTheirWay
    BY <1>9, <2>1, <2>2 DEF OnTheirWay
  <2>4. \A g \in Hosts : kickList'[g] # NotListed => kickList[g] # NotListed \/ host[g] # "none"
    BY <1>9, <2>1, <2>2, KickEffect
  <2>5. QED
    BY <1>6, <1>9, <2>1, <2>2, <2>3, <2>4
<1>12. ASSUME NEW h \in Hosts, AskDB(h) PROVE Grows /\ Listed
  <2>1. PICK x \in Requests : x.host = h /\ dbQueue' = Append(dbQueue, x)
    BY <1>12, LookUp
  <2>2. /\ TakeOuter("guest", h)
        /\ UNCHANGED <<usingHosts, closing, kickList, dbWork>>
        /\ \A g \in Hosts : g # h => playerList'[g] = playerList[g]
        /\ playerList'[h] # NoPlayer
    BY <1>12, LookUp
  <2>3. Elems(dbQueue') = Elems(dbQueue) \cup {x}
    BY <2>1, ElemsOfAppend DEF TypeOK
  <2>4. OnTheirWay' = OnTheirWay \cup {x}
    BY <1>9, <2>2, <2>3 DEF OnTheirWay
  <2>5. QED
    BY <1>6, <1>9, <2>1, <2>2, <2>4
\* The answer of the DB
<1>13. ASSUME NEW h \in Hosts, RefuseBlocked(h) \/ Accept(h) PROVE Grows /\ Listed
  <2>1. TakeInner(h)
    BY <1>13 DEF RefuseBlocked, Accept
  <2>2. /\ Head(innerWork) \in Elems(innerWork) /\ Head(innerWork).host = h
        /\ Elems(innerWork') \subseteq Elems(innerWork)
        /\ UNCHANGED <<host, closing, outerQueue, outerWork, innerQueue, dbQueue, dbWork, playerList,
                       usingHosts>>
    BY <2>1, InnerEffect
  <2>3. OnTheirWay' \subseteq OnTheirWay
    BY <2>2 DEF OnTheirWay
  <2>4. host[h] # "none"
    BY <2>2 DEF HostsHaveCome, OnTheirWay
  <2>5. \A g \in Hosts : kickList'[g] # NotListed => kickList[g] # NotListed \/ host[g] # "none"
    BY <1>13, <2>4, KickEffect DEF RefuseBlocked, Accept
  <2>6. QED
    BY <1>6, <2>2, <2>3, <2>5
\* The DB thread
<1>14. ASSUME TakeDBWork PROVE Grows /\ Listed
  <2>1. OnTheirWay' \subseteq OnTheirWay
    BY <1>14, ElemsOfEmpty DEF TakeDBWork, OnTheirWay, queueVars
  <2>2. UNCHANGED <<host, closing, outerQueue, outerWork, kickList, playerList, usingHosts>>
    BY <1>14 DEF TakeDBWork, netVars, queueVars, kickVars
  <2>3. \A x \in OnTheirWay' : \E y \in OnTheirWay : y.host = x.host
    BY <2>1
  <2>4. (Elems(outerQueue) \cup Elems(outerWork))' = Elems(outerQueue) \cup Elems(outerWork)
    BY <2>2
  <2> HIDE DEF Listed
  <2>5. QED
    BY <1>a, <2>2, <2>3, <2>4
<1>15. ASSUME DropRequest \/ FailRequest \/ RunProcedure PROVE Grows /\ Listed
  <2>1. TakeRequest /\ (UNCHANGED innerQueue \/ \E x \in Results :
                 x.host = Head(dbWork).host /\ innerQueue' = Append(innerQueue, x))
    BY <1>15, DBReplies
  <2>2. /\ Head(dbWork) \in Elems(dbWork) /\ Elems(dbWork') \subseteq Elems(dbWork)
        /\ UNCHANGED <<host, closing, outerQueue, outerWork, innerWork, kickList, dbQueue, playerList,
                       usingHosts>>
    BY <2>1, RequestEffect
  <2>3. \A x \in OnTheirWay' : \E y \in OnTheirWay : y.host = x.host
    <3>1. CASE UNCHANGED innerQueue
      BY <2>2, <3>1 DEF OnTheirWay
    <3>2. CASE \E x \in Results : x.host = Head(dbWork).host /\ innerQueue' = Append(innerQueue, x)
      <4>1. PICK x \in Results : x.host = Head(dbWork).host /\ innerQueue' = Append(innerQueue, x)
        BY <3>2
      <4>2. Elems(innerQueue') = Elems(innerQueue) \cup {x}
        BY <4>1, ElemsOfAppend DEF TypeOK
      <4>3. QED
        BY <2>2, <4>1, <4>2 DEF OnTheirWay
    <3>3. QED
      BY <2>1, <3>1, <3>2
  <2>4. (Elems(outerQueue) \cup Elems(outerWork))' = Elems(outerQueue) \cup Elems(outerWork)
    BY <2>2
  <2> HIDE DEF Listed
  <2>5. QED
    BY <1>a, <2>2, <2>3, <2>4
<1>16. Grows /\ Listed
  <2> HIDE DEF Listed
  <2>1. CASE Quiet
    BY <1>3, <1>4, <1>5, <1>7, <2>1
  <2>2. QED
    BY <1>8, <1>10, <1>11, <1>12, <1>13, <1>14, <1>15, <2>1, NextCases
<1>17. QED
  BY <1>1, <1>16, GrowsSuffices

-----------------------------------------------------------------------------
(* A kick is announced. *)

LEMMA ErrorIsSent ==
    ASSUME NEW h
    PROVE  /\ (\E k \in 1 .. Len(sent[h]) : sent[h][k] = Error) <=> Error \in Elems(sent[h])
           /\ (\E k \in 1 .. Len(sent'[h]) : sent'[h][k] = Error) <=> Error \in Elems(sent'[h])
BY DEF Elems

LEMMA SendElems ==
    ASSUME TypeOK, NEW h \in Hosts, NEW m \in Messages, SendPacket(h, m)
    PROVE  /\ \A g \in Hosts : g # h => sent'[g] = sent[g]
           /\ Elems(sent'[h]) = IF playerList'[h] # NoPlayer /\ host[h] = "open"
                                THEN Elems(sent[h]) \cup {m} ELSE Elems(sent[h])
<1>1. sent[h] \in Seq(Messages)
  BY SendEffect
<1>2. Elems(Append(sent[h], m)) = Elems(sent[h]) \cup {m}
  BY <1>1, ElemsOfAppend
<1>3. /\ \A g \in Hosts : g # h => sent'[g] = sent[g]
      /\ sent'[h] = IF playerList'[h] # NoPlayer /\ host[h] = "open"
                    THEN Append(sent[h], m) ELSE sent[h]
  BY SendEffect
<1>4. QED
  BY <1>2, <1>3

LEMMA SendErrorElems ==
    ASSUME TypeOK, NEW h \in Hosts, SendPacket(h, Error)
    PROVE  /\ \A g \in Hosts : g # h => sent'[g] = sent[g]
           /\ playerList'[h] # NoPlayer /\ host[h] = "open" =>
                Elems(sent'[h]) = Elems(sent[h]) \cup {Error}
           /\ Elems(sent'[h]) \subseteq Elems(sent[h]) \cup {Error}
<1>1. Error \in Messages
  BY MessagesAre
<1> DEFINE e == Error
<1>2. e \in Messages /\ SendPacket(h, e)
  BY <1>1
<1> HIDE DEF e
<1>3. /\ \A g \in Hosts : g # h => sent'[g] = sent[g]
      /\ Elems(sent'[h]) = IF playerList'[h] # NoPlayer /\ host[h] = "open"
                           THEN Elems(sent[h]) \cup {e} ELSE Elems(sent[h])
  BY <1>2, SendElems
<1>4. e = Error
  BY DEF e
<1>5. QED
  BY <1>3, <1>4

\* What the step of a service thread leaves alone
LEMMA HandlersKeepHosts ==
    ASSUME TypeOK, NEW h \in Hosts
    PROVE  /\ \A k : TakeOuter(k, h) => host' = host
           /\ TakeInner(h) => host' = host
           /\ RefuseSecond(h) => host' = host /\ closing' = closing
           /\ IgnoreClient(h) \/ RefuseKey(h) \/ AskPlatform(h) => host' = host /\ closing' = closing
           /\ AskDB(h) => host' = host /\ closing' = closing
           /\ RefuseBlocked(h) \/ Accept(h) => host' = host /\ closing' = closing /\ playerList' = playerList
<1>1. \A k : TakeOuter(k, h) => host' = host
  BY OuterEffect
<1>2. TakeInner(h) => host' = host /\ closing' = closing /\ playerList' = playerList
  BY InnerEffect
<1>3. IgnoreClient(h) \/ RefuseKey(h) \/ AskPlatform(h) => host' = host /\ closing' = closing
  BY <1>1, NoLookUp
<1>4. AskDB(h) => host' = host /\ closing' = closing
  BY <1>1, LookUp
<1>5. QED
  BY <1>1, <1>2, <1>3, <1>4 DEF RefuseSecond, RefuseBlocked, Accept

LEMMA DBKeeps ==
    ASSUME TypeOK, TakeDBWork \/ DropRequest \/ FailRequest \/ RunProcedure
    PROVE  UNCHANGED <<host, closing, kickList, playerList, sent, usingHosts>>
BY RequestEffect DEF TakeDBWork, DropRequest, FailRequest, RunProcedure, netVars, kickVars

\* Quiet steps list no host, and open none that is listed.
LEMMA QuietHosts ==
    ASSUME TypeOK, Quiet
    PROVE  \A g \in Hosts : /\ kickList'[g] # NotListed <=> kickList[g] # NotListed
                            /\ host'[g] = "open" /\ host[g] # "open" => host[g] = "none"
<1>1. CASE Tick
  BY <1>1 DEF Tick, TypeOK, NotListed, netVars
<1>2. ASSUME NEW h \in Hosts,
             OnHostConnect(h) \/ OnHostClose(h) \/ DropUnregistered(h) \/ OnDeserializeFail(h)
      PROVE  host' = host /\ kickList' = kickList
  BY <1>2, HandlersKeepHosts DEF OnHostConnect, OnHostClose, DropUnregistered, OnDeserializeFail
<1>3. ASSUME NEW h \in Hosts, OnConnect(h) \/ OnReceive(h) \/ OnClose(h) \/ CloseUnknownHost(h)
      PROVE  /\ kickList' = kickList
             /\ \A g \in Hosts : host'[g] = "open" /\ host[g] # "open" => host[g] = "none"
  BY <1>3 DEF OnConnect, OnReceive, OnClose, CloseUnknownHost, kickVars, TypeOK
<1>4. CASE SwapOuter \/ LoseSession \/ UNCHANGED vars
  BY <1>4 DEF SwapOuter, LoseSession, vars, netVars, kickVars
<1>5. QED
  BY <1>1, <1>2, <1>3, <1>4 DEF Quiet

LEMMA NextKickCanClose ==
    ASSUME TypeOK, HostsHaveCome, KickCanClose, [Next]_vars
    PROVE  KickCanClose'
<1> SUFFICES ASSUME NEW g \in Hosts, kickList'[g] # NotListed, host'[g] = "open"
             PROVE  g \in usingHosts' /\ Error \in Elems(sent'[g])
  BY ErrorIsSent DEF KickCanClose
<1>1. g \in usingHosts'
  BY NextHostsHaveCome DEF HostsHaveCome
<1>2. kickList[g] # NotListed /\ host[g] = "open" => Error \in Elems(sent[g])
  BY ErrorIsSent DEF KickCanClose
<1>3. ASSUME NEW h \in Hosts, host' = host, SendPacket(h, Error), AddKickReserve(h), playerList'[h] # NoPlayer
      PROVE  Error \in Elems(sent'[g])
  <2>1. CASE g = h
    BY <1>3, <2>1, SendErrorElems
  <2>2. CASE g # h
    <3>1. sent'[g] = sent[g] /\ kickList'[g] = kickList[g]
      BY <1>3, <2>2, SendErrorElems, KickEffect
    <3>2. QED
      BY <1>2, <1>3, <3>1
  <2>3. QED
    BY <2>1, <2>2
<1>4. ASSUME Quiet PROVE Error \in Elems(sent'[g])
  <2>1. sent' = sent
    BY <1>4, QuietKeeps
  <2>2. kickList[g] # NotListed /\ (host[g] # "open" => host[g] = "none")
    BY <1>4, QuietHosts
  <2>3. host[g] # "none"
    BY <2>2 DEF HostsHaveCome
  <2>4. QED
    BY <1>2, <2>1, <2>2, <2>3
<1>5. ASSUME UpdateTimer PROVE Error \in Elems(sent'[g])
  <2>1. kickList[g] # NotListed /\ host' = host /\ sent' = sent
    BY <1>5 DEF UpdateTimer, KickProcess, TypeOK
  <2>2. QED
    BY <1>2, <2>1
<1>6. ASSUME NEW h \in Hosts, RefuseSecond(h) PROVE Error \in Elems(sent'[g])
  <2>1. host' = host /\ playerList'[h] # NoPlayer
    BY <1>6, HandlersKeepHosts DEF RefuseSecond, IsNewPlayer
  <2>2. QED
    BY <1>3, <1>6, <2>1 DEF RefuseSecond
<1>7. ASSUME NEW h \in Hosts, IgnoreClient(h) \/ RefuseKey(h) \/ AskPlatform(h)
      PROVE  Error \in Elems(sent'[g])
  <2>1. host' = host /\ playerList'[h] # NoPlayer
    BY <1>7, HandlersKeepHosts, NoLookUp
  <2>2. CASE UNCHANGED <<kickList, sent>>
    BY <1>2, <2>1, <2>2
  <2>3. CASE SendPacket(h, Error) /\ AddKickReserve(h)
    BY <1>3, <2>1, <2>3
  <2>4. QED
    BY <1>7, <2>2, <2>3, NoLookUp
<1>8. ASSUME NEW h \in Hosts, AskDB(h) PROVE Error \in Elems(sent'[g])
  BY <1>2, <1>8, HandlersKeepHosts, LookUp
<1>9. ASSUME NEW h \in Hosts, RefuseBlocked(h) PROVE Error \in Elems(sent'[g])
  <2>1. /\ Head(innerWork) \in Elems(innerWork) /\ Head(innerWork).host = h
        /\ host' = host /\ playerList' = playerList
    BY <1>9, InnerEffect DEF RefuseBlocked
  <2>2. playerList[h] # NoPlayer
    BY <2>1 DEF HostsHaveCome, OnTheirWay
  <2>3. QED
    BY <1>3, <1>9, <2>1, <2>2 DEF RefuseBlocked
<1>10. ASSUME NEW h \in Hosts, Accept(h) PROVE Error \in Elems(sent'[g])
  <2>1. host' = host /\ kickList' = kickList
    BY <1>10, HandlersKeepHosts DEF Accept
  <2>2. Head(innerWork).account \in Accounts \cup {NoAccount}
    BY <1>10, InnerEffect DEF Accept, Results
  <2>3. Elems(sent[g]) \subseteq Elems(sent'[g])
    <3> DEFINE m == AuthRes(Head(innerWork).account)
    <3>1. m \in Messages /\ SendPacket(h, m)
      BY <1>10, <2>2, MessagesAre DEF Accept
    <3> HIDE DEF m
    <3>2. CASE g = h
      BY <3>1, <3>2, SendElems
    <3>3. CASE g # h
      <4>1. sent'[g] = sent[g]
        BY <3>1, <3>3, SendElems
      <4>2. QED
        BY <4>1
    <3>4. QED
      BY <3>2, <3>3
  <2>4. QED
    BY <1>2, <2>1, <2>3
<1>11. ASSUME TakeDBWork \/ DropRequest \/ FailRequest \/ RunProcedure
       PROVE  Error \in Elems(sent'[g])
  BY <1>2, <1>11, DBKeeps
<1>12. QED
  BY <1>1, <1>4, <1>5, <1>6, <1>7, <1>8, <1>9, <1>10, <1>11, NextCases

-----------------------------------------------------------------------------
(* The table knows the account that an answer names. *)

AnswersAreRecorded ==
    \A h \in Hosts : \A m \in Elems(sent[h]) :
        m.msg = "LC_AuthRes" /\ m.account # NoAccount => IsRecorded(m.account)

LEMMA AnswersAre ==
    /\ AnswerIsRecorded <=> AnswersAreRecorded
    /\ AnswerIsRecorded' <=> AnswersAreRecorded'
BY DEF AnswerIsRecorded, AnswersAreRecorded, Answers, Elems, IsRecorded

\* Only the procedure writes to the table.
LEMMA RowKeeps ==
    ASSUME TypeOK, [Next]_vars
    PROVE  row' = row \/ RunProcedure
<1>1. ASSUME NEW h \in Hosts,
             RefuseSecond(h) \/ IgnoreClient(h) \/ RefuseKey(h) \/ AskPlatform(h) \/ AskDB(h)
      PROVE  row' = row
  BY <1>1, NoLookUp, LookUp DEF RefuseSecond, dbVars
<1>2. ASSUME NEW h \in Hosts, RefuseBlocked(h) \/ Accept(h) PROVE row' = row
  BY <1>2, InnerEffect DEF RefuseBlocked, Accept
<1>3. CASE UpdateTimer
  BY <1>3 DEF UpdateTimer, dbVars
<1>4. CASE TakeDBWork \/ DropRequest \/ FailRequest
  BY <1>4 DEF TakeDBWork, DropRequest, FailRequest
<1>5. QED
  BY <1>1, <1>2, <1>3, <1>4, NextCases, QuietKeeps

LEMMA RunProcedureEffect ==
    ASSUME TypeOK, RunProcedure
    PROVE  /\ \E x \in Results : /\ innerQueue' = Append(innerQueue, x)
                                 /\ Blocked(x.result) \/ IsRecorded(x.account)'
           /\ \A a \in Accounts : IsRecorded(a) => IsRecorded(a)'
<1>0. Head(dbWork) \in Requests /\ Head(dbWork).account \in Accounts
  BY RequestEffect DEF RunProcedure, Requests
<1>a. PICK a \in Accounts : a = Head(dbWork).account
  BY <1>0
<1>1. Head(dbWork) \in Requests /\ a \in Accounts /\ row[a] \in {NoRow} \cup Rows
  BY <1>0 DEF TypeOK
<1>2. /\ row' = [row EXCEPT ![a] = TakenRow(row[a])]
      /\ Reply(ResultOf(row[a]), a)
  BY <1>a DEF RunProcedure
<1>3. PICK x \in Results : /\ x.result = ResultOf(row[a]) /\ x.account = a
                           /\ innerQueue' = Append(innerQueue, x)
  BY <1>1, <1>2, ProcedureEffect, ReplyEffect
<1>4. row'[a] = TakenRow(row[a])
  BY <1>1, <1>2 DEF TypeOK
<1>5. Blocked(x.result) \/ IsRecorded(a)'
  BY <1>1, <1>3, <1>4, ProcedureEffect DEF IsRecorded
<1>6. \A b \in Accounts : IsRecorded(b) => IsRecorded(b)'
  <2> SUFFICES ASSUME NEW b \in Accounts, IsRecorded(b) PROVE IsRecorded(b)'
    OBVIOUS
  <2>1. CASE b = a
    BY <1>1, <1>4, <2>1, ProcedureEffect DEF IsRecorded
  <2>2. CASE b # a
    BY <1>2, <2>2 DEF IsRecorded, TypeOK
  <2>3. QED
    BY <2>1, <2>2
<1>7. QED
  BY <1>3, <1>5, <1>6

LEMMA RecordsStay ==
    ASSUME TypeOK, [Next]_vars, NEW a \in Accounts, IsRecorded(a)
    PROVE  IsRecorded(a)'
<1>1. CASE row' = row
  BY <1>1 DEF IsRecorded
<1>2. CASE RunProcedure
  BY <1>2, RunProcedureEffect
<1>3. QED
  BY <1>1, <1>2, RowKeeps

LEMMA NextResultsAreRecorded ==
    ASSUME TypeOK, ResultsAreRecorded, [Next]_vars
    PROVE  ResultsAreRecorded'
<1> DEFINE R == Elems(innerQueue) \cup Elems(innerWork)
<1>1. R \subseteq Results
  BY ElemsInSet DEF TypeOK
<1>2. ASSUME NEW x \in R, x.account # NoAccount, ~ Blocked(x.result) PROVE IsRecorded(x.account)'
  BY <1>1, <1>2, RecordsStay DEF ResultsAreRecorded, Results
<1>3. ASSUME \A x \in R' : x \in R \/ x.account = NoAccount \/ Blocked(x.result) \/ IsRecorded(x.account)'
      PROVE  ResultsAreRecorded'
  BY <1>2, <1>3 DEF ResultsAreRecorded
<1>4. ASSUME R' \subseteq R PROVE ResultsAreRecorded'
  BY <1>3, <1>4
<1>5. CASE Quiet
  BY <1>4, <1>5, QuietKeeps
<1>6. CASE UpdateTimer
  BY <1>4, <1>6, ElemsOfEmpty DEF UpdateTimer
<1>7. ASSUME NEW h \in Hosts,
             RefuseSecond(h) \/ IgnoreClient(h) \/ RefuseKey(h) \/ AskPlatform(h) \/ AskDB(h)
      PROVE  ResultsAreRecorded'
  <2>1. PICK k : TakeOuter(k, h)
    BY <1>7, NoLookUp, LookUp DEF RefuseSecond
  <2>2. QED
    BY <1>4, <2>1, OuterEffect
<1>8. ASSUME NEW h \in Hosts, RefuseBlocked(h) \/ Accept(h) PROVE ResultsAreRecorded'
  BY <1>4, <1>8, InnerEffect DEF RefuseBlocked, Accept
<1>9. CASE TakeDBWork
  BY <1>4, <1>9 DEF TakeDBWork, queueVars
<1>10. CASE DropRequest
  BY <1>4, <1>10, RequestEffect DEF DropRequest
<1>11. CASE FailRequest \/ RunProcedure
  <2>1. TakeRequest /\ innerWork' = innerWork /\ Head(dbWork) \in Requests
    BY <1>11, RequestEffect DEF FailRequest, RunProcedure
  <2>2. PICK x \in Results : /\ innerQueue' = Append(innerQueue, x)
                             /\ x.account = NoAccount \/ Blocked(x.result) \/ IsRecorded(x.account)'
    <3>1. CASE FailRequest
      BY <2>1, <3>1, ReplyEffect DEF FailRequest
    <3>2. CASE RunProcedure
      BY <3>2, RunProcedureEffect
    <3>3. QED
      BY <1>11, <3>1, <3>2
  <2>3. Elems(innerQueue') = Elems(innerQueue) \cup {x}
    BY <2>2, ElemsOfAppend DEF TypeOK
  <2>4. R' = R \cup {x}
    BY <2>1, <2>3
  <2>5. QED
    BY <1>3, <2>2, <2>4
<1>12. QED
  BY <1>5, <1>6, <1>7, <1>8, <1>9, <1>10, <1>11, NextCases

LEMMA NextAnswerIsRecorded ==
    ASSUME TypeOK, ResultsAreRecorded, AnswerIsRecorded, [Next]_vars
    PROVE  AnswerIsRecorded'
<1> SUFFICES ASSUME NEW g \in Hosts, NEW m \in Elems(sent'[g]),
                    m.msg = "LC_AuthRes", m.account # NoAccount
             PROVE  IsRecorded(m.account)'
  BY AnswersAre DEF AnswersAreRecorded
<1>1. ASSUME m \in Elems(sent[g]) PROVE IsRecorded(m.account)'
  <2>1. m \in Messages
    BY <1>1, ElemsInSet DEF TypeOK
  <2>2. m.account \in Accounts
    BY <2>1 DEF Messages, Error, AuthRes
  <2>3. IsRecorded(m.account)
    BY <1>1, AnswersAre DEF AnswersAreRecorded
  <2>4. QED
    BY <2>2, <2>3, RecordsStay
<1>2. ASSUME NEW h \in Hosts, SendPacket(h, Error) PROVE m \in Elems(sent[g])
  <2>1. m # Error
    BY MessagesAre
  <2>2. CASE g = h
    BY <1>2, <2>1, <2>2, SendErrorElems
  <2>3. CASE g # h
    <3>1. sent'[g] = sent[g]
      BY <1>2, <2>3, SendErrorElems
    <3>2. QED
      BY <3>1
  <2>4. QED
    BY <2>2, <2>3
<1>3. CASE Quiet
  BY <1>1, <1>3, QuietKeeps
<1>4. CASE UpdateTimer
  BY <1>1, <1>4 DEF UpdateTimer
<1>5. ASSUME NEW h \in Hosts, RefuseSecond(h) \/ RefuseBlocked(h) PROVE IsRecorded(m.account)'
  BY <1>1, <1>2, <1>5 DEF RefuseSecond, RefuseBlocked
<1>6. ASSUME NEW h \in Hosts, IgnoreClient(h) \/ RefuseKey(h) \/ AskPlatform(h) \/ AskDB(h)
      PROVE  IsRecorded(m.account)'
  <2>1. sent' = sent \/ SendPacket(h, Error)
    BY <1>6, NoLookUp, LookUp
  <2>2. QED
    BY <1>1, <1>2, <2>1
<1>7. ASSUME NEW h \in Hosts, Accept(h) PROVE IsRecorded(m.account)'
  <2> DEFINE x == Head(innerWork)
  <2>1. x \in Results /\ x \in Elems(innerWork) /\ row' = row
    BY <1>7, InnerEffect DEF Accept
  <2>2. AuthRes(x.account) \in Messages
    BY <2>1, MessagesAre DEF Results
  <2>3. m \in Elems(sent[g]) \/ m = AuthRes(x.account)
    BY <1>7, <2>2, SendElems DEF Accept
  <2>4. CASE m = AuthRes(x.account)
    <3>1. m.account = x.account
      BY <2>4 DEF AuthRes
    <3>2. IsRecorded(x.account)
      BY <1>7, <2>1, <3>1 DEF Accept, ResultsAreRecorded
    <3>3. QED
      BY <2>1, <3>1, <3>2 DEF IsRecorded
  <2>5. QED
    BY <1>1, <2>3, <2>4
<1>8. CASE TakeDBWork \/ DropRequest \/ FailRequest \/ RunProcedure
  BY <1>1, <1>8, DBKeeps
<1>9. QED
  BY <1>3, <1>4, <1>5, <1>6, <1>7, <1>8, NextCases

-----------------------------------------------------------------------------
(* The theorems *)

LEMMA InitLoginInv == ASSUME Init PROVE LoginInv
<1>1. Elems(<<>>) = {} /\ \A h : Of(h, <<>>) = {}
  BY ElemsOfEmpty DEF Of
<1>2. InnerFirst /\ HostsHaveCome /\ ResultsAreRecorded /\ KickCanClose
  BY <1>1 DEF Init, InnerFirst, HostsHaveCome, OnTheirWay, ResultsAreRecorded, KickCanClose
<1>3. \A h \in Hosts : Answers(h) = {}
  BY DEF Init, Answers
<1>4. LookedUpOnce
  <2>1. \A h \in Hosts : /\ Cardinality(Of(h, dbQueue)) = 0 /\ Cardinality(Of(h, dbWork)) = 0
                        /\ Cardinality(Of(h, innerQueue)) = 0 /\ Cardinality(Of(h, innerWork)) = 0
                        /\ Cardinality(Answers(h)) = 0
    BY <1>1, <1>3, FS_EmptySet DEF Init
  <2>2. QED
    BY <2>1 DEF LookedUpOnce, InFlight
<1>5. AnswerIsRecorded
  BY <1>3 DEF AnswerIsRecorded
<1>6. QED
  BY <1>2, <1>4, <1>5, InitTypes DEF LoginInv

LEMMA NextLoginInv == ASSUME LoginInv, [Next]_vars PROVE LoginInv'
BY NextTypes, NextInnerFirst, NextHostsHaveCome, NextLookedUpOnce, NextKickCanClose,
   NextResultsAreRecorded, NextAnswerIsRecorded DEF LoginInv

\* The inductive invariant of the login server.
THEOREM LoginInvariant == Spec => []LoginInv
<1>1. Init => LoginInv
  BY InitLoginInv
<1>2. LoginInv /\ [Next]_vars => LoginInv'
  BY NextLoginInv
<1>3. QED
  BY <1>1, <1>2, PTL DEF Spec

\* Every variable stays within its type.
THEOREM LoginTypes == Spec => []TypeOK
BY LoginInvariant, PTL DEF LoginInv

\* A client is looked up and answered once.
THEOREM LoginLooksUpOnce == Spec => []LookedUpOnce
BY LoginInvariant, PTL DEF LoginInv

\* A host that is due to be kicked knows why, and will be found.
THEOREM LoginKickCanClose == Spec => []KickCanClose
BY LoginInvariant, PTL DEF LoginInv

\* The table has the account that an answer names.
THEOREM LoginAnswerIsRecorded == Spec => []AnswerIsRecorded
BY LoginInvariant, PTL DEF LoginInv

-----------------------------------------------------------------------------
(* A kick is not put off. *)

LEMMA KicksComeCloser ==
    ASSUME TypeOK, [Next]_vars, NEW g \in Hosts, kickList[g] # NotListed
    PROVE  kickList'[g] <= kickList[g]
<1>1. kickList[g] \in Int
  BY DEF TypeOK, NotListed
<1>2. ASSUME kickList'[g] = kickList[g] PROVE kickList'[g] <= kickList[g]
  BY <1>1, <1>2
<1>3. CASE Tick
  BY <1>3 DEF Tick, TypeOK, NotListed
<1>4. CASE UpdateTimer
  <2>1. kickList[g] \in 0 .. KickDelay
    BY DEF TypeOK
  <2>2. kickList'[g] = kickList[g] \/ kickList'[g] = NotListed
    <3>1. CASE timerDue
      BY <1>4, <3>1 DEF UpdateTimer, KickProcess
    <3>2. CASE ~ timerDue
      BY <1>4, <3>2 DEF UpdateTimer
    <3>3. QED
      BY <3>1, <3>2
  <2>3. QED
    BY <2>1, <2>2 DEF NotListed
<1>5. ASSUME NEW h \in Hosts, AddKickReserve(h) PROVE kickList'[g] = kickList[g]
  BY <1>5, KickEffect
<1>6. ASSUME Quiet PROVE Tick \/ kickList' = kickList
  BY <1>6 DEF Quiet, OnConnect, OnReceive, OnClose, CloseUnknownHost, OnHostConnect, OnHostClose,
     DropUnregistered, OnDeserializeFail, SwapOuter, LoseSession, kickVars, vars
<1>7. ASSUME NEW h \in Hosts,
             RefuseSecond(h) \/ IgnoreClient(h) \/ RefuseKey(h) \/ AskPlatform(h) \/ AskDB(h)
                \/ RefuseBlocked(h) \/ Accept(h)
      PROVE  kickList' = kickList \/ AddKickReserve(h)
  BY <1>7, NoLookUp, LookUp DEF RefuseSecond, RefuseBlocked, Accept
<1>8. CASE TakeDBWork \/ DropRequest \/ FailRequest \/ RunProcedure
  BY <1>2, <1>8, DBKeeps
<1>9. QED
  BY <1>2, <1>3, <1>4, <1>5, <1>6, <1>7, <1>8, NextCases

\* A client that goes on sending does not put its kick off.
THEOREM LoginKickIsNotPutOff == Spec => KickIsNotPutOff
<1>1. TypeOK /\ [Next]_vars =>
        [\A h \in Hosts : kickList[h] # NotListed => kickList'[h] <= kickList[h]]_kickList
  BY KicksComeCloser
<1>2. QED
  BY <1>1, LoginTypes, PTL DEF Spec, KickIsNotPutOff

-----------------------------------------------------------------------------
(* A request does not vanish between the queues. *)

LEMMA AppendIsLonger ==
    ASSUME NEW S, NEW s \in Seq(S), NEW e \in S PROVE Append(s, e) # s
<1>1. Len(Append(s, e)) = Len(s) + 1 /\ Len(s) \in Nat
  OBVIOUS
<1>2. QED
  BY <1>1

\* The handler of an answer sends something to its host, if that is still open.
LEMMA HandledIsSent ==
    ASSUME TypeOK, HostsHaveCome, NEW h \in Hosts, RefuseBlocked(h) \/ Accept(h)
    PROVE  /\ host[h] # "open" \/ sent'[h] # sent[h]
           /\ \A g \in Hosts : g # h => InFlight(g)' = InFlight(g)
<1>1. /\ TakeInner(h) /\ Head(innerWork).host = h /\ Head(innerWork) \in OnTheirWay
      /\ Head(innerWork).account \in Accounts \cup {NoAccount}
      /\ innerWork' = Tail(innerWork) /\ innerWork # <<>>
      /\ UNCHANGED <<dbQueue, dbWork, innerQueue, playerList>>
  BY InnerEffect DEF RefuseBlocked, Accept, OnTheirWay, Results
<1>2. playerList'[h] # NoPlayer
  BY <1>1 DEF HostsHaveCome
<1>3. PICK m \in Messages : SendPacket(h, m)
  BY <1>1, MessagesAre DEF RefuseBlocked, Accept
<1>4. host[h] # "open" \/ sent'[h] # sent[h]
  <2>1. /\ sent[h] \in Seq(Messages)
        /\ sent'[h] = IF playerList'[h] # NoPlayer /\ host[h] = "open"
                      THEN Append(sent[h], m) ELSE sent[h]
    BY <1>3, SendEffect
  <2>2. Append(sent[h], m) # sent[h]
    BY <2>1, AppendIsLonger
  <2>3. QED
    BY <1>2, <2>1, <2>2
<1>5. ASSUME NEW g \in Hosts, g # h PROVE InFlight(g)' = InFlight(g)
  <2>1. /\ Count(g, innerWork) = Count(g, Tail(innerWork)) + 0
        /\ Count(g, Tail(innerWork)) \in Nat
    BY <1>1, <1>5, CountOfTail, OfIsFinite, QueueOps DEF TypeOK
  <2>2. Count(g, innerWork') = Count(g, innerWork)
    BY <1>1, <2>1
  <2>3. QED
    BY <1>1, <2>2 DEF InFlight, Count
<1>6. QED
  BY <1>4, <1>5

\* The DB thread puts an answer where it takes a request.
LEMMA AnsweredStaysInFlight ==
    ASSUME TypeOK, FailRequest \/ RunProcedure, NEW g \in Hosts
    PROVE  InFlight(g)' = InFlight(g)
<1>1. TakeRequest
  BY DBAnswers
<1>2. PICK x \in Results : x.host = Head(dbWork).host /\ innerQueue' = Append(innerQueue, x)
  BY DBAnswers
<1>3. /\ dbWork' = Tail(dbWork) /\ dbWork # <<>>
      /\ dbWork' \in Seq(Requests)
      /\ UNCHANGED <<innerWork, dbQueue>>
  BY <1>1, RequestEffect
<1> DEFINE one == IF Head(dbWork).host = g THEN 1 ELSE 0
<1>4. Count(g, dbWork) = Count(g, dbWork') + one /\ Count(g, dbWork') \in Nat
  BY <1>3, CountOfTail, OfIsFinite DEF TypeOK
<1>5. Count(g, innerQueue') = Count(g, innerQueue) + one
  BY <1>2, CountOfAppend DEF TypeOK
<1>6. one \in Nat
  OBVIOUS
<1> HIDE DEF one
<1>7. Count(g, dbQueue) \in Nat /\ Count(g, innerQueue) \in Nat /\ Count(g, innerWork) \in Nat
  BY CountsAreNatural
<1>8. Count(g, dbWork') + Count(g, innerQueue') = Count(g, dbWork) + Count(g, innerQueue)
  BY <1>4, <1>5, <1>6, <1>7
<1>9. /\ InFlight(g) = Count(g, dbQueue) + Count(g, dbWork) + Count(g, innerQueue) + Count(g, innerWork)
      /\ InFlight(g)' = Count(g, dbQueue) + Count(g, dbWork') + Count(g, innerQueue') + Count(g, innerWork)
  BY <1>3 DEF InFlight, Count
<1>10. Count(g, innerQueue') \in Nat /\ Count(g, dbWork) \in Nat
  BY <1>4, <1>5, <1>6, <1>7
<1>11. QED
  BY <1>4, <1>7, <1>8, <1>9, <1>10

LEMMA NextKeepsRequests ==
    ASSUME TypeOK, InnerFirst, HostsHaveCome, [Next]_vars, NEW g \in Hosts
    PROVE  \/ InFlight(g)' >= InFlight(g)
           \/ session = "none" \/ host[g] # "open" \/ sent'[g] # sent[g]
<1>1. /\ Count(g, dbQueue) \in Nat /\ Count(g, dbWork) \in Nat
      /\ Count(g, innerQueue) \in Nat /\ Count(g, innerWork) \in Nat
  BY CountsAreNatural
<1>2. InFlight(g) = Count(g, dbQueue) + Count(g, dbWork) + Count(g, innerQueue) + Count(g, innerWork)
  BY DEF InFlight, Count
<1>3. InFlight(g)' = Count(g, dbQueue') + Count(g, dbWork') + Count(g, innerQueue') + Count(g, innerWork')
  BY DEF InFlight, Count
<1>4. InFlight(g) \in Nat
  BY <1>1, <1>2
<1>5. ASSUME UNCHANGED <<dbQueue, dbWork, innerQueue, innerWork>>
      PROVE  InFlight(g)' >= InFlight(g)
  BY <1>2, <1>3, <1>4, <1>5
<1>6. CASE Quiet
  BY <1>5, <1>6, QuietKeeps
<1>7. CASE UpdateTimer
  <2>1. /\ innerWork = <<>> /\ innerWork' = innerQueue /\ innerQueue' = <<>>
        /\ UNCHANGED <<dbQueue, dbWork>>
    BY <1>7 DEF UpdateTimer, InnerFirst, dbVars
  <2>2. InFlight(g)' = InFlight(g)
    BY <1>1, <1>2, <1>3, <2>1, CountOfEmpty
  <2>3. QED
    BY <1>4, <2>2
<1>8. ASSUME NEW h \in Hosts, RefuseSecond(h)
      PROVE  InFlight(g)' >= InFlight(g)
  BY <1>5, <1>8, OuterEffect DEF RefuseSecond, dbVars
<1>9. ASSUME NEW h \in Hosts, IgnoreClient(h) \/ RefuseKey(h) \/ AskPlatform(h)
      PROVE  InFlight(g)' >= InFlight(g)
  BY <1>5, <1>9, NoLookUp, OuterEffect
<1>10. ASSUME NEW h \in Hosts, AskDB(h)
       PROVE  InFlight(g)' >= InFlight(g)
  <2>1. UNCHANGED <<innerQueue, innerWork, dbWork>>
    BY <1>10, OuterEffect, LookUp DEF AskDB
  <2>2. PICK x \in Requests : x.host = h /\ dbQueue' = Append(dbQueue, x)
    BY <1>10, LookUp
  <2>3. Count(g, dbQueue') = Count(g, dbQueue) + (IF x.host = g THEN 1 ELSE 0)
    BY <2>2, CountOfAppend DEF TypeOK
  <2>4. QED
    BY <1>1, <1>2, <1>3, <2>1, <2>3
<1>11. CASE TakeDBWork
  <2>1. /\ dbWork = <<>> /\ dbWork' = dbQueue /\ dbQueue' = <<>>
        /\ UNCHANGED <<innerQueue, innerWork>>
    BY <1>11 DEF TakeDBWork, queueVars
  <2>2. InFlight(g)' = InFlight(g)
    BY <1>1, <1>2, <1>3, <2>1, CountOfEmpty
  <2>3. QED
    BY <1>4, <2>2
<1>12. CASE DropRequest
  BY <1>12 DEF DropRequest
<1>13. CASE FailRequest \/ RunProcedure
  BY <1>4, <1>13, AnsweredStaysInFlight
<1>14. ASSUME NEW h \in Hosts, RefuseBlocked(h) \/ Accept(h)
       PROVE  InFlight(g)' >= InFlight(g) \/ host[g] # "open" \/ sent'[g] # sent[g]
  BY <1>4, <1>14, HandledIsSent
<1>15. QED
  BY <1>6, <1>7, <1>8, <1>9, <1>10, <1>11, <1>12, <1>13, <1>14, NextCases

\* Where a request is taken off the four queues, its client is sent something or has gone,
\* unless there has never been a session.
THEOREM LoginRequestIsNotLost == Spec => RequestIsNotLost
<1>1. LoginInv /\ [Next]_vars =>
        [\A h \in Hosts : InFlight(h)' < InFlight(h) =>
            session = "none" \/ host[h] # "open" \/ sent'[h] # sent[h]]_vars
  <2>1. SUFFICES ASSUME LoginInv, [Next]_vars, NEW h \in Hosts, InFlight(h)' < InFlight(h)
                 PROVE  session = "none" \/ host[h] # "open" \/ sent'[h] # sent[h]
    OBVIOUS
  <2>2. TypeOK /\ TypeOK'
    BY <2>1, NextLoginInv DEF LoginInv
  <2>3. InFlight(h) \in Nat /\ InFlight(h)' \in Nat
    <3>1. InFlight(h) \in Nat
      BY <2>2, CountsAreNatural DEF InFlight, Count
    <3>2. InFlight(h)' \in Nat
      <4>1. /\ dbQueue' \in Seq(Requests) /\ dbWork' \in Seq(Requests)
            /\ innerQueue' \in Seq(Results) /\ innerWork' \in Seq(Results)
        BY <2>2 DEF TypeOK
      <4>2. /\ Count(h, dbQueue') \in Nat /\ Count(h, dbWork') \in Nat
            /\ Count(h, innerQueue') \in Nat /\ Count(h, innerWork') \in Nat
        BY <4>1, OfIsFinite
      <4>3. QED
        BY <4>2 DEF InFlight, Count
    <3>3. QED
      BY <3>1, <3>2
  <2>4. ~(InFlight(h)' >= InFlight(h))
    BY <2>1, <2>3
  <2>5. QED
    BY <2>1, <2>4, NextKeepsRequests DEF LoginInv
<1>2. QED
  BY <1>1, LoginInvariant, PTL DEF Spec, RequestIsNotLost

-----------------------------------------------------------------------------
(* The login server does what LoginSession allows. *)

LEMMA PhaseIs ==
    ASSUME NEW h \in Hosts
    PROVE  /\ host[h] = "none" => phase[h] = "away"
           /\ host[h] = "closed" => phase[h] = "gone"
           /\ host[h] = "open" =>
                phase[h] = IF Answers(h) # {} THEN "answered"
                           ELSE IF IsLookedUp(h) THEN "asking" ELSE "connected"
BY DEF phase, IsLookedUp

LEMMA PhaseIsNext ==
    ASSUME NEW h \in Hosts
    PROVE  /\ host'[h] = "none" => phase'[h] = "away"
           /\ host'[h] = "closed" => phase'[h] = "gone"
           /\ host'[h] = "open" =>
                phase'[h] = IF Answers(h)' # {} THEN "answered"
                            ELSE IF IsLookedUp(h)' THEN "asking" ELSE "connected"
BY DEF phase, IsLookedUp

LEMMA PhaseStays ==
    ASSUME TypeOK, NEW h \in Hosts, host'[h] = host[h], Answers(h)' = Answers(h),
           IsLookedUp(h)' = IsLookedUp(h)
    PROVE  phase'[h] = phase[h]
<1>1. host[h] \in {"none", "open", "closed"}
  BY DEF TypeOK
<1>2. QED
  BY <1>1, PhaseIs, PhaseIsNext

LEMMA PhaseIsFunction ==
    /\ phase = [h \in Hosts |-> phase[h]]
    /\ phase' = [h \in Hosts |-> phase'[h]]
<1>1. phase = [h \in Hosts |-> phase[h]]
  BY DEF phase
<1>2. phase' = [h \in Hosts |-> phase'[h]]
  BY DEF phase
<1>3. QED
  BY <1>1, <1>2

\* A step that changes the phase of one host
LEMMA PhaseMoves ==
    ASSUME NEW g \in Hosts, NEW p, phase'[g] = p, \A h \in Hosts : h # g => phase'[h] = phase[h]
    PROVE  Session!MoveTo(g, p)
<1>1. phase' = [phase EXCEPT ![g] = p]
  BY PhaseIsFunction
<1>2. QED
  BY <1>1 DEF Session!MoveTo

LEMMA PhaseUnchanged ==
    ASSUME \A h \in Hosts : phase'[h] = phase[h]
    PROVE  phase' = phase
BY PhaseIsFunction

\* A host without a player was never answered; one whose result is next was not yet.
LEMMA NotAnswered ==
    ASSUME TypeOK, LookedUpOnce, NEW h \in Hosts
    PROVE  /\ playerList[h] = NoPlayer => Answers(h) = {}
           /\ innerWork # <<>> /\ Head(innerWork).host = h => Answers(h) = {} /\ IsLookedUp(h)
<1>1. /\ Count(h, dbQueue) \in Nat /\ Count(h, dbWork) \in Nat
      /\ Count(h, innerQueue) \in Nat /\ Count(h, innerWork) \in Nat
      /\ Cardinality(AnswersIn(sent[h])) \in Nat
  BY CountsAreNatural
<1>2. Total(h) <= 1 /\ (Total(h) = 1 => IsLookedUp(h))
  BY TotalIsInFlight DEF LookedUpOnce, IsLookedUp
<1>3. Answers(h) = AnswersIn(sent[h])
  BY DEF Answers, AnswersIn
<1>4. Cardinality(AnswersIn(sent[h])) = 0 => Answers(h) = {}
  <2>1. sent[h] \in Seq(Messages)
    BY DEF TypeOK
  <2>2. IsFiniteSet(AnswersIn(sent[h]))
    BY <2>1, AnswersOfAppend, MessagesAre
  <2>3. QED
    BY <1>3, <2>2, FS_EmptySet
<1>5. playerList[h] = NoPlayer => Answers(h) = {}
  <2>1. playerList[h] = NoPlayer => Total(h) # 1
    BY <1>2 DEF IsLookedUp
  <2>2. Total(h) \in Nat /\ (Total(h) = 0 => Cardinality(AnswersIn(sent[h])) = 0)
    BY <1>1 DEF Total
  <2>3. QED
    BY <1>2, <1>4, <2>1, <2>2
<1>6. ASSUME innerWork # <<>>, Head(innerWork).host = h PROVE Answers(h) = {} /\ IsLookedUp(h)
  <2>1. Count(h, innerWork) = Count(h, Tail(innerWork)) + 1
    BY <1>6, CountOfTail DEF TypeOK
  <2>2. Count(h, Tail(innerWork)) \in Nat
    BY <1>6, QueueOps, OfIsFinite DEF TypeOK
  <2>3. Total(h) = 1 /\ Cardinality(AnswersIn(sent[h])) = 0
    BY <1>1, <1>2, <2>1, <2>2 DEF Total
  <2>4. QED
    BY <1>2, <1>4, <2>3
<1>7. QED
  BY <1>5, <1>6

\* What a message does to the answers of each host
LEMMA SendAnswers ==
    ASSUME TypeOK, NEW h \in Hosts, NEW m \in Messages, SendPacket(h, m)
    PROVE  /\ \A g \in Hosts : g # h => Answers(g)' = Answers(g)
           /\ m.msg # "LC_AuthRes" \/ host[h] # "open" => Answers(h)' = Answers(h)
           /\ m.msg = "LC_AuthRes" /\ playerList'[h] # NoPlayer /\ host[h] = "open" => Answers(h)' # {}
<1>1. \A g \in Hosts : Answers(g) = AnswersIn(sent[g]) /\ Answers(g)' = AnswersIn(sent'[g])
  BY DEF Answers, AnswersIn
<1>2. sent[h] \in Seq(Messages) /\ \A g \in Hosts : g # h => sent'[g] = sent[g]
  BY SendEffect
<1>3. sent'[h] = IF playerList'[h] # NoPlayer /\ host[h] = "open"
                 THEN Append(sent[h], m) ELSE sent[h]
  BY SendEffect
<1>4. AnswersIn(Append(sent[h], m)) = IF m.msg = "LC_AuthRes"
            THEN AnswersIn(sent[h]) \cup {Len(sent[h]) + 1} ELSE AnswersIn(sent[h])
  BY <1>2, AnswersOfAppend
<1>5. QED
  BY <1>1, <1>2, <1>3, <1>4

\* A step that leaves phases alone and lists at most one more host
LEMMA MayGiveNotice ==
    ASSUME TypeOK, NEW h \in Hosts, host[h] # "none", phase' = phase,
           notice' = notice \/ (host[h] = "open" /\ notice' = notice \cup {h})
    PROVE  Session!SessionNext \/ UNCHANGED <<phase, notice>>
<1>1. CASE notice' = notice
  BY <1>1
<1>2. CASE host[h] = "open" /\ notice' = notice \cup {h}
  <2>1. phase[h] \in {"connected", "asking", "answered"}
    BY <1>2, PhaseIs
  <2>2. Session!GiveNotice(h)
    BY <1>2, <2>1 DEF Session!GiveNotice
  <2>3. QED
    BY <2>2 DEF Session!SessionNext
<1>3. QED
  BY <1>1, <1>2

\* A reserved kick is a notice, unless the client has gone.
LEMMA KickGivesNotice ==
    ASSUME TypeOK, NEW h \in Hosts, AddKickReserve(h), host' = host, closing' = closing
    PROVE  notice' = notice \/ (host[h] = "open" /\ notice' = notice \cup {h})
<1>1. /\ \A g \in Hosts : g # h => kickList'[g] = kickList[g]
      /\ kickList'[h] # NotListed
      /\ kickList[h] # NotListed => kickList'[h] = kickList[h]
  BY KickEffect
<1>2. QED
  BY <1>1 DEF notice

LEMMA ConnectionSteps ==
    ASSUME LoginInv, NEW h \in Hosts, OnConnect(h) \/ OnReceive(h) \/ OnClose(h) \/ CloseUnknownHost(h)
    PROVE  Session!SessionNext \/ UNCHANGED <<phase, notice>>
<1>1. UNCHANGED <<playerList, kickList, sent>>
  BY DEF OnConnect, OnReceive, OnClose, CloseUnknownHost, kickVars
<1>2. \A g \in Hosts : Answers(g)' = Answers(g) /\ IsLookedUp(g)' = IsLookedUp(g)
  BY <1>1 DEF Answers, IsLookedUp
<1>3. TypeOK /\ HostsHaveCome /\ LookedUpOnce
  BY DEF LoginInv
<1>4. CASE OnConnect(h)
  <2>1. /\ host[h] = "none" /\ host' = [host EXCEPT ![h] = "open"] /\ closing' = closing
        /\ host'[h] = "open" /\ \A g \in Hosts : g # h => host'[g] = host[g]
    BY <1>3, <1>4 DEF OnConnect, TypeOK
  <2>2. playerList[h] = NoPlayer /\ kickList[h] = NotListed /\ h \notin closing
    BY <1>3, <2>1 DEF HostsHaveCome
  <2>3. Answers(h) = {} /\ ~ IsLookedUp(h)
    BY <1>3, <2>2, NotAnswered DEF IsLookedUp
  <2>4. phase[h] = "away" /\ phase'[h] = "connected"
    BY <1>2, <2>1, <2>3, PhaseIs, PhaseIsNext
  <2>5. Session!MoveTo(h, "connected")
    BY <1>2, <1>3, <2>1, <2>4, PhaseStays, PhaseMoves
  <2>6. notice' = notice
    BY <1>1, <2>1, <2>2 DEF notice
  <2>7. Session!Arrive(h)
    BY <2>4, <2>5, <2>6 DEF Session!Arrive
  <2>8. QED
    BY <2>7 DEF Session!SessionNext
<1>5. CASE OnReceive(h)
  <2>1. UNCHANGED <<host, closing>>
    BY <1>5 DEF OnReceive
  <2>2. \A g \in Hosts : phase'[g] = phase[g]
    BY <1>2, <1>3, <2>1, PhaseStays
  <2>3. QED
    BY <1>1, <2>1, <2>2, PhaseUnchanged DEF notice
<1>6. CASE OnClose(h)
  <2>1. /\ host[h] = "open" /\ host' = [host EXCEPT ![h] = "closed"] /\ closing' = closing \ {h}
        /\ host'[h] = "closed" /\ \A g \in Hosts : g # h => host'[g] = host[g]
    BY <1>3, <1>6 DEF OnClose, TypeOK
  <2>2. phase[h] \in {"connected", "asking", "answered"} /\ phase'[h] = "gone"
    BY <2>1, PhaseIs, PhaseIsNext
  <2>3. Session!MoveTo(h, "gone")
    BY <1>2, <1>3, <2>1, <2>2, PhaseStays, PhaseMoves
  <2>4. notice' = notice \ {h}
    BY <1>1, <2>1 DEF notice
  <2>5. Session!Leave(h)
    BY <2>2, <2>3, <2>4 DEF Session!Leave
  <2>6. QED
    BY <2>5 DEF Session!SessionNext
<1>7. CASE CloseUnknownHost(h)
  <2>1. host' = host /\ closing' = closing \ {h} /\ host[h] # "open"
    BY <1>7 DEF CloseUnknownHost
  <2>2. \A g \in Hosts : phase'[g] = phase[g]
    BY <1>2, <1>3, <2>1, PhaseStays
  <2>3. QED
    BY <1>1, <2>1, <2>2, PhaseUnchanged DEF notice
<1>8. QED
  BY <1>4, <1>5, <1>6, <1>7

\* The handlers that leave the players alone
LEMMA SimpleSteps ==
    ASSUME LoginInv, NEW h \in Hosts,
           OnHostConnect(h) \/ OnHostClose(h) \/ DropUnregistered(h) \/ OnDeserializeFail(h)
    PROVE  Session!SessionNext \/ UNCHANGED <<phase, notice>>
<1>1. TypeOK /\ HostsHaveCome
  BY DEF LoginInv
<1>2. PICK k : TakeOuter(k, h)
  BY DEF OnHostConnect, OnHostClose, DropUnregistered, OnDeserializeFail
<1>3. host' = host /\ host[h] # "none"
  BY <1>1, <1>2, OuterEffect DEF HostsHaveCome
<1>4. UNCHANGED <<playerList, kickList, sent>> /\ (closing' = closing \/ closing' = closing \cup {h})
  BY DEF OnHostConnect, OnHostClose, DropUnregistered, OnDeserializeFail
<1>5. phase' = phase
  <2>1. \A g \in Hosts : Answers(g)' = Answers(g) /\ IsLookedUp(g)' = IsLookedUp(g)
    BY <1>4 DEF Answers, IsLookedUp
  <2>2. QED
    BY <1>1, <1>3, <2>1, PhaseStays, PhaseUnchanged
<1>6. notice' = notice \/ (host[h] = "open" /\ notice' = notice \cup {h})
  BY <1>3, <1>4 DEF notice
<1>7. QED
  BY <1>1, <1>3, <1>5, <1>6, MayGiveNotice

LEMMA RequestSteps ==
    ASSUME LoginInv, NEW h \in Hosts,
           RefuseSecond(h) \/ IgnoreClient(h) \/ RefuseKey(h) \/ AskPlatform(h) \/ AskDB(h)
    PROVE  Session!SessionNext \/ UNCHANGED <<phase, notice>>
<1>1. TypeOK /\ HostsHaveCome /\ LookedUpOnce /\ Error \in Messages /\ Error.msg # "LC_AuthRes"
  BY MessagesAre DEF LoginInv
<1>2. PICK k : TakeOuter(k, h)
  BY <1>1, NoLookUp, LookUp DEF RefuseSecond
<1>3. host' = host /\ closing' = closing /\ host[h] # "none"
  BY <1>1, <1>2, OuterEffect, HandlersKeepHosts DEF HostsHaveCome
<1>4. ASSUME SendPacket(h, Error) PROVE \A g \in Hosts : Answers(g)' = Answers(g)
  <2> DEFINE e == Error
  <2>1. e \in Messages /\ e.msg # "LC_AuthRes" /\ SendPacket(h, e)
    BY <1>1, <1>4
  <2> HIDE DEF e
  <2>2. QED
    BY <1>1, <2>1, SendAnswers
<1>5. CASE RefuseSecond(h)
  <2>1. \A g \in Hosts : Answers(g)' = Answers(g) /\ IsLookedUp(g)' = IsLookedUp(g)
    BY <1>4, <1>5 DEF RefuseSecond, IsLookedUp
  <2>2. phase' = phase
    BY <1>1, <1>3, <2>1, PhaseStays, PhaseUnchanged
  <2>3. QED
    BY <1>1, <1>3, <1>5, <2>2, KickGivesNotice, MayGiveNotice DEF RefuseSecond
<1>6. CASE IgnoreClient(h) \/ RefuseKey(h) \/ AskPlatform(h)
  <2>1. /\ playerList[h] = NoPlayer
        /\ \A g \in Hosts : g # h => playerList'[g] = playerList[g]
        /\ playerList'[h].state # "DBProcess"
        /\ UNCHANGED <<kickList, sent>> \/ (SendPacket(h, Error) /\ AddKickReserve(h))
    <3>1. /\ playerList[h] = NoPlayer
          /\ \A g \in Hosts : g # h => playerList'[g] = playerList[g]
          /\ playerList'[h].state # "DBProcess"
      BY <1>1, <1>6, NoLookUp
    <3>2. UNCHANGED <<kickList, sent>> \/ (SendPacket(h, Error) /\ AddKickReserve(h))
      BY <1>1, <1>6, NoLookUp
    <3>3. QED
      BY <3>1, <3>2
  <2>2. \A g \in Hosts : Answers(g)' = Answers(g)
    <3>1. CASE sent' = sent
      BY <3>1 DEF Answers
    <3>2. QED
      BY <1>4, <2>1, <3>1
  <2>3. \A g \in Hosts : IsLookedUp(g)' = IsLookedUp(g)
    <3> SUFFICES ASSUME NEW g \in Hosts PROVE IsLookedUp(g)' = IsLookedUp(g)
      OBVIOUS
    <3>1. CASE g = h
      BY <2>1, <3>1 DEF IsLookedUp
    <3>2. CASE g # h
      BY <2>1, <3>2 DEF IsLookedUp
    <3>3. QED
      BY <3>1, <3>2
  <2>4. phase' = phase
    BY <1>1, <1>3, <2>2, <2>3, PhaseStays, PhaseUnchanged
  <2>5. notice' = notice \/ (host[h] = "open" /\ notice' = notice \cup {h})
    <3>1. CASE kickList' = kickList
      BY <1>3, <3>1 DEF notice
    <3>2. CASE AddKickReserve(h)
      BY <1>1, <1>3, <3>2, KickGivesNotice
    <3>3. QED
      BY <2>1, <3>1, <3>2
  <2>6. QED
    BY <1>1, <1>3, <2>4, <2>5, MayGiveNotice
<1>7. CASE AskDB(h)
  <2>1. /\ playerList[h] = NoPlayer
        /\ \A g \in Hosts : g # h => playerList'[g] = playerList[g]
        /\ playerList'[h] # NoPlayer /\ playerList'[h].state = "DBProcess"
        /\ UNCHANGED <<kickList, sent>>
    BY <1>1, <1>7, LookUp
  <2>2. /\ \A g \in Hosts : Answers(g)' = Answers(g)
        /\ \A g \in Hosts : g # h => IsLookedUp(g)' = IsLookedUp(g)
    BY <2>1 DEF Answers, IsLookedUp
  <2>3. Answers(h) = {} /\ ~ IsLookedUp(h) /\ IsLookedUp(h)'
    BY <1>1, <2>1, NotAnswered DEF IsLookedUp
  <2>4. \A g \in Hosts : g # h => phase'[g] = phase[g]
    BY <1>1, <1>3, <2>2, PhaseStays
  <2>5. notice' = notice
    BY <1>3, <2>1 DEF notice
  <2>6. CASE host[h] = "open"
    <3>1. phase[h] = "connected" /\ phase'[h] = "asking"
      BY <1>3, <2>2, <2>3, <2>6, PhaseIs, PhaseIsNext
    <3>2. Session!Ask(h)
      BY <2>4, <2>5, <3>1, PhaseMoves DEF Session!Ask
    <3>3. QED
      BY <3>2 DEF Session!SessionNext
  <2>7. CASE host[h] = "closed"
    <3>1. phase'[h] = phase[h]
      BY <1>3, <2>7, PhaseIs, PhaseIsNext
    <3>2. QED
      BY <2>4, <2>5, <3>1, PhaseUnchanged
  <2>8. QED
    BY <1>1, <1>3, <2>6, <2>7 DEF TypeOK
<1>8. QED
  BY <1>5, <1>6, <1>7

LEMMA AnswerSteps ==
    ASSUME LoginInv, NEW h \in Hosts, RefuseBlocked(h) \/ Accept(h)
    PROVE  Session!SessionNext \/ UNCHANGED <<phase, notice>>
<1>1. TypeOK /\ HostsHaveCome /\ LookedUpOnce /\ Error \in Messages /\ Error.msg # "LC_AuthRes"
  BY MessagesAre DEF LoginInv
<1>2. TakeInner(h)
  BY DEF RefuseBlocked, Accept
<1>3. /\ innerWork # <<>> /\ Head(innerWork).host = h /\ Head(innerWork) \in Results
      /\ UNCHANGED <<host, closing, playerList>>
  BY <1>1, <1>2, InnerEffect
<1>4. Answers(h) = {} /\ IsLookedUp(h) /\ playerList[h] # NoPlayer
  BY <1>1, <1>3, NotAnswered DEF IsLookedUp
<1>5. host[h] # "none" /\ \A g \in Hosts : IsLookedUp(g)' = IsLookedUp(g)
  BY <1>1, <1>3, <1>4 DEF HostsHaveCome, IsLookedUp
<1>6. CASE RefuseBlocked(h)
  <2> DEFINE e == Error
  <2>1. e \in Messages /\ e.msg # "LC_AuthRes" /\ SendPacket(h, e)
    BY <1>1, <1>6 DEF RefuseBlocked
  <2> HIDE DEF e
  <2>2. \A g \in Hosts : Answers(g)' = Answers(g)
    BY <1>1, <2>1, SendAnswers
  <2>3. phase' = phase
    BY <1>1, <1>3, <1>5, <2>2, PhaseStays, PhaseUnchanged
  <2>4. QED
    BY <1>1, <1>3, <1>5, <1>6, <2>3, KickGivesNotice, MayGiveNotice DEF RefuseBlocked
<1>7. CASE Accept(h)
  <2> DEFINE m == AuthRes(Head(innerWork).account)
  <2>1. m \in Messages /\ m.msg = "LC_AuthRes" /\ SendPacket(h, m)
    BY <1>3, <1>7, MessagesAre DEF Accept, Results
  <2> HIDE DEF m
  <2>2. /\ \A g \in Hosts : g # h => Answers(g)' = Answers(g)
        /\ host[h] # "open" => Answers(h)' = Answers(h)
        /\ host[h] = "open" => Answers(h)' # {}
    BY <1>1, <1>3, <1>4, <2>1, SendAnswers
  <2>3. \A g \in Hosts : g # h => phase'[g] = phase[g]
    BY <1>1, <1>3, <1>5, <2>2, PhaseStays
  <2>4. notice' = notice
    BY <1>3, <1>7 DEF Accept, notice
  <2>5. CASE host[h] = "open"
    <3>1. phase[h] = "asking" /\ phase'[h] = "answered"
      BY <1>3, <1>4, <2>2, <2>5, PhaseIs, PhaseIsNext
    <3>2. Session!Answer(h)
      BY <2>3, <2>4, <3>1, PhaseMoves DEF Session!Answer
    <3>3. QED
      BY <3>2 DEF Session!SessionNext
  <2>6. CASE host[h] # "open"
    <3>1. phase'[h] = phase[h]
      BY <1>1, <1>3, <1>5, <2>2, <2>6, PhaseStays
    <3>2. QED
      BY <2>3, <2>4, <3>1, PhaseUnchanged
  <2>7. QED
    BY <2>5, <2>6
<1>8. QED
  BY <1>6, <1>7

\* The steps that no client sees
LEMMA SilentSteps ==
    ASSUME LoginInv, Tick \/ UpdateTimer \/ SwapOuter \/ LoseSession \/ UNCHANGED vars
                        \/ TakeDBWork \/ DropRequest \/ FailRequest \/ RunProcedure
    PROVE  UNCHANGED <<phase, notice>>
<1>1. TypeOK
  BY DEF LoginInv
<1>2. UNCHANGED <<host, playerList, sent>>
  BY <1>1, DBKeeps DEF Tick, UpdateTimer, SwapOuter, LoseSession, netVars, vars
<1>3. phase' = phase
  <2>1. \A g \in Hosts : Answers(g)' = Answers(g) /\ IsLookedUp(g)' = IsLookedUp(g)
    BY <1>2 DEF Answers, IsLookedUp
  <2>2. QED
    BY <1>1, <1>2, <2>1, PhaseStays, PhaseUnchanged
<1>4. ASSUME \A g \in Hosts : host[g] = "open" =>
                (g \in closing' \/ kickList'[g] # NotListed <=> g \in closing \/ kickList[g] # NotListed)
      PROVE  notice' = notice
  BY <1>2, <1>4 DEF notice
<1>5. ASSUME Tick PROVE notice' = notice
  BY <1>1, <1>4, <1>5 DEF Tick, TypeOK, NotListed, netVars
<1>6. ASSUME UpdateTimer PROVE notice' = notice
  <2>1. \A g \in Hosts : kickList[g] # NotListed /\ host[g] = "open" => g \in usingHosts
    BY DEF LoginInv, KickCanClose
  <2>2. CASE timerDue
    BY <1>1, <1>4, <1>6, <2>1, <2>2 DEF UpdateTimer, KickProcess, TypeOK, NotListed
  <2>3. CASE ~ timerDue
    BY <1>4, <1>6, <2>3 DEF UpdateTimer
  <2>4. QED
    BY <2>2, <2>3
<1>7. ASSUME UNCHANGED <<closing, kickList>> PROVE notice' = notice
  BY <1>4, <1>7
<1>8. QED
  BY <1>1, <1>3, <1>5, <1>6, <1>7, DBKeeps DEF SwapOuter, LoseSession, netVars, kickVars, vars

\* The login server keeps, step by step, the promise of LoginSession to each client: one
\* answer at most, after one question, and no notice that is taken back.
THEOREM LoginImplementsSession ==
    Spec => Session!SessionInit /\ [][Session!SessionNext]_<<phase, notice>>
<1>1. Init => Session!SessionInit
  BY DEF Init, Session!SessionInit, phase, notice
<1>2. LoginInv /\ [Next]_vars => [Session!SessionNext]_<<phase, notice>>
  <2> SUFFICES ASSUME LoginInv, [Next]_vars
               PROVE  Session!SessionNext \/ UNCHANGED <<phase, notice>>
    OBVIOUS
  <2>1. QED
    BY ConnectionSteps, SimpleSteps, RequestSteps, AnswerSteps, SilentSteps
       DEF Next, ServiceStep, DBStep
<1>3. QED
  BY <1>1, <1>2, LoginInvariant, PTL DEF Spec

=============================================================================
