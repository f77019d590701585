---------------------------- MODULE Listener_proofs ----------------------------
(***************************************************************************)
(* For any number of workers, contexts and sockets, and any number of accepts  *)
(* that are kept waiting: the listener counts its accepts exactly and never    *)
(* exceeds them, no context is in two of them, and no socket is dropped or given  *)
(* to two, until a late Align clears the buffer of its accept.                  *)
(***************************************************************************)
EXTENDS Listener, FiniteSetTheorems, SequenceTheorems, TLAPS

USE ListenerAssumption

-----------------------------------------------------------------------------
(* The size of the set of threads that hold a task *)

LEMMA HandlingIsFinite == IsFiniteSet(Handling) /\ Cardinality(Handling) \in Nat
<1>1. IsFiniteSet(Threads)
  BY FS_Singleton, FS_Union DEF Threads
<1>2. Handling \subseteq Threads
  BY DEF Handling
<1>3. QED
  BY <1>1, <1>2, FS_Subset, FS_CardinalityType

LEMMA HandlingGrows ==
    ASSUME NEW t, t \notin Handling, Handling' = Handling \cup {t}
    PROVE  Cardinality(Handling') = Cardinality(Handling) + 1
BY HandlingIsFinite, FS_AddElement

LEMMA HandlingShrinks ==
    ASSUME NEW t \in Handling, Handling' = Handling \ {t}
    PROVE  Cardinality(Handling') = Cardinality(Handling) - 1 /\ Cardinality(Handling) > 0
<1>1. Cardinality(Handling \ {t}) = Cardinality(Handling) - 1
  BY HandlingIsFinite, FS_RemoveElement
<1>2. Cardinality(Handling) # 0
  BY HandlingIsFinite, FS_EmptySet
<1>3. QED
  BY <1>1, <1>2, HandlingIsFinite

\* A thread whose state alone changes moves into the set or out of it.
LEMMA HandlingMoves ==
    ASSUME ListenerInv, NEW t \in Threads, NEW d, thread' = [thread EXCEPT ![t] = d]
    PROVE  Handling' = IF d.pc \in {"accept", "join"} THEN Handling \cup {t} ELSE Handling \ {t}
BY DEF Handling, ListenerInv, TypeOK

LEMMA AcceptsAreFinite == ASSUME ListenerInv PROVE Cardinality(accepts) \in Nat
BY FS_CardinalityType DEF ListenerInv

LEMMA FreshSocket ==
    ASSUME \E s \in Sockets : socket[s] = "none"
    PROVE  NewSocket \in Sockets /\ socket[NewSocket] = "none"
BY DEF NewSocket

-----------------------------------------------------------------------------
(* The actions *)

LEMMA InitListenerInv == ASSUME Init PROVE ListenerInv
<1>1. TypeOK
  BY EmptySeq DEF Init, TypeOK, Idle, Doing, ThreadStates, Addresses
<1>2. Handling = {} /\ Cardinality({}) = 0 /\ IsFiniteSet({})
  BY FS_EmptySet DEF Init, Handling, Idle, Doing
<1>3. AcceptsAreCounted
  BY <1>2 DEF AcceptsAreCounted, Init
<1>4. SocketsAreOwned
  BY DEF Init, SocketsAreOwned, Idle, Doing
<1>5. CallsAreTyped /\ BuffersHoldSockets /\ OneAcceptOfAContext
  BY <1>2 DEF Init, CallsAreTyped, BuffersHoldSockets, OneAcceptOfAContext, Idle, Doing
<1>6. QED
  BY <1>1, <1>2, <1>3, <1>4, <1>5 DEF ListenerInv, Init

\* The controller's steps that touch no accept
LEMMA ControllerKeeps ==
    ASSUME ListenerInv, ProcessListen \/ RemoveListener \/ UpdateListener
    PROVE  ListenerInv'
<1>1. /\ UNCHANGED <<baseTask, thread, accepts, socket, clients, refusals, buffer, address, peer>>
      /\ listener' \in {"none", "listening", "closed", "gone"}
  BY DEF ProcessListen, RemoveListener, UpdateListener, ioVars, ctxVars, ListenerInv, TypeOK
<1>2. told' \in Seq({"OnListen", "OnListenFailed", "OnClose"})
  <2> DEFINE T == {"OnListen", "OnListenFailed", "OnClose"}
  <2>1. told \in Seq(T)
    BY DEF ListenerInv, TypeOK
  <2>2. told' = told \/ \E e \in T : told' = Append(told, e)
    BY DEF ProcessListen, RemoveListener, UpdateListener
  <2>3. QED
    BY <2>1, <2>2, AppendProperties
<1>3. left' \in 0 .. AcceptWait /\ baseTask + left' <= AcceptWait
  <2>1. baseTask \in Nat /\ left \in 0 .. AcceptWait /\ baseTask + left <= AcceptWait
    BY DEF ListenerInv, TypeOK, AcceptsAreCounted
  <2>2. left' = left \/ (baseTask < AcceptWait /\ left' = AcceptWait - baseTask)
    BY DEF ProcessListen, RemoveListener, UpdateListener
  <2>3. QED
    BY <1>1, <2>1, <2>2
<1>4. Handling' = Handling
  BY <1>1 DEF Handling
<1>5. QED
  BY <1>1, <1>2, <1>3, <1>4
     DEF ListenerInv, TypeOK, CallsAreTyped, BuffersHoldSockets, OneAcceptOfAContext,
         SocketsAreOwned, AcceptsAreCounted

\* The controller takes a free context: no accept and no thread has it.
LEMMA NewAcceptKeeps == ASSUME ListenerInv, NewAccept PROVE ListenerInv'
<1>1. PICK c \in Contexts :
        IsFree(c) /\ thread' = [thread EXCEPT ![Ctl] = Doing("accept", c, NoSocket, FALSE)]
  BY DEF NewAccept
<1>2. /\ thread[Ctl].pc = "idle" /\ left > 0 /\ left' = left - 1 /\ baseTask' = baseTask + 1
      /\ UNCHANGED <<listener, told, accepts, socket, clients, refusals, buffer, address, peer>>
  BY DEF NewAccept, ioVars, ctxVars
<1>3. Ctl \in Threads /\ thread[Ctl] = Idle
  BY <1>2 DEF Threads, ListenerInv, CallsAreTyped
<1> DEFINE d == Doing("accept", c, NoSocket, FALSE)
<1>d. d \in ThreadStates /\ d.pc = "accept" /\ d.ctx = c /\ d.sock = NoSocket
  BY DEF Doing, ThreadStates
<1>4. Handling' = Handling \cup {Ctl} /\ Ctl \notin Handling
  <2> HIDE DEF d
  <2>1. thread' = [thread EXCEPT ![Ctl] = d]
    BY <1>1 DEF d
  <2>2. QED
    BY <1>2, <1>3, <1>d, <2>1, HandlingMoves DEF Handling
<1>5. TypeOK'
  <2> HIDE DEF d
  <2>1. thread' = [thread EXCEPT ![Ctl] = d]
    BY <1>1 DEF d
  <2>2. thread' \in [Threads -> ThreadStates]
    BY <1>d, <2>1 DEF ListenerInv, TypeOK
  <2>3. left' \in 0 .. AcceptWait /\ baseTask' \in Nat
    BY <1>2 DEF ListenerInv, TypeOK
  <2>4. QED
    BY <1>2, <2>2, <2>3 DEF ListenerInv, TypeOK
<1>6. CallsAreTyped' /\ BuffersHoldSockets'
  BY <1>1, <1>2 DEF ListenerInv, TypeOK, CallsAreTyped, BuffersHoldSockets, Doing
<1>7. OneAcceptOfAContext'
  BY <1>1, <1>2, <1>4
     DEF ListenerInv, TypeOK, OneAcceptOfAContext, IsFree, InSystem, Holds, Doing, Handling
<1>8. SocketsAreOwned'
  BY <1>1, <1>2, <1>3 DEF ListenerInv, TypeOK, SocketsAreOwned, Doing, Idle
<1>9. AcceptsAreCounted'
  <2>1. Cardinality(Handling') = Cardinality(Handling) + 1
    BY <1>4, HandlingGrows
  <2>2. accepts' = accepts /\ Cardinality(accepts') = Cardinality(accepts)
    BY <1>2
  <2>3. QED
    BY <1>2, <2>1, <2>2, HandlingIsFinite, AcceptsAreFinite
       DEF ListenerInv, TypeOK, AcceptsAreCounted
<1>10. QED
  BY <1>2, <1>5, <1>6, <1>7, <1>8, <1>9 DEF ListenerInv

\* The accept is given up: the thread held no socket, and its context is in no accept.
LEMMA RefuseAcceptKeeps ==
    ASSUME ListenerInv, NEW t \in Threads, RefuseAccept(t)
    PROVE  ListenerInv'
<1> DEFINE c == thread[t].ctx
<1>1. /\ thread[t].pc = "accept" /\ thread[t].sock = NoSocket /\ c \in Contexts
      /\ t \in Handling
      /\ thread' = [thread EXCEPT ![t] = Idle]
      /\ \E b \in {"empty"} : buffer' = [buffer EXCEPT ![c] = b]
      /\ \E a \in Addresses : address' = [address EXCEPT ![c] = a]
  BY DEF RefuseAccept, ReleaseContext, ListenerInv, TypeOK, CallsAreTyped, Handling, Addresses
<1>2. /\ refusals < MaxRefusals /\ refusals' = refusals + 1 /\ baseTask' = baseTask - 1
      /\ UNCHANGED <<listener, told, left, accepts, socket, clients, peer>>
  BY DEF RefuseAccept
<1>3. Handling' = Handling \ {t}
  BY <1>1, HandlingMoves DEF Idle, Doing
<1>4. AcceptsAreCounted' /\ baseTask' \in Nat
  <2>1. /\ Cardinality(Handling') = Cardinality(Handling) - 1
        /\ Cardinality(Handling) > 0
    BY <1>1, <1>3, HandlingShrinks
  <2>2. Cardinality(accepts') = Cardinality(accepts)
    BY <1>2
  <2>3. QED
    BY <1>2, <2>1, <2>2, HandlingIsFinite, AcceptsAreFinite
       DEF ListenerInv, TypeOK, AcceptsAreCounted
<1>5. TypeOK'
  BY <1>1, <1>2, <1>4 DEF ListenerInv, TypeOK, ThreadStates, Idle, Doing
<1>6. CallsAreTyped'
  BY <1>1, <1>2 DEF ListenerInv, TypeOK, CallsAreTyped, Idle, Doing
<1>7. BuffersHoldSockets'
  BY <1>1, <1>2 DEF ListenerInv, TypeOK, BuffersHoldSockets, OneAcceptOfAContext
<1>8. OneAcceptOfAContext'
  BY <1>1, <1>2, <1>3 DEF ListenerInv, TypeOK, OneAcceptOfAContext, Handling
<1>9. SocketsAreOwned'
  BY <1>1, <1>2 DEF ListenerInv, TypeOK, SocketsAreOwned, Doing, Idle
<1>10. QED
  BY <1>2, <1>4, <1>5, <1>6, <1>7, <1>8, <1>9 DEF ListenerInv

\* What the two outcomes of a posted accept have in common: the context passes from the
\* thread to the accept, with a new socket.
LEMMA PostKeeps ==
    ASSUME ListenerInv, NEW t \in Threads, NEW st \in {"waiting", "client"}, PostAccept(t, st),
           NEW d \in ThreadStates, d.sock = NoSocket, d.pc \notin {"accept", "join"},
           d.pc = "idle" => d = Idle, d.pc # "idle" => d.ctx \in Contexts,
           thread' = [thread EXCEPT ![t] = d],
           buffer' = [buffer EXCEPT ![thread[t].ctx] = "socket"],
           address' \in [Contexts -> Addresses],
           clients' \in 0 .. MaxClients
    PROVE  ListenerInv'
<1> DEFINE c == thread[t].ctx
           a == [ctx |-> c, sock |-> NewSocket, state |-> st]
<1>1. /\ thread[t].pc = "accept" /\ thread[t].sock = NoSocket /\ c \in Contexts
      /\ t \in Handling
  BY DEF PostAccept, ListenerInv, TypeOK, CallsAreTyped, Handling
<1>2. /\ NewSocket \in Sockets /\ socket[NewSocket] = "none"
      /\ socket' = [socket EXCEPT ![NewSocket] = "created"]
      /\ accepts' = accepts \cup {a}
      /\ UNCHANGED <<listener, told, baseTask, left, refusals, peer>>
  BY FreshSocket DEF PostAccept
<1>3. /\ \A x \in accepts : x.ctx # c /\ x.sock # NewSocket
      /\ \A u \in Threads : thread[u].sock # NewSocket
  BY <1>1, <1>2 DEF ListenerInv, OneAcceptOfAContext, SocketsAreOwned
<1>4. a \in Accepts /\ a \notin accepts
  BY <1>1, <1>2, <1>3 DEF Accepts
<1>5. Handling' = Handling \ {t}
  BY HandlingMoves
<1>6. IsFiniteSet(accepts') /\ AcceptsAreCounted'
  <2>1. IsFiniteSet(accepts') /\ Cardinality(accepts') = Cardinality(accepts) + 1
    BY <1>2, <1>4, FS_AddElement DEF ListenerInv
  <2>2. Cardinality(Handling') = Cardinality(Handling) - 1
    BY <1>1, <1>5, HandlingShrinks
  <2>3. baseTask' = Cardinality(accepts') + Cardinality(Handling')
    BY <1>2, <2>1, <2>2, HandlingIsFinite, AcceptsAreFinite DEF ListenerInv, AcceptsAreCounted
  <2>4. QED
    BY <1>2, <2>1, <2>3 DEF ListenerInv, AcceptsAreCounted
<1>7. TypeOK'
  BY <1>1, <1>2, <1>4 DEF ListenerInv, TypeOK
<1>8. CallsAreTyped'
  BY <1>1 DEF ListenerInv, TypeOK, CallsAreTyped
<1>9. BuffersHoldSockets'
  BY <1>1, <1>2 DEF ListenerInv, TypeOK, BuffersHoldSockets, Accepts
<1>10. OneAcceptOfAContext'
  BY <1>1, <1>2, <1>3, <1>5 DEF ListenerInv, TypeOK, OneAcceptOfAContext, Handling
<1>11. SocketsAreOwned'
  <2>1. \A u \in Threads : thread'[u] = IF u = t THEN d ELSE thread[u]
    BY DEF ListenerInv, TypeOK
  <2>2. \A u \in Threads : thread'[u].sock = thread[u].sock
    BY <1>1, <2>1
  <2>3. \A s \in Sockets : socket'[s] = IF s = NewSocket THEN "created" ELSE socket[s]
    BY <1>2 DEF ListenerInv, TypeOK
  <2>4. a.sock = NewSocket /\ a \in accepts'
    BY <1>2
  <2> HIDE DEF a
  <2>5. QED
    BY <1>2, <1>3, <2>2, <2>3, <2>4 DEF ListenerInv, SocketsAreOwned
<1>12. QED
  BY <1>6, <1>7, <1>8, <1>9, <1>10, <1>11 DEF ListenerInv

LEMMA AcceptLaterKeeps ==
    ASSUME ListenerInv, NEW t \in Threads, AcceptLater(t)
    PROVE  ListenerInv'
<1> DEFINE d == Doing("parse", thread[t].ctx, NoSocket, FALSE)
<1>1. thread[t].ctx \in Contexts
  BY DEF AcceptLater, PostAccept, ListenerInv, CallsAreTyped
<1>2. /\ d \in ThreadStates /\ d.sock = NoSocket /\ d.pc = "parse" /\ d.ctx \in Contexts
  BY <1>1 DEF Doing, ThreadStates
<1>3. /\ PostAccept(t, "waiting") /\ thread' = [thread EXCEPT ![t] = d]
      /\ buffer' = [buffer EXCEPT ![thread[t].ctx] = "socket"]
      /\ address' \in [Contexts -> Addresses] /\ clients' \in 0 .. MaxClients
  BY DEF AcceptLater, ListenerInv, TypeOK
<1> HIDE DEF d
<1>4. QED
  BY <1>2, <1>3, PostKeeps

LEMMA AcceptAtOnceKeeps ==
    ASSUME ListenerInv, NEW t \in Threads, AcceptAtOnce(t)
    PROVE  ListenerInv'
<1> DEFINE c == thread[t].ctx
<1>1. c \in Contexts /\ PostAccept(t, "client")
  BY DEF AcceptAtOnce, PostAccept, ListenerInv, CallsAreTyped
<1>2. \E a \in accepts' : a.ctx = c
  <2> DEFINE a == [ctx |-> c, sock |-> NewSocket, state |-> "client"]
  <2>1. a \in accepts' /\ a.ctx = c
    BY <1>1 DEF PostAccept
  <2>2. QED
    BY <2>1
<1>3. /\ thread' = [thread EXCEPT ![t] = Idle]
      /\ buffer' = [buffer EXCEPT ![c] = "socket"]
      /\ address' = [address EXCEPT ![c] = address[c]]
  BY <1>2 DEF AcceptAtOnce, ReleaseContext
<1>4. address' \in [Contexts -> Addresses] /\ clients' \in 0 .. MaxClients
  BY <1>1, <1>3 DEF AcceptAtOnce, ListenerInv, TypeOK
<1>5. Idle \in ThreadStates /\ Idle.sock = NoSocket /\ Idle.pc = "idle"
  BY DEF Idle, Doing, ThreadStates
<1>6. QED
  BY <1>1, <1>3, <1>4, <1>5, PostKeeps

\* A late thread changes no more than the state of a buffer, and leaves a buffer of an accept
\* one that holds a socket, or has lost it.
LEMMA LateKeeps ==
    ASSUME ListenerInv, NEW t \in Threads, NEW d \in ThreadStates,
           thread[t].pc \in {"parse", "align"},
           thread' = [thread EXCEPT ![t] = d],
           d = Idle \/ (d.pc = "align" /\ d.ctx \in Contexts),
           d.sock = NoSocket,
           UNCHANGED <<listener, told, baseTask, left, accepts, socket, clients, refusals, peer>>,
           buffer' \in [Contexts -> {"empty", "socket", "read", "cleared"}],
           address' \in [Contexts -> Addresses],
           \A a \in accepts : buffer'[a.ctx] \in {"socket", "cleared"}
    PROVE  ListenerInv'
<1>1. thread[t].sock = NoSocket /\ t \notin Handling
  BY DEF ListenerInv, CallsAreTyped, Handling
<1>2. Handling' = Handling
  <2>1. d.pc \notin {"accept", "join"}
    BY DEF Idle, Doing
  <2>2. Handling' = Handling \ {t}
    BY <2>1, HandlingMoves
  <2>3. QED
    BY <1>1, <2>2
<1>3. TypeOK'
  BY DEF ListenerInv, TypeOK
<1>4. CallsAreTyped'
  <2>1. d.pc = "idle" => d = Idle
    OBVIOUS
  <2>2. d.pc # "idle" => d.ctx \in Contexts
    BY DEF Idle, Doing
  <2>3. QED
    BY <2>1, <2>2 DEF ListenerInv, TypeOK, CallsAreTyped
<1>5. BuffersHoldSockets'
  BY DEF BuffersHoldSockets
<1>6. OneAcceptOfAContext' /\ AcceptsAreCounted'
  <2>1. \A u \in Handling : thread'[u] = thread[u]
    BY <1>1 DEF ListenerInv, TypeOK, Handling
  <2>2. QED
    BY <1>2, <2>1 DEF ListenerInv, OneAcceptOfAContext, AcceptsAreCounted
<1>7. SocketsAreOwned'
  <2>1. \A u \in Threads : thread'[u].sock = thread[u].sock
    BY <1>1 DEF ListenerInv, TypeOK
  <2>2. QED
    BY <2>1 DEF ListenerInv, SocketsAreOwned
<1>8. QED
  BY <1>3, <1>4, <1>5, <1>6, <1>7 DEF ListenerInv

LEMMA BeginAlignKeeps ==
    ASSUME ListenerInv, NEW t \in Threads, BeginAlign(t)
    PROVE  ListenerInv'
<1> DEFINE d == [thread[t] EXCEPT !.pc = "align"]
<1>1. /\ thread[t].pc = "parse" /\ thread[t].sock = NoSocket /\ thread[t].ctx \in Contexts
      /\ thread[t] \in ThreadStates
      /\ thread' = [thread EXCEPT ![t] = d]
      /\ UNCHANGED <<listener, told, baseTask, left, accepts, socket, clients, refusals, peer,
                     buffer, address>>
  BY DEF BeginAlign, ioVars, ctxVars, ListenerInv, TypeOK, CallsAreTyped
<1>2. d \in ThreadStates /\ d.pc = "align" /\ d.ctx \in Contexts /\ d.sock = NoSocket
  BY <1>1 DEF ThreadStates
<1> HIDE DEF d
<1>3. QED
  BY <1>1, <1>2, LateKeeps DEF ListenerInv, TypeOK, BuffersHoldSockets

LEMMA ClearNextAcceptKeeps ==
    ASSUME ListenerInv, NEW t \in Threads, ClearNextAccept(t)
    PROVE  ListenerInv'
<1>1. /\ UNCHANGED <<listener, told, baseTask, left, thread, accepts, socket, clients, refusals,
                     address, peer>>
      /\ buffer' = [buffer EXCEPT ![thread[t].ctx] = "cleared"]
  BY DEF ClearNextAccept, ioVars
<1>2. TypeOK' /\ BuffersHoldSockets'
  BY <1>1 DEF ListenerInv, TypeOK, BuffersHoldSockets, Accepts
<1>3. Handling' = Handling
  BY <1>1 DEF Handling
<1>4. QED
  BY <1>1, <1>2, <1>3
     DEF ListenerInv, CallsAreTyped, OneAcceptOfAContext, SocketsAreOwned, AcceptsAreCounted

\* Whoever looks for addresses takes nothing from the accept of that context.
LEMMA ParseAddressKeeps ==
    ASSUME ListenerInv, NEW t \in Threads, ParseAddress(t)
    PROVE  ListenerInv'
<1> DEFINE c == thread[t].ctx
<1>1. /\ thread[t].pc \in {"parse", "align"} /\ c \in Contexts
      /\ thread' = [thread EXCEPT ![t] = Idle]
      /\ UNCHANGED <<listener, told, baseTask, left, accepts, socket, clients, refusals, peer>>
  BY DEF ParseAddress, ReleaseContext, ListenerInv, CallsAreTyped
<1>2. /\ \E b \in {"empty", "socket", "read", "cleared"} : buffer' = [buffer EXCEPT ![c] = b]
      /\ \E adr \in Addresses : address' = [address EXCEPT ![c] = adr]
      /\ (\E a \in accepts : a.ctx = c) => buffer'[c] = buffer[c]
  <2> DEFINE last == /\ \A u \in Threads \ {t} : ~ Holds(u, c)
                     /\ \A a \in accepts' : a.ctx # c
             b == IF last THEN "empty" ELSE IF buffer[c] = "read" THEN "empty" ELSE buffer[c]
             adr == IF last THEN "none" ELSE IF buffer[c] = "socket" THEN "client" ELSE "garbage"
  <2>1. buffer' = [buffer EXCEPT ![c] = b] /\ address' = [address EXCEPT ![c] = adr]
    BY DEF ParseAddress, ReleaseContext
  <2>2. b \in {"empty", "socket", "read", "cleared"} /\ adr \in Addresses
    BY <1>1 DEF ListenerInv, TypeOK, Addresses
  <2>3. (\E a \in accepts : a.ctx = c) => b = buffer[c]
    BY <1>1 DEF ListenerInv, BuffersHoldSockets
  <2> HIDE DEF b, adr
  <2>4. QED
    BY <1>1, <2>1, <2>2, <2>3 DEF ListenerInv, TypeOK
<1>3. /\ buffer' \in [Contexts -> {"empty", "socket", "read", "cleared"}]
      /\ address' \in [Contexts -> Addresses]
  BY <1>1, <1>2 DEF ListenerInv, TypeOK
<1>4. \A a \in accepts : buffer'[a.ctx] \in {"socket", "cleared"}
  BY <1>1, <1>2 DEF ListenerInv, TypeOK, BuffersHoldSockets, Accepts
<1>5. Idle \in ThreadStates /\ Idle.sock = NoSocket
  BY DEF Idle, Doing, ThreadStates
<1>6. QED
  BY <1>1, <1>3, <1>4, <1>5, LateKeeps

\* An accept that completes keeps its context and its socket.
LEMMA CompleteKeeps ==
    ASSUME ListenerInv, NEW a \in accepts, NEW st \in {"client", "error"}, Complete(a, st),
           clients' \in 0 .. MaxClients, refusals' \in 0 .. MaxRefusals
    PROVE  ListenerInv'
<1> DEFINE b == [a EXCEPT !.state = st]
<1>1. /\ a \in Accepts /\ a.state = "waiting"
      /\ accepts' = (accepts \ {a}) \cup {b}
      /\ UNCHANGED <<listener, told, baseTask, left, thread, socket, buffer, address, peer>>
  BY DEF Complete, ctxVars, ListenerInv, TypeOK
<1>2. b \in Accepts /\ b.ctx = a.ctx /\ b.sock = a.sock /\ b.state = st
  BY <1>1 DEF Accepts
<1>3. b \notin accepts
  BY <1>1, <1>2 DEF ListenerInv, OneAcceptOfAContext
<1> HIDE DEF b
<1>4. IsFiniteSet(accepts') /\ Cardinality(accepts') = Cardinality(accepts)
  <2>1. /\ IsFiniteSet(accepts \ {a})
        /\ Cardinality(accepts \ {a}) = Cardinality(accepts) - 1
    BY FS_RemoveElement DEF ListenerInv
  <2>2. /\ IsFiniteSet((accepts \ {a}) \cup {b})
        /\ Cardinality((accepts \ {a}) \cup {b}) = Cardinality(accepts \ {a}) + 1
    BY <1>3, <2>1, FS_AddElement
  <2>3. QED
    BY <1>1, <2>1, <2>2, AcceptsAreFinite
<1>5. Handling' = Handling
  BY <1>1 DEF Handling
<1>6. TypeOK'
  BY <1>1, <1>2 DEF ListenerInv, TypeOK
<1>7. CallsAreTyped' /\ BuffersHoldSockets'
  BY <1>1, <1>2 DEF ListenerInv, CallsAreTyped, BuffersHoldSockets
<1>8. OneAcceptOfAContext' /\ AcceptsAreCounted'
  BY <1>1, <1>2, <1>4, <1>5 DEF ListenerInv, OneAcceptOfAContext, AcceptsAreCounted
<1>9. SocketsAreOwned'
  BY <1>1, <1>2 DEF ListenerInv, SocketsAreOwned
<1>10. QED
  BY <1>4, <1>6, <1>7, <1>8, <1>9 DEF ListenerInv

\* The worker takes the context over from the accept, and its socket, unless that is lost.
LEMMA ReadSocketKeeps ==
    ASSUME ListenerInv, NEW w \in Threads, NEW a \in accepts, ReadSocket(w, a)
    PROVE  ListenerInv'
<1> DEFINE held == buffer[a.ctx] = "socket"
           s == IF held THEN a.sock ELSE NoSocket
           d == Doing("join", a.ctx, s, a.state = "client")
<1>1. /\ thread[w] = Idle
      /\ accepts' = accepts \ {a}
      /\ thread' = [thread EXCEPT ![w] = d]
      /\ buffer' = IF held THEN [buffer EXCEPT ![a.ctx] = "read"] ELSE buffer
      /\ socket' = IF held THEN socket ELSE [socket EXCEPT ![a.sock] = "lost"]
      /\ UNCHANGED <<listener, told, baseTask, left, address, peer, clients, refusals>>
  BY DEF ReadSocket
<1>2. a \in Accepts /\ a.ctx \in Contexts /\ a.sock \in Sockets
  BY DEF ListenerInv, TypeOK, Accepts
<1>s. s = NoSocket \/ s = a.sock
  OBVIOUS
<1>3. /\ d \in ThreadStates /\ d.pc = "join" /\ d.ctx = a.ctx /\ d.sock = s
      /\ w \notin Handling
  BY <1>1, <1>2, <1>s DEF Doing, ThreadStates, Handling, Idle
<1> HIDE DEF d
<1>4. Handling' = Handling \cup {w}
  BY <1>1, <1>3, HandlingMoves
<1>5. IsFiniteSet(accepts') /\ AcceptsAreCounted'
  <2>1. IsFiniteSet(accepts') /\ Cardinality(accepts') = Cardinality(accepts) - 1
    BY <1>1, FS_RemoveElement DEF ListenerInv
  <2>2. Cardinality(Handling') = Cardinality(Handling) + 1
    BY <1>3, <1>4, HandlingGrows
  <2>3. baseTask' = Cardinality(accepts') + Cardinality(Handling')
    BY <1>1, <2>1, <2>2, HandlingIsFinite, AcceptsAreFinite DEF ListenerInv, AcceptsAreCounted
  <2>4. QED
    BY <1>1, <2>1, <2>3 DEF ListenerInv, AcceptsAreCounted
<1>6. TypeOK'
  BY <1>1, <1>2, <1>3 DEF ListenerInv, TypeOK
<1>7. CallsAreTyped'
  BY <1>1, <1>2, <1>3 DEF ListenerInv, TypeOK, CallsAreTyped
<1>8. BuffersHoldSockets'
  <2>1. \A x \in accepts' : x.ctx # a.ctx /\ x.ctx \in Contexts /\ x \in accepts
    BY <1>1 DEF ListenerInv, TypeOK, Accepts, OneAcceptOfAContext
  <2>2. \A x \in accepts' : buffer'[x.ctx] = buffer[x.ctx]
    BY <1>1, <2>1 DEF ListenerInv, TypeOK
  <2>3. QED
    BY <2>1, <2>2 DEF ListenerInv, BuffersHoldSockets
<1>9. OneAcceptOfAContext'
  BY <1>1, <1>3, <1>4 DEF ListenerInv, TypeOK, OneAcceptOfAContext, Handling
<1>10. SocketsAreOwned'
  <2>1. \A t \in Threads : thread'[t].sock = IF t = w THEN s ELSE thread[t].sock
    BY <1>1, <1>3 DEF ListenerInv, TypeOK
  <2>2. thread[w].sock = NoSocket
    BY <1>1 DEF Idle, Doing
  <2>3. /\ \A b \in accepts' : b.sock # a.sock
        /\ \A t \in Threads : thread[t].sock # a.sock
    BY <1>1 DEF ListenerInv, SocketsAreOwned
  <2>4. \A x \in Sockets : (\E b \in accepts : b.sock = x)
                             <=> x = a.sock \/ \E b \in accepts' : b.sock = x
    BY <1>1
  <2>5. \A x \in Sockets : socket'[x] = "created" <=>
          \/ \E b \in accepts' : b.sock = x
          \/ \E t \in Threads : thread'[t].sock = x
    <3>1. CASE held
      <4>1. s = a.sock /\ socket' = socket
        BY <1>1, <3>1
      <4>2. \A x \in Sockets : (\E t \in Threads : thread'[t].sock = x)
                                <=> x = a.sock \/ \E t \in Threads : thread[t].sock = x
        BY <2>1, <2>2, <4>1
      <4>3. QED
        BY <2>4, <4>1, <4>2 DEF ListenerInv, SocketsAreOwned
    <3>2. CASE ~ held
      <4>1. s = NoSocket /\ socket' = [socket EXCEPT ![a.sock] = "lost"]
        BY <1>1, <3>2
      <4>2. \A t \in Threads : thread'[t].sock = thread[t].sock
        BY <2>1, <2>2, <4>1
      <4>3. socket'[a.sock] = "lost" /\ \A x \in Sockets \ {a.sock} : socket'[x] = socket[x]
        BY <1>2, <4>1 DEF ListenerInv, TypeOK
      <4>4. QED
        BY <2>3, <2>4, <4>2, <4>3 DEF ListenerInv, SocketsAreOwned
    <3>3. QED
      BY <3>1, <3>2
  <2>6. \A b, e \in accepts' : b.sock = e.sock => b = e
    BY <1>1 DEF ListenerInv, SocketsAreOwned
  <2>7. \A t, u \in Threads :
          thread'[t].sock = thread'[u].sock /\ thread'[t].sock # NoSocket => t = u
    BY <1>s, <2>1, <2>3 DEF ListenerInv, SocketsAreOwned
  <2>8. \A b \in accepts', t \in Threads : thread'[t].sock # b.sock
    <3>1. \A b \in accepts' : b \in accepts /\ b.sock \in Sockets
      BY <1>1 DEF ListenerInv, TypeOK, Accepts
    <3>2. QED
      BY <1>s, <2>1, <2>3, <3>1 DEF ListenerInv, SocketsAreOwned
  <2>9. QED
    BY <2>5, <2>6, <2>7, <2>8 DEF SocketsAreOwned
<1>11. QED
  BY <1>5, <1>6, <1>7, <1>8, <1>9, <1>10 DEF ListenerInv

\* The socket, if the worker has it, is joined or closed, and the worker goes on with the context it has.
LEMMA FinishKeeps ==
    ASSUME ListenerInv, NEW w \in Threads, JoinClient(w) \/ DropSocket(w)
    PROVE  ListenerInv'
<1> DEFINE s == thread[w].sock
           d == Doing("accept", thread[w].ctx, NoSocket, FALSE)
<1>1. /\ thread[w].pc = "join"
      /\ \/ s = NoSocket /\ socket' = socket
         \/ s # NoSocket /\ \E st \in {"joined", "none"} : socket' = [socket EXCEPT ![s] = st]
      /\ thread' = [thread EXCEPT ![w] = d]
      /\ buffer' = [buffer EXCEPT ![thread[w].ctx] = "empty"]
      /\ UNCHANGED <<listener, told, baseTask, left, accepts, address, clients, refusals>>
  BY DEF JoinClient, DropSocket, SetSocket, PostAgain
<1>2. s \in Sockets \cup {NoSocket} /\ thread[w].ctx \in Contexts /\ w \in Handling
  BY <1>1 DEF ListenerInv, TypeOK, ThreadStates, CallsAreTyped, Handling
<1>3. peer' \in [Sockets -> Addresses]
  BY <1>2 DEF JoinClient, DropSocket, ListenerInv, TypeOK
<1>4. d \in ThreadStates /\ d.pc = "accept" /\ d.ctx = thread[w].ctx /\ d.sock = NoSocket
  BY <1>2 DEF Doing, ThreadStates
<1> HIDE DEF d
<1>5. Handling' = Handling
  <2>1. Handling' = Handling \cup {w}
    BY <1>1, <1>4, HandlingMoves
  <2>2. QED
    BY <1>2, <2>1
<1>6. TypeOK'
  BY <1>1, <1>2, <1>3, <1>4 DEF ListenerInv, TypeOK
<1>7. CallsAreTyped'
  BY <1>1, <1>2, <1>4 DEF ListenerInv, TypeOK, CallsAreTyped
<1>8. BuffersHoldSockets'
  BY <1>1, <1>2 DEF ListenerInv, TypeOK, BuffersHoldSockets, OneAcceptOfAContext
<1>9. OneAcceptOfAContext' /\ AcceptsAreCounted'
  <2>1. \A t \in Threads : thread'[t].ctx = thread[t].ctx
    BY <1>1, <1>4 DEF ListenerInv, TypeOK
  <2>2. Handling \subseteq Threads
    BY DEF Handling
  <2>3. QED
    BY <1>1, <1>5, <2>1, <2>2 DEF ListenerInv, OneAcceptOfAContext, AcceptsAreCounted
<1>10. SocketsAreOwned'
  <2>1. \A t \in Threads : thread'[t].sock = IF t = w THEN NoSocket ELSE thread[t].sock
    BY <1>1, <1>4 DEF ListenerInv, TypeOK
  <2>2. accepts' = accepts
    BY <1>1
  <2>3. \A x \in Sockets \ {s} : socket'[x] = socket[x]
    BY <1>1, <1>2 DEF ListenerInv, TypeOK
  <2>4. ASSUME s \in Sockets
        PROVE  /\ socket'[s] # "created"
               /\ \A t \in Threads \ {w} : thread[t].sock # s
               /\ \A a \in accepts : a.sock # s
    BY <1>1, <2>4 DEF ListenerInv, TypeOK, SocketsAreOwned
  <2>5. \A x \in Sockets : thread'[w].sock # x
    BY <2>1
  <2>6. \A x \in Sockets : socket'[x] = "created" <=>
          \/ \E a \in accepts : a.sock = x
          \/ \E t \in Threads : thread'[t].sock = x
    <3>1. TAKE x \in Sockets
    <3>2. CASE x = s
      <4>1. \A t \in Threads : thread'[t].sock # x
        BY <2>1, <2>4, <2>5, <3>2
      <4>2. QED
        BY <2>4, <3>2, <4>1
    <3>3. CASE x # s
      <4>1. \A t \in Threads : thread'[t].sock = x <=> thread[t].sock = x
        BY <2>1, <3>3
      <4>2. QED
        BY <2>3, <3>3, <4>1 DEF ListenerInv, SocketsAreOwned
    <3>4. QED
      BY <3>2, <3>3
  <2>7. QED
    BY <2>1, <2>2, <2>6 DEF ListenerInv, TypeOK, Accepts, SocketsAreOwned
<1>11. QED
  BY <1>1, <1>6, <1>7, <1>8, <1>9, <1>10 DEF ListenerInv

-----------------------------------------------------------------------------
(* The theorems *)

LEMMA NextListenerInv == ASSUME ListenerInv, [Next]_vars PROVE ListenerInv'
<1>1. Ctl \in Threads /\ Workers \subseteq Threads
  BY DEF Threads
<1>2. ASSUME NEW t \in Threads, Accept(t) PROVE ListenerInv'
  BY <1>2, RefuseAcceptKeeps, AcceptLaterKeeps, AcceptAtOnceKeeps, BeginAlignKeeps,
     ClearNextAcceptKeeps, ParseAddressKeeps DEF Accept, LateUse
<1>3. CASE CtlStep
  BY <1>1, <1>2, <1>3, ControllerKeeps, NewAcceptKeeps DEF CtlStep
<1>4. ASSUME NEW w \in Workers, WorkerStep(w) PROVE ListenerInv'
  BY <1>1, <1>2, <1>4, FinishKeeps, ReadSocketKeeps DEF WorkerStep
<1>5. CASE SystemStep
  <2>1. PICK a \in accepts : ClientConnects(a) \/ AcceptBreaks(a)
    BY <1>5 DEF SystemStep
  <2>2. clients' \in 0 .. MaxClients /\ refusals' \in 0 .. MaxRefusals
    BY <2>1 DEF ClientConnects, AcceptBreaks, ListenerInv, TypeOK
  <2>3. QED
    BY <2>1, <2>2, CompleteKeeps DEF ClientConnects, AcceptBreaks
<1>6. CASE UNCHANGED vars
  BY <1>6 DEF vars, ioVars, ctxVars, ListenerInv, TypeOK, CallsAreTyped, BuffersHoldSockets,
       OneAcceptOfAContext, SocketsAreOwned, AcceptsAreCounted, Handling
<1>7. QED
  BY <1>3, <1>4, <1>5, <1>6 DEF Next

\* The inductive invariant of the accept loop.
THEOREM ListenerInvariant == Spec => []ListenerInv
<1>1. Init => ListenerInv
  BY InitListenerInv
<1>2. ListenerInv /\ [Next]_vars => ListenerInv'
  BY NextListenerInv
<1>3. QED
  BY <1>1, <1>2, PTL DEF Spec

\* Every variable stays within its type.
THEOREM ListenerTypes == Spec => []TypeOK
BY ListenerInvariant, PTL DEF ListenerInv

\* The task count of the listener is the number of its accepts, at most AcceptWait.
THEOREM ListenerCounts == Spec => []AcceptsAreCounted
BY ListenerInvariant, PTL DEF ListenerInv

\* No context is in two accepts.
THEOREM ListenerContexts == Spec => []OneAcceptOfAContext
BY ListenerInvariant, PTL DEF ListenerInv

\* No socket that is made for a client is dropped or given to two, and it is lost only when a
\* late Align has cleared the buffer of its accept before the worker reads it.
THEOREM ListenerSockets == Spec => []SocketsAreOwned
BY ListenerInvariant, PTL DEF ListenerInv
=============================================================================
