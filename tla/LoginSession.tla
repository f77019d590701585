----------------------------- MODULE LoginSession -----------------------------
(***************************************************************************)
(* What the login server promises to each client, without its queues, threads *)
(* and tables: a client that asks is answered at most once, and one the server *)
(* has decided to close does go.                                              *)
(***************************************************************************)
CONSTANT Hosts   \* the connections of clients, by host ID

VARIABLES
    phase,   \* how far the client of each host has come
    notice   \* the hosts the server has decided to close

sessionVars == <<phase, notice>>

Phases == {"away", "connected", "asking", "answered", "gone"}

SessionInit ==
    /\ phase = [h \in Hosts |-> "away"]
    /\ notice = {}

MoveTo(h, p) == phase' = [phase EXCEPT ![h] = p]

Arrive(h) ==
    /\ phase[h] = "away"
    /\ MoveTo(h, "connected")
    /\ UNCHANGED notice

\* The first request of a client is looked up.
Ask(h) ==
    /\ phase[h] = "connected"
    /\ MoveTo(h, "asking")
    /\ UNCHANGED notice

Answer(h) ==
    /\ phase[h] = "asking"
    /\ MoveTo(h, "answered")
    /\ UNCHANGED notice

\* A look-up that was under way is not called off: it may still be answered.
GiveNotice(h) ==
    /\ phase[h] \in {"connected", "asking", "answered"}
    /\ notice' = notice \cup {h}
    /\ UNCHANGED phase

Leave(h) ==
    /\ phase[h] \in {"connected", "asking", "answered"}
    /\ MoveTo(h, "gone")
    /\ notice' = notice \ {h}

SessionNext == \E h \in Hosts : Arrive(h) \/ Ask(h) \/ Answer(h) \/ GiveNotice(h) \/ Leave(h)

\* A client may stay for ever, unless it has been given notice.
SessionSpec ==
    /\ SessionInit /\ [][SessionNext]_sessionVars
    /\ \A h \in Hosts : WF_sessionVars(h \in notice /\ Leave(h))

=============================================================================
