----------------------------- MODULE HealthWatch -----------------------------
(***************************************************************************)
(* `rustarr watch` polling the port on which the processes of ServeProcess *)
(* come and go.                                                            *)
(*                                                                         *)
(* Abstractions.  A poll is one connection; a refused connection is one    *)
(* that is lost at once.  Whether a connection is new or kept alive is     *)
(* left out, as are the codes of a DEGRADED answer.  A probe times out     *)
(* only while the server it waits for is stalled.                          *)
(***************************************************************************)
EXTENDS ServeProcess

ASSUME WatchAssumption ==
  {"none", "lost"} \cap (Procs \cup Foreign \cup {Free, Doctor}) = {}

VARIABLES
  conn,   \* who the poll waits for, "none" between two polls, "lost" without a hope
  said,   \* last_state, "nothing" before the first line
  since   \* the states the server was in since the poll began

watchVars == <<conn, said, since>>
vars == <<serveVars, watchVars>>

Init ==
  /\ ServeInit
  /\ conn = "none" /\ said = "nothing" /\ since = {World}

\* A poll begins: the connection is made or refused.
Poll ==
  /\ conn = "none"
  /\ conn' = IF port = Free THEN "lost" ELSE port
  /\ since' = {World}
  /\ UNCHANGED <<serveVars, said>>

\* Mutant: the state is printed but not remembered.
BugConclude(state) == conn' = "none" /\ UNCHANGED <<serveVars, said, since>>
\* The poll ends with a state, which is printed if it is news.
Conclude(state) ==
  /\ conn' = "none" /\ said' = state
  /\ UNCHANGED <<serveVars, since>>

\* Mutant: any answer is taken for success.
BugAnswer ==
  \/ conn \in Procs \ stalled /\ Conclude("UP")
  \/ conn \in Foreign /\ Conclude("UP")
\* What the process or the other software answers; software that speaks no HTTP
\* gives an error.
Answer ==
  \/ conn \in Procs \ stalled /\ Conclude("UP")
  \/ conn \in Foreign /\ Conclude(Reply[conn])

\* The connection is refused or reset.
Lost == conn = "lost" /\ Conclude("DOWN")

Timeout == conn \in stalled /\ Conclude("DOWN")

\* Mutant: the process exits without waiting for its open connections.
BugServing ==
  /\ \E p \in Procs :
       \/ StatLog(p) \/ TruncateLog(p) \/ OpenLog(p) \/ LoadConfig(p) \/ Bind(p)
       \/ Signal(p) \/ Stall(p) \/ Resume(p) \/ Exit(p)
  /\ UNCHANGED conn
\* The servers move and the connection lasts; an exit waits for it.
Serving ==
  /\ \E p \in Procs :
       \/ StatLog(p) \/ TruncateLog(p) \/ OpenLog(p) \/ LoadConfig(p) \/ Bind(p)
       \/ Signal(p) \/ Stall(p) \/ Resume(p)
       \/ conn # p /\ Exit(p)
  /\ UNCHANGED conn

\* Whoever goes takes the connection along, a shutdown one not yet accepted.
Leaving ==
  \E h \in Procs \cup Foreign \cup {Doctor} :
    /\ \/ h \in Procs /\ (Kill(h) \/ Signal(h))
       \/ h = port /\ ForeignLeaves
       \/ h = Doctor /\ DoctorReleases
    /\ conn' = IF conn = h THEN "lost" ELSE conn

Others == (ForeignTakes \/ DoctorBinds \/ DoctorProbes) /\ UNCHANGED conn

Environment ==
  /\ Serving \/ Leaving \/ Others
  /\ since' = since \cup {World'}
  /\ UNCHANGED said

Probing == Answer \/ Lost \/ Timeout

Next == Poll \/ Probing \/ Environment

\* The watch's timer and the network run, and the doctor gives the port back.
Fairness ==
  /\ WF_vars(Poll) /\ WF_vars(Probing)
  /\ WF_vars(Environment /\ doctor = "holds" /\ doctor' = "pass")

Spec == Init /\ [][Next]_vars /\ Fairness
-----------------------------------------------------------------------------
TypeOK ==
  /\ ServeTypeOK
  /\ conn \in {"none", "lost"} \cup Procs \cup Foreign \cup {Doctor}
  /\ said \in States \cup {"nothing"}
  /\ since \subseteq States
  /\ conn \in Procs => stage[conn] \in {"serve", "drain"}

Feed == INSTANCE HealthFeed WITH world <- World, Nothing <- "nothing"

\* Every line tells of a state that the server was in while the poll ran, across
\* crashes, restarts, graceful shutdowns, other software on the port and the
\* doctor's own bind (run_watch, probe).
ImplementsFeed == Feed!Spec

\* A state that lasts is reported, and is the last that was (run_watch).
WatchSettles == \A state \in States : <>[](World = state) => <>[](said = state)
=============================================================================
