---------------------------- MODULE ServeProcess ----------------------------
(***************************************************************************)
(* The life of `rustarr serve` processes on one machine: each opens the    *)
(* shared log file, loads its configuration, binds the port, serves, and   *)
(* leaves by a signal or a crash.  `rustarr doctor` tries the same port,   *)
(* and other software may hold it.                                         *)
(*                                                                         *)
(* Abstractions.  A process is one run; a restart is another process.  A   *)
(* log record is its process and its number in that process.  Requests     *)
(* other than health probes are left out.  Of the doctor's checks only     *)
(* that of the port is modelled.                                           *)
(***************************************************************************)
EXTENDS Naturals, Sequences

CONSTANTS
  Procs,    \* the runs of `rustarr serve`
  Foreign,  \* other software that listens on the port
  Doctor,   \* the doctor, as the holder of the port
  Free,     \* nobody holds the port
  Reply,    \* Reply[f]: what the other software f makes of GET /health
  LogCap    \* LOG_FILE_MAX_BYTES, in records

States == {"UP", "DEGRADED", "DOWN"}

ASSUME ServeAssumption ==
  /\ LogCap \in Nat \ {0}
  /\ Free \notin Procs \cup Foreign /\ Doctor \notin Procs \cup Foreign
  /\ Free # Doctor /\ Procs \cap Foreign = {}
  /\ Reply \in [Foreign -> States]

VARIABLES
  stage,    \* stage[p]: how far the process p has come
  log,      \* the records in the log file
  logging,  \* the processes that have the file open
  wrote,    \* wrote[p]: the records p wrote to the file
  port,     \* who holds the port
  stalled,  \* the processes that do not get to answer
  doctor    \* what the doctor does, or what it said

logVars == <<log, logging, wrote>>
serveVars == <<stage, logVars, port, stalled, doctor>>

Stages == {"off", "full", "open", "config", "bind", "serve", "drain", "gone"}
Records == [proc : Procs, n : Nat]

ServeInit ==
  /\ stage = [p \in Procs |-> "off"]
  /\ log = <<>> /\ logging = {} /\ wrote = [p \in Procs |-> 0]
  /\ port = Free
  /\ stalled = {}
  /\ doctor = "idle"

Go(p, s) == stage' = [stage EXCEPT ![p] = s]

\* Whoever asks GET /health of the port's holder gets a success, another answer, or
\* none in time.
World ==
  CASE port \in Procs \ stalled -> "UP"
    [] port \in Foreign         -> Reply[port]
    [] OTHER                    -> "DOWN"

\* A record goes to the file of a process that has one, else to stderr only.
Record(p) ==
  \/ /\ p \in logging
     /\ log' = Append(log, [proc |-> p, n |-> wrote[p] + 1])
     /\ wrote' = [wrote EXCEPT ![p] = @ + 1]
     /\ UNCHANGED logging
  \/ p \notin logging /\ UNCHANGED logVars

(* Starting *)

\* truncate_log_if_needed finds the file over the cap or not; or the directory or
\* the file is not to be had, and the server starts with stderr only.
StatLog(p) ==
  /\ stage[p] = "off"
  /\ \/ Len(log) >= LogCap /\ Go(p, "full")
     \/ Len(log) < LogCap /\ Go(p, "open")
     \/ Go(p, "config")
  /\ UNCHANGED <<logVars, port, stalled, doctor>>

\* Mutant: the file is shortened to the cap instead of emptied.
BugTruncateLog(p) ==
  /\ stage[p] = "full"
  /\ Go(p, "open")
  /\ log' = SubSeq(log, 1, LogCap)
  /\ UNCHANGED <<logging, wrote, port, stalled, doctor>>
\* The file is emptied, whoever else is writing to it; if that fails, stderr only.
TruncateLog(p) ==
  /\ stage[p] = "full"
  /\ \/ Go(p, "open") /\ log' = <<>>
     \/ Go(p, "config") /\ UNCHANGED log
  /\ UNCHANGED <<logging, wrote, port, stalled, doctor>>

\* The file is opened for appending; if that fails, stderr only.
OpenLog(p) ==
  /\ stage[p] = "open"
  /\ Go(p, "config")
  /\ logging' = logging \cup {p} \/ UNCHANGED logging
  /\ UNCHANGED <<log, wrote, port, stalled, doctor>>

\* Config::load and build_state; "starting" is recorded when they succeed.
LoadConfig(p) ==
  /\ stage[p] = "config"
  /\ \/ Go(p, "bind") /\ Record(p)
     \/ Go(p, "gone") /\ UNCHANGED logVars
  /\ UNCHANGED <<port, stalled, doctor>>

\* The port is bound and "listening" recorded, or the process ends with the error:
\* the port is taken, or cannot be bound at all.
Bind(p) ==
  /\ stage[p] = "bind"
  /\ \/ port = Free /\ port' = p /\ Go(p, "serve") /\ Record(p)
     \/ Go(p, "gone") /\ UNCHANGED <<logVars, port>>
  /\ UNCHANGED <<stalled, doctor>>

(* Leaving *)

Vacate(h) == port' = (IF port = h THEN Free ELSE port)

\* SIGTERM or Ctrl-C: it is recorded, and no connection is accepted any more.
Signal(p) ==
  /\ stage[p] = "serve" /\ p \notin stalled
  /\ Go(p, "drain")
  /\ Record(p)
  /\ Vacate(p)
  /\ UNCHANGED <<stalled, doctor>>

\* The open connections are done.
Exit(p) ==
  /\ stage[p] = "drain" /\ p \notin stalled
  /\ Go(p, "gone")
  /\ UNCHANGED <<logVars, port, stalled, doctor>>

\* A crash, a SIGKILL, or a signal before the handlers are there.
Kill(p) ==
  /\ stage[p] \notin {"off", "gone"}
  /\ Go(p, "gone")
  /\ stalled' = stalled \ {p}
  /\ Vacate(p)
  /\ UNCHANGED <<logVars, doctor>>

\* A serving process stops getting anything done for a time.
Stall(p) ==
  /\ stage[p] \in {"serve", "drain"} /\ p \notin stalled
  /\ stalled' = stalled \cup {p}
  /\ UNCHANGED <<stage, logVars, port, doctor>>

Resume(p) ==
  /\ p \in stalled
  /\ stalled' = stalled \ {p}
  /\ UNCHANGED <<stage, logVars, port, doctor>>

ForeignTakes ==
  /\ port = Free /\ port' \in Foreign
  /\ UNCHANGED <<stage, logVars, stalled, doctor>>

ForeignLeaves ==
  /\ port \in Foreign /\ port' = Free
  /\ UNCHANGED <<stage, logVars, stalled, doctor>>

(* check_port_available *)

\* The doctor binds the port itself, or asks who has it: any error of the bind,
\* that it may not bind this port or that the host does not resolve, sends it there.
DoctorBinds ==
  /\ doctor \in {"idle", "pass", "fail"}
  /\ \/ port = Free /\ port' = Doctor /\ doctor' = "holds"
     \/ doctor' = "probes" /\ UNCHANGED port
  /\ UNCHANGED <<stage, logVars, stalled>>

DoctorReleases ==
  /\ doctor = "holds"
  /\ port' = Free
  /\ doctor' = "pass"
  /\ UNCHANGED <<stage, logVars, stalled>>

\* Whoever answers with success passes for a running server.
DoctorProbes ==
  /\ doctor = "probes"
  /\ doctor' = IF World = "UP" THEN "pass" ELSE "fail"
  /\ UNCHANGED <<stage, logVars, port, stalled>>

ServeTypeOK ==
  /\ stage \in [Procs -> Stages]
  /\ log \in Seq(Records)
  /\ logging \subseteq Procs
  /\ wrote \in [Procs -> Nat]
  /\ port \in Procs \cup Foreign \cup {Free, Doctor}
  /\ stalled \subseteq Procs
  /\ doctor \in {"idle", "holds", "probes", "pass", "fail"}
-----------------------------------------------------------------------------
\* What the file holds of a process that writes to it are its newest records, all
\* of them from some point on and in order, whoever truncated the file meanwhile
\* (truncate_log_if_needed and the append mode of init).
LogKeepsTheNewest ==
  \A p \in logging :
    LET mine == {i \in DOMAIN log : log[i].proc = p}
    IN /\ \A i, j \in mine : i < j => log[i].n < log[j].n
       /\ \A i \in mine : \A n \in log[i].n..wrote[p] : \E j \in mine : log[j].n = n
=============================================================================
