-------------------------- MODULE HealthWatchProofs --------------------------
(***************************************************************************)
(* Theorems about ServeProcess and HealthWatch for any number of processes *)
(* and any cap of the log: the log keeps the newest records of everyone    *)
(* who writes to it, and the watch implements HealthFeed.                  *)
(***************************************************************************)
EXTENDS HealthWatch, TLAPS

\* Who has the port, and who may be stalled.
Ports ==
  /\ \A p \in Procs : stage[p] = "serve" <=> port = p
  /\ port = Doctor <=> doctor = "holds"
  /\ \A p \in stalled : stage[p] \in {"serve", "drain"}

\* The records of p in the file: in order, none missing after the first, none newer
\* than the last written.
Newest(p) ==
  /\ \A i, j \in DOMAIN log :
        log[i].proc = p /\ log[j].proc = p /\ i < j => log[i].n < log[j].n
  /\ \A i \in DOMAIN log : log[i].proc = p =>
        /\ log[i].n <= wrote[p]
        /\ \A n \in log[i].n..wrote[p] :
              \E j \in DOMAIN log : log[j].proc = p /\ log[j].n = n

LogInv ==
  \A p \in Procs :
    /\ Newest(p)
    /\ p \notin logging => wrote[p] = 0 /\ \A i \in DOMAIN log : log[i].proc # p

ServeInv == ServeTypeOK /\ Ports /\ LogInv

ServeStep ==
  \/ \E p \in Procs :
       \/ StatLog(p) \/ TruncateLog(p) \/ OpenLog(p) \/ LoadConfig(p) \/ Bind(p)
       \/ Signal(p) \/ Exit(p) \/ Kill(p) \/ Stall(p) \/ Resume(p)
  \/ ForeignTakes \/ ForeignLeaves
  \/ DoctorBinds \/ DoctorReleases \/ DoctorProbes

-----------------------------------------------------------------------------
LEMMA WorldTyped == World \in States
BY ServeAssumption DEF World, States

LEMMA ServeInitHolds == ServeInit => ServeInv
BY ServeAssumption
   DEF ServeInit, ServeInv, ServeTypeOK, Stages, Records, Ports, LogInv, Newest

\* A record extends what the file keeps of its writer and of nobody else.
LEMMA RecordKeeps ==
  ASSUME ServeTypeOK, LogInv, NEW p \in Procs, Record(p)
  PROVE  /\ log' \in Seq(Records) /\ logging' \subseteq Procs /\ wrote' \in [Procs -> Nat]
         /\ LogInv'
<1>1. CASE p \notin logging /\ UNCHANGED logVars
  BY <1>1 DEF logVars, ServeTypeOK, LogInv, Newest
<1>2. CASE /\ p \in logging
           /\ log' = Append(log, [proc |-> p, n |-> wrote[p] + 1])
           /\ wrote' = [wrote EXCEPT ![p] = @ + 1]
           /\ UNCHANGED logging
  <2>1. /\ log \in Seq(Records) /\ wrote \in [Procs -> Nat] /\ logging \subseteq Procs
        /\ wrote[p] \in Nat
    BY DEF ServeTypeOK
  <2>2. [proc |-> p, n |-> wrote[p] + 1] \in Records
    BY <2>1 DEF Records
  <2>3. log' \in Seq(Records) /\ logging' \subseteq Procs /\ wrote' \in [Procs -> Nat]
    BY <1>2, <2>1, <2>2
  <2>4. /\ Len(log) \in Nat /\ DOMAIN log = 1..Len(log)
        /\ DOMAIN log' = 1..(Len(log) + 1)
        /\ \A i \in 1..Len(log) : log'[i] = log[i]
        /\ log'[Len(log) + 1].proc = p /\ log'[Len(log) + 1].n = wrote[p] + 1
    <3>1. PICK r \in Records : r.proc = p /\ r.n = wrote[p] + 1 /\ log' = Append(log, r)
      BY <1>2, <2>2
    <3>2. Len(log) \in Nat /\ DOMAIN log = 1..Len(log)
      BY <2>1
    <3>3. DOMAIN log' = 1..(Len(log) + 1) /\ log'[Len(log) + 1] = r
          /\ \A i \in 1..Len(log) : log'[i] = log[i]
      BY <2>1, <3>1
    <3>4. QED
      BY <3>1, <3>2, <3>3
  <2>5. wrote'[p] = wrote[p] + 1 /\ \A q \in Procs : q # p => wrote'[q] = wrote[q]
    BY <1>2, <2>1
  <2>6. \A i \in DOMAIN log : log[i].n \in Nat
    <3>1. \A i \in DOMAIN log : log[i] \in Records
      BY <2>1
    <3>2. QED
      BY <3>1 DEF Records
  <2>7. LogInv'
    <3>1. SUFFICES ASSUME NEW q \in Procs
                   PROVE  /\ Newest(q)'
                          /\ q \notin logging' =>
                               wrote'[q] = 0 /\ \A i \in DOMAIN log' : log'[i].proc # q
      BY DEF LogInv
    <3>2. Newest(q) /\ (q \notin logging => wrote[q] = 0 /\ \A i \in DOMAIN log : log[i].proc # q)
      BY DEF LogInv
    <3>3. CASE q # p
      <4>1. /\ wrote'[q] = wrote[q] /\ log'[Len(log) + 1].proc # q
        BY <2>4, <2>5, <3>3
      <4>2. \A i \in DOMAIN log' : log'[i].proc = q => i \in DOMAIN log /\ log'[i] = log[i]
        BY <2>4, <4>1
      <4>3. \A i \in DOMAIN log : i \in DOMAIN log' /\ log'[i] = log[i]
        BY <2>4
      <4>4. Newest(q)'
        BY <3>2, <4>1, <4>2, <4>3 DEF Newest
      <4>5. QED
        BY <1>2, <3>2, <4>1, <4>2, <4>4
    <3>4. CASE q = p
      <4>1. \A i, j \in DOMAIN log' :
              log'[i].proc = p /\ log'[j].proc = p /\ i < j => log'[i].n < log'[j].n
        <5>1. SUFFICES ASSUME NEW i \in DOMAIN log', NEW j \in DOMAIN log',
                              log'[i].proc = p, log'[j].proc = p, i < j
                       PROVE  log'[i].n < log'[j].n
          OBVIOUS
        <5>2. i \in DOMAIN log /\ log'[i] = log[i]
          BY <2>4, <5>1
        <5>3. CASE j \in DOMAIN log
          BY <2>4, <3>2, <3>4, <5>1, <5>2, <5>3 DEF Newest
        <5>4. CASE j = Len(log) + 1
          <6>1. log[i].n <= wrote[p] /\ log[i].n \in Nat
            BY <2>6, <3>2, <3>4, <5>1, <5>2 DEF Newest
          <6>2. log'[j].n = wrote[p] + 1
            BY <2>4, <5>4
          <6>3. QED
            BY <2>1, <5>2, <6>1, <6>2
        <5>5. QED
          BY <2>4, <5>3, <5>4
      <4>2. \A i \in DOMAIN log' : log'[i].proc = p =>
              /\ log'[i].n <= wrote'[p]
              /\ \A n \in log'[i].n..wrote'[p] :
                    \E j \in DOMAIN log' : log'[j].proc = p /\ log'[j].n = n
        <5>1. SUFFICES ASSUME NEW i \in DOMAIN log', log'[i].proc = p
                       PROVE  /\ log'[i].n <= wrote'[p]
                              /\ \A n \in log'[i].n..wrote'[p] :
                                    \E j \in DOMAIN log' : log'[j].proc = p /\ log'[j].n = n
          OBVIOUS
        <5>2. /\ Len(log) + 1 \in DOMAIN log'
              /\ log'[Len(log) + 1].proc = p /\ log'[Len(log) + 1].n = wrote'[p]
          BY <2>4, <2>5
        <5>3. CASE i = Len(log) + 1
          <6>1. log'[i].n = wrote'[p] /\ wrote'[p] \in Nat
            BY <2>1, <2>5, <5>2, <5>3
          <6>2. \A n \in log'[i].n..wrote'[p] : n = wrote'[p]
            BY <6>1
          <6>3. QED
            BY <5>2, <6>1, <6>2
        <5>4. CASE i \in DOMAIN log
          <6>1. log'[i] = log[i] /\ log[i].proc = p /\ log[i].n \in Nat
            BY <2>4, <2>6, <5>1, <5>4
          <6>2. log[i].n <= wrote[p]
                /\ \A n \in log[i].n..wrote[p] :
                      \E j \in DOMAIN log : log[j].proc = p /\ log[j].n = n
            BY <3>2, <3>4, <5>4, <6>1 DEF Newest
          <6>3. \A n \in log'[i].n..wrote'[p] : n \in log[i].n..wrote[p] \/ n = wrote'[p]
            BY <2>1, <2>5, <6>1
          <6>4. \A j \in DOMAIN log : j \in DOMAIN log' /\ log'[j] = log[j]
            BY <2>4
          <6>5. log'[i].n <= wrote'[p]
            BY <2>1, <2>5, <6>1, <6>2
          <6>6. QED
            BY <5>2, <6>2, <6>3, <6>4, <6>5
        <5>5. QED
          BY <2>4, <5>3, <5>4
      <4>3. Newest(p)'
        BY <4>1, <4>2 DEF Newest
      <4>4. QED
        BY <1>2, <3>4, <4>3
    <3>5. QED
      BY <3>3, <3>4
  <2>8. QED
    BY <2>3, <2>7
<1>3. QED
  BY <1>1, <1>2 DEF Record

LEMMA EmptyKeeps ==
  ASSUME ServeTypeOK, LogInv, log' = <<>>, UNCHANGED <<logging, wrote>>
  PROVE  LogInv' /\ log' \in Seq(Records)
BY DEF LogInv, Newest, ServeTypeOK

LEMMA SameLog ==
  ASSUME LogInv, UNCHANGED logVars
  PROVE  LogInv'
BY DEF LogInv, Newest, logVars

\* Every step of the processes, of other software and of the doctor keeps the
\* invariant.
LEMMA ServeStepKeeps == ASSUME ServeInv, ServeStep PROVE ServeInv'
<1> USE DEF ServeInv
<1>1. ASSUME NEW p \in Procs, StatLog(p) PROVE ServeInv'
  <2>1. ServeTypeOK' /\ Ports'
    BY <1>1, ServeAssumption
       DEF StatLog, Go, ServeTypeOK, Ports, Stages, logVars
  <2>2. LogInv'
    BY <1>1, SameLog DEF StatLog
  <2>3. QED
    BY <2>1, <2>2
<1>2. ASSUME NEW p \in Procs, TruncateLog(p) PROVE ServeInv'
  <2>1. LogInv' /\ log' \in Seq(Records)
    <3>1. CASE log' = <<>>
      BY <1>2, <3>1, EmptyKeeps DEF TruncateLog
    <3>2. CASE UNCHANGED log
      BY <1>2, <3>2, SameLog DEF TruncateLog, logVars, ServeTypeOK
    <3>3. QED
      BY <1>2, <3>1, <3>2 DEF TruncateLog
  <2>2. ServeTypeOK' /\ Ports'
    BY <1>2, <2>1, ServeAssumption
       DEF TruncateLog, Go, ServeTypeOK, Ports, Stages
  <2>3. QED
    BY <2>1, <2>2
<1>3. ASSUME NEW p \in Procs, OpenLog(p) PROVE ServeInv'
  <2>1. ServeTypeOK' /\ Ports'
    BY <1>3, ServeAssumption
       DEF OpenLog, Go, ServeTypeOK, Ports, Stages
  <2>2. LogInv'
    BY <1>3 DEF OpenLog, LogInv, Newest, ServeTypeOK
  <2>3. QED
    BY <2>1, <2>2
<1>4. ASSUME NEW p \in Procs, LoadConfig(p) PROVE ServeInv'
  <2>1. /\ log' \in Seq(Records) /\ logging' \subseteq Procs /\ wrote' \in [Procs -> Nat]
        /\ LogInv'
    <3>1. CASE Record(p)
      BY <3>1, RecordKeeps
    <3>2. CASE UNCHANGED logVars
      BY <3>2, SameLog DEF logVars, ServeTypeOK
    <3>3. QED
      BY <1>4, <3>1, <3>2 DEF LoadConfig
  <2>2. stage' \in [Procs -> Stages] /\ stage[p] = "config"
        /\ \A q \in Procs : stage'[q] = "serve" <=> stage[q] = "serve"
    BY <1>4 DEF LoadConfig, Go, ServeTypeOK, Stages
  <2>3. \A q \in stalled : stage'[q] = stage[q]
    BY <1>4 DEF LoadConfig, Go, ServeTypeOK, Stages, Ports
  <2>4. ServeTypeOK' /\ Ports'
    BY <1>4, <2>1, <2>2, <2>3
       DEF LoadConfig, ServeTypeOK, Ports
  <2>5. QED
    BY <2>1, <2>4
<1>5. ASSUME NEW p \in Procs, Bind(p) PROVE ServeInv'
  <2>1. /\ log' \in Seq(Records) /\ logging' \subseteq Procs /\ wrote' \in [Procs -> Nat]
        /\ LogInv'
    <3>1. CASE Record(p)
      BY <3>1, RecordKeeps
    <3>2. CASE UNCHANGED logVars
      BY <3>2, SameLog DEF logVars, ServeTypeOK
    <3>3. QED
      BY <1>5, <3>1, <3>2 DEF Bind
  <2>2. CASE port = Free /\ port' = p /\ Go(p, "serve")
    BY <1>5, <2>1, <2>2, ServeAssumption
       DEF Bind, Go, ServeTypeOK, Ports, Stages
  <2>3. CASE Go(p, "gone") /\ UNCHANGED port
    BY <1>5, <2>1, <2>3, ServeAssumption
       DEF Bind, Go, ServeTypeOK, Ports, Stages
  <2>4. QED
    BY <1>5, <2>2, <2>3 DEF Bind
<1>6. ASSUME NEW p \in Procs, Signal(p) PROVE ServeInv'
  <2>1. /\ log' \in Seq(Records) /\ logging' \subseteq Procs /\ wrote' \in [Procs -> Nat]
        /\ LogInv'
    BY <1>6, RecordKeeps DEF Signal
  <2>2. port = p /\ port' = Free
    BY <1>6 DEF Signal, Vacate, Ports
  <2>3. ServeTypeOK' /\ Ports'
    BY <1>6, <2>1, <2>2, ServeAssumption
       DEF Signal, Go, ServeTypeOK, Ports, Stages
  <2>4. QED
    BY <2>1, <2>3
<1>7. ASSUME NEW p \in Procs, Exit(p) PROVE ServeInv'
  <2>1. ServeTypeOK' /\ Ports'
    BY <1>7, ServeAssumption
       DEF Exit, Go, ServeTypeOK, Ports, Stages, logVars
  <2>2. QED
    BY <1>7, <2>1, SameLog DEF Exit
<1>8. ASSUME NEW p \in Procs, Kill(p) PROVE ServeInv'
  <2>1. stage' = [stage EXCEPT ![p] = "gone"] /\ stalled' = stalled \ {p} /\ UNCHANGED doctor
        /\ UNCHANGED logVars
    BY <1>8 DEF Kill, Go
  <2>2. CASE port = p
    BY <1>8, <2>1, <2>2, SameLog, ServeAssumption
       DEF Kill, Vacate, ServeTypeOK, Ports, Stages, logVars
  <2>3. CASE port # p
    <3>1. UNCHANGED port
      BY <1>8, <2>1, <2>3 DEF Kill, Vacate
    <3>2. QED
      BY <2>1, <2>3, <3>1, SameLog, ServeAssumption
         DEF ServeTypeOK, Ports, Stages, logVars
  <2>4. QED
    BY <2>2, <2>3
<1>9. ASSUME NEW p \in Procs, Stall(p) \/ Resume(p) PROVE ServeInv'
  <2>1. ServeTypeOK' /\ Ports'
    BY <1>9 DEF Stall, Resume, ServeTypeOK, Ports, logVars
  <2>2. LogInv'
    BY <1>9, SameLog DEF Stall, Resume
  <2>3. QED
    BY <2>1, <2>2
<1>10. ASSUME ForeignTakes \/ ForeignLeaves PROVE ServeInv'
  <2>1. ServeTypeOK' /\ Ports'
    BY <1>10, ServeAssumption
       DEF ForeignTakes, ForeignLeaves, ServeTypeOK, Ports, logVars
  <2>2. QED
    BY <1>10, <2>1, SameLog DEF ForeignTakes, ForeignLeaves
<1>11. ASSUME DoctorBinds \/ DoctorReleases \/ DoctorProbes PROVE ServeInv'
  <2>1. ServeTypeOK' /\ Ports'
    BY <1>11, ServeAssumption
       DEF DoctorBinds, DoctorReleases, DoctorProbes, ServeTypeOK, Ports, logVars
  <2>2. QED
    BY <1>11, <2>1, SameLog DEF DoctorBinds, DoctorReleases, DoctorProbes
<1>12. QED
  BY <1>1, <1>2, <1>3, <1>4, <1>5, <1>6, <1>7, <1>8, <1>9, <1>10, <1>11 DEF ServeStep
-----------------------------------------------------------------------------
\* A poll waits for the holder of the port, or for a server that is shutting down
\* and has answered and refused since the poll began.
Conns ==
  /\ World \in since
  /\ conn \in Procs =>
       \/ port = conn
       \/ stage[conn] = "drain" /\ {"UP", "DOWN"} \subseteq since
  /\ conn \in Foreign \cup {Doctor} => port = conn
  /\ conn = "lost" => "DOWN" \in since

HInv == TypeOK /\ ServeInv /\ Conns

LEMMA HInitHolds == Init => HInv
BY ServeInitHolds, WorldTyped, ServeAssumption, WatchAssumption
   DEF Init, HInv, TypeOK, ServeInv, Conns, States

LEMMA ServeSame == ASSUME ServeInv, UNCHANGED serveVars PROVE ServeInv' /\ World' = World
<1>1. World' = World
  BY DEF serveVars, World
<1>2. LogInv'
  BY SameLog DEF ServeInv, serveVars
<1>3. ServeTypeOK' /\ Ports'
  BY <1>1 DEF ServeInv, ServeTypeOK, Ports, serveVars, logVars
<1>4. QED
  BY <1>1, <1>2, <1>3 DEF ServeInv

LEMMA EnvironmentServes == Environment => ServeStep
BY DEF Environment, Serving, Leaving, Others, ServeStep

LEMMA PollKeeps == ASSUME HInv, Poll PROVE HInv' /\ Feed!Begin
<1>1. ServeInv' /\ World' = World
  BY ServeSame DEF Poll, HInv
<1>2. since' = {World} /\ conn' = (IF port = Free THEN "lost" ELSE port)
      /\ port' = port /\ stage' = stage /\ said' = said
  BY DEF Poll, serveVars
<1>3. port \in Procs \cup Foreign \cup {Free, Doctor}
  BY DEF HInv, TypeOK, ServeTypeOK
<1>4. Conns'
  BY <1>1, <1>2, <1>3, ServeAssumption, WatchAssumption DEF Conns, World
<1>5. TypeOK'
  BY <1>1, <1>2, <1>3, WorldTyped, WatchAssumption DEF HInv, TypeOK, ServeInv, Ports
<1>6. QED
  BY <1>1, <1>2, <1>4, <1>5 DEF HInv, Feed!Begin

\* A poll that ends tells of a state the server was in while it ran.
LEMMA ProbingTrue == ASSUME HInv, Probing PROVE said' \in since
<1>1. CASE conn \in Procs \ stalled /\ Conclude("UP")
  <2>1. CASE port = conn
    <3>1. World = "UP"
      BY <1>1, <2>1, ServeAssumption DEF World
    <3>2. QED
      BY <1>1, <3>1 DEF HInv, Conns, Conclude
  <2>2. CASE port # conn
    <3>1. "UP" \in since
      BY <1>1, <2>2 DEF HInv, Conns
    <3>2. QED
      BY <1>1, <3>1 DEF Conclude
  <2>3. QED
    BY <2>1, <2>2
<1>2. CASE conn \in Foreign /\ Conclude(Reply[conn])
  <2>1. World = Reply[conn]
    BY <1>2, ServeAssumption DEF HInv, Conns, World
  <2>2. QED
    BY <1>2, <2>1 DEF HInv, Conns, Conclude
<1>3. CASE Lost
  BY <1>3 DEF HInv, Conns, Lost, Conclude
<1>4. CASE Timeout
  <2>1. conn \in Procs /\ conn \in stalled /\ said' = "DOWN"
    BY <1>4 DEF HInv, TypeOK, ServeTypeOK, Timeout, Conclude
  <2>2. CASE port = conn
    <3>1. World = "DOWN"
      BY <2>1, <2>2, ServeAssumption DEF World
    <3>2. QED
      BY <2>1, <3>1 DEF HInv, Conns
  <2>3. QED
    BY <2>1, <2>2 DEF HInv, Conns
<1>5. QED
  BY <1>1, <1>2, <1>3, <1>4 DEF Probing, Answer

LEMMA ProbingKeeps == ASSUME HInv, Probing PROVE HInv' /\ (Feed!Report \/ UNCHANGED Feed!feedVars)
<1>1. ServeInv' /\ World' = World /\ since' = since /\ conn' = "none"
  BY ServeSame DEF Probing, Answer, Lost, Timeout, Conclude, HInv
<1>2. said' \in since
  BY ProbingTrue
<1>3. TypeOK' /\ Conns'
  BY <1>1, <1>2, WatchAssumption DEF HInv, TypeOK, ServeInv, Conns, States
<1>4. QED
  BY <1>1, <1>2, <1>3 DEF HInv, Feed!Report, Feed!feedVars

\* The servers move; the poll goes on with the one it waits for or has lost it.
LEMMA EnvironmentKeeps == ASSUME HInv, Environment PROVE HInv' /\ Feed!Change
<1>1. ServeInv'
  BY ServeStepKeeps, EnvironmentServes DEF HInv
<1>2. since' = since \cup {World'} /\ said' = said /\ World' \in States /\ World \in since
  <2>1. World' \in States
    BY ServeAssumption DEF World, States
  <2>2. QED
    BY <2>1 DEF Environment, HInv, Conns
<1>3. conn' \in {conn, "lost"}
  BY DEF Environment, Serving, Leaving, Others
<1>4. "DOWN" \in since' \/ conn' # "lost"
  <2>1. CASE conn' = conn
    BY <1>2, <2>1 DEF HInv, Conns
  <2>2. CASE Leaving /\ conn' # conn
    <3>1. PICK h \in Procs \cup Foreign \cup {Doctor} :
            /\ \/ h \in Procs /\ (Kill(h) \/ Signal(h))
               \/ h = port /\ ForeignLeaves
               \/ h = Doctor /\ DoctorReleases
            /\ conn = h
      BY <2>2 DEF Leaving
    <3>2. CASE port = h
      <4>1. port' = Free
        BY <3>1, <3>2 DEF Kill, Signal, Vacate, ForeignLeaves, DoctorReleases
      <4>2. World' = "DOWN"
        BY <4>1, ServeAssumption DEF World
      <4>3. QED
        BY <1>2, <4>2
    <3>3. CASE port # h
      <4>1. h \in Procs /\ "DOWN" \in since
        BY <3>1, <3>3 DEF HInv, Conns
      <4>2. QED
        BY <1>2, <4>1
    <3>4. QED
      BY <3>2, <3>3
  <2>3. QED
    BY <2>1, <2>2 DEF Environment, Serving, Others
<1>5. ASSUME conn' = conn, conn \in Procs
      PROVE  port' = conn \/ (stage'[conn] = "drain" /\ {"UP", "DOWN"} \subseteq since')
  <2>1. stage \in [Procs -> Stages] /\ Ports
        /\ (port = conn \/ (stage[conn] = "drain" /\ {"UP", "DOWN"} \subseteq since))
    BY <1>5 DEF HInv, TypeOK, ServeTypeOK, ServeInv, Conns
  <2>2. ASSUME NEW p \in Procs, Signal(p)
        PROVE  port' = conn \/ (stage'[conn] = "drain" /\ {"UP", "DOWN"} \subseteq since')
    <3>1. stage[p] = "serve" /\ p \notin stalled /\ stage' = [stage EXCEPT ![p] = "drain"]
          /\ port = p /\ port' = Free
      BY <2>1, <2>2 DEF Signal, Go, Vacate, Ports
    <3>2. World = "UP" /\ World' = "DOWN"
      BY <3>1, ServeAssumption DEF World
    <3>3. stage'[conn] = "drain" /\ (conn # p => stage[conn] = "drain")
      BY <2>1, <3>1, <1>5
    <3>4. QED
      BY <1>2, <2>1, <3>2, <3>3
  <2>3. ASSUME NEW p \in Procs,
               \/ StatLog(p) \/ TruncateLog(p) \/ OpenLog(p) \/ LoadConfig(p) \/ Bind(p)
               \/ Stall(p) \/ Resume(p) \/ (conn # p /\ Exit(p)) \/ (conn # p /\ Kill(p))
        PROVE  (port = conn => port' = conn) /\ (stage[conn] = "drain" => stage'[conn] = "drain")
    <3>1. port = conn => port' = conn
      BY <1>5, <2>3, ServeAssumption
         DEF StatLog, TruncateLog, OpenLog, LoadConfig, Bind, Stall, Resume, Exit, Kill, Vacate
    <3>2. stage[conn] = "drain" => stage'[conn] = "drain"
      BY <1>5, <2>1, <2>3
         DEF StatLog, TruncateLog, OpenLog, LoadConfig, Bind, Stall, Resume, Exit, Kill, Go
    <3>3. QED
      BY <3>1, <3>2
  <2>4. ASSUME ForeignTakes \/ ForeignLeaves \/ DoctorBinds \/ DoctorReleases \/ DoctorProbes
        PROVE  (port = conn => port' = conn) /\ stage' = stage
    BY <1>5, <2>1, <2>4, ServeAssumption
       DEF ForeignTakes, ForeignLeaves, DoctorBinds, DoctorReleases, DoctorProbes, Ports
  <2>5. \/ \E p \in Procs : Signal(p)
        \/ \E p \in Procs :
              \/ StatLog(p) \/ TruncateLog(p) \/ OpenLog(p) \/ LoadConfig(p) \/ Bind(p)
              \/ Stall(p) \/ Resume(p) \/ (conn # p /\ Exit(p)) \/ (conn # p /\ Kill(p))
        \/ ForeignTakes \/ ForeignLeaves \/ DoctorBinds \/ DoctorReleases \/ DoctorProbes
    BY <1>5, WatchAssumption DEF Environment, Serving, Leaving, Others
  <2>6. QED
    BY <1>2, <2>1, <2>2, <2>3, <2>4, <2>5
<1>6. ASSUME conn' = conn, conn \in Foreign \cup {Doctor} PROVE port' = conn
  <2>1. port = conn /\ Ports
    BY <1>6, ServeAssumption DEF HInv, ServeInv, Conns
  <2>2. \/ \E p \in Procs :
              \/ StatLog(p) \/ TruncateLog(p) \/ OpenLog(p) \/ LoadConfig(p) \/ Bind(p)
              \/ Signal(p) \/ Stall(p) \/ Resume(p) \/ Exit(p) \/ Kill(p)
        \/ ForeignTakes \/ DoctorBinds \/ DoctorProbes
        \/ conn # port /\ ForeignLeaves
        \/ conn # Doctor /\ DoctorReleases
    BY <1>6, WatchAssumption DEF Environment, Serving, Leaving, Others
  <2>3. QED
    BY <1>6, <2>1, <2>2, ServeAssumption
       DEF StatLog, TruncateLog, OpenLog, LoadConfig, Bind, Signal, Stall, Resume, Exit, Kill,
           Vacate, ForeignTakes, DoctorBinds, DoctorProbes, ForeignLeaves, DoctorReleases, Ports
<1>7. Conns'
  BY <1>2, <1>3, <1>4, <1>5, <1>6, WatchAssumption DEF Conns
<1>8. TypeOK'
  <2>1. conn' \in Procs => stage'[conn'] \in {"serve", "drain"}
    <3>1. conn' \in Procs => port' = conn' \/ stage'[conn'] = "drain"
      BY <1>7 DEF Conns
    <3>2. QED
      BY <1>1, <3>1 DEF ServeInv, Ports
  <2>2. QED
    BY <1>1, <1>2, <1>3, <2>1 DEF HInv, TypeOK, ServeInv
<1>9. Feed!Change
  BY <1>2 DEF Feed!Change
<1>10. QED
  BY <1>1, <1>7, <1>8, <1>9 DEF HInv

LEMMA HStep == HInv /\ [Next]_vars => HInv' /\ [Feed!Next]_(Feed!feedVars)
<1>1. ASSUME HInv, UNCHANGED vars PROVE HInv' /\ UNCHANGED Feed!feedVars
  <2>1. ServeInv' /\ World' = World /\ conn' = conn /\ said' = said /\ since' = since
        /\ stage' = stage /\ port' = port
    BY <1>1, ServeSame DEF vars, watchVars, HInv, serveVars
  <2>2. QED
    BY <1>1, <2>1 DEF HInv, TypeOK, ServeInv, Conns, Feed!feedVars
<1>2. QED
  BY <1>1, PollKeeps, ProbingKeeps, EnvironmentKeeps DEF Next, Feed!Next

LEMMA HInvariant == Spec => []HInv
BY HInitHolds, HStep, PTL DEF Spec

\* Every variable has its type, and a poll waits for a process that is there.
THEOREM TypeCorrect == Spec => []TypeOK
BY HInvariant, PTL DEF HInv

\* However many processes write to the log and truncate it, at every moment of their
\* starts, the file keeps the newest records of each, in order.
THEOREM LogKeeps == Spec => []LogKeepsTheNewest
<1>1. HInv => LogKeepsTheNewest
  <2>1. SUFFICES ASSUME HInv, NEW p \in logging
                 PROVE LET mine == {i \in DOMAIN log : log[i].proc = p}
                       IN /\ \A i, j \in mine : i < j => log[i].n < log[j].n
                          /\ \A i \in mine : \A n \in log[i].n..wrote[p] :
                                \E j \in mine : log[j].n = n
    BY DEF LogKeepsTheNewest
  <2>2. Newest(p)
    BY <2>1 DEF HInv, ServeInv, ServeTypeOK, LogInv
  <2>3. QED
    BY <2>2 DEF Newest
<1>2. QED
  BY <1>1, HInvariant, PTL

\* The watch, with the servers it polls, implements HealthFeed: each of its steps is
\* a step of the feed or changes nothing that the feed is about.
THEOREM WatchImplementsFeed == Spec => ImplementsFeed
<1>1. Init => Feed!Init
  BY WorldTyped DEF Init, Feed!Init
<1>2. QED
  BY <1>1, HInvariant, HStep, PTL DEF Spec, ImplementsFeed, Feed!Spec
-----------------------------------------------------------------------------
(***************************************************************************)
(* What WatchSettles rests on besides fairness.                            *)
(***************************************************************************)

\* As long as the state lasts, a poll that began in it knows no other, so the line
\* it ends with is that state, and once that was said it stays.
LastingTold ==
  World' = World /\ since = {World} =>
    /\ since' = {World}
    /\ Probing \/ said = World => said' = World

\* While a state lasts, a poll that began in it ends with that state and no other, and
\* a line that says so is not taken back: crashes, drains and other software on the
\* port included.
THEOREM LastingStateTold == Spec => [][LastingTold]_vars
<1>1. ASSUME HInv, [Next]_vars PROVE [LastingTold]_vars
  <2>1. SUFFICES ASSUME Next, World' = World, since = {World}
                 PROVE  since' = {World} /\ (Probing \/ said = World => said' = World)
    BY <1>1 DEF LastingTold
  <2>2. CASE Poll /\ ~Probing
    BY <2>1, <2>2 DEF Poll
  <2>3. CASE Probing
    <3>1. since' = since
      BY <2>3 DEF Probing, Answer, Lost, Timeout, Conclude
    <3>2. QED
      BY <1>1, <2>1, <2>3, <3>1, ProbingTrue
  <2>4. CASE Environment /\ ~Probing
    BY <2>1, <2>4 DEF Environment
  <2>5. QED
    BY <2>1, <2>2, <2>3, <2>4 DEF Next
<1>2. QED
  BY <1>1, HInvariant, PTL DEF Spec
=============================================================================
