------------------------- MODULE SetupRepairProofs --------------------------
(***************************************************************************)
(* Theorems about SetupRepair: for any number of setup processes that run  *)
(* at once, fail or are killed, and any settings, .env is never half       *)
(* written, and every configuration that loads is complete.                *)
(***************************************************************************)
EXTENDS SetupRepair, TLAPS

\* A setup process that is about to rename has a whole temporary file; TempName
\* keeps the others away from it.
Whole == \A h \in Hooks : pc[h] = "rename" => temp[h] # Partial

IInv == TypeOK /\ EnvWhole /\ Whole

\* One layer of settings over another is a layer, in which a setting is unset
\* only if both leave it unset.
LEMMA OverTyped ==
  ASSUME NEW upper \in Layers, NEW lower \in Layers
  PROVE  /\ Over(upper, lower) \in Layers
         /\ \A k \in Keys : Over(upper, lower)[k] = Unset => lower[k] = Unset
  BY DEF Over, Layers

\* The defaults are a layer that sets the host and the three switches.
LEMMA DefaultTyped == Default \in Configs
  BY DEF Default, NoLayer, Configs, Layers, Keys, Values, Unset

\* Config::load returns a complete configuration: what .env, config.toml and the
\* environment leave out has its default.
LEMMA LoadTyped ==
  ASSUME NEW e \in Layers, NEW f \in Layers \cup {Absent}, toml \in Layers
  PROVE  Load(e, f) \in Configs
<1>1. DotenvLayer(f) \in Layers
  BY DEF DotenvLayer, NoLayer, Layers
<1>2. Default \in Layers /\ Over(toml, Default) \in Configs
  BY DefaultTyped, OverTyped DEF Configs, Keys
<1>3. Variables(e, f) \in Layers /\ Over(toml, Default) \in Layers
  <2>1. Over(e, DotenvLayer(f)) \in Layers
    BY <1>1, OverTyped
  <2>. QED  BY <2>1, <1>2 DEF Variables, NonEmpty, Layers, Configs
<1>4. /\ Load(e, f) \in Layers
      /\ \A k \in Keys : Load(e, f)[k] = Unset => Over(toml, Default)[k] = Unset
  BY <1>3, OverTyped DEF Load
<1>. QED  BY <1>2, <1>4 DEF Configs, Keys

\* write_env writes a whole file of settings that can be loaded again.
LEMMA WriteEnvTyped ==
  ASSUME NEW c \in Layers
  PROVE  WriteEnv(c) \in Layers
<1>. DEFINE line(k) ==
       CASE k = "services" -> IF c[k] = "dotted" THEN "misspelt" ELSE c[k]
         [] k \in {"host", "no_auth", "token"} -> c[k]
         [] k \in {"auth_mode", "oauth"} ->
              IF c["auth_mode"] = "oauth" THEN c[k] ELSE Unset
         [] k \in {"noauth", "allowed"} -> Unset
<1>1. ASSUME NEW k \in Keys PROVE line(k) \in Values \cup {Unset}
  BY <1>1 DEF Layers, Keys, Values
<1>. QED  BY <1>1 DEF WriteEnv, Layers

LEMMA InitInv == Init => IInv
<1>. SUFFICES ASSUME Init PROVE IInv
  OBVIOUS
<1>1. /\ toml \in Layers /\ dotenv \in Layers \cup {Absent}
      /\ edits \in 0..MaxEdits
  BY SetupAssumption DEF Init
<1>2. dotenv # Partial
  BY <1>1, SetupAssumption
<1>3. appdata \in BOOLEAN
  BY DEF Init
<1>. QED  BY <1>1, <1>2, <1>3 DEF Init, IInv, TypeOK, EnvWhole, Whole, Commands,
                                NoHook

\* What Start loads is a configuration.
LEMMA StartInv ==
  ASSUME IInv, NEW h \in Hooks, NEW cmd \in Commands, NEW e \in Envs,
         Start(h, cmd, e)
  PROVE  IInv'
<1>. USE DEF IInv, TypeOK, EnvWhole, Whole, files
<1>1. Loads(e, dotenv) => Load(e, dotenv) \in Configs
  BY LoadTyped, SetupAssumption DEF Loads
<1>2. conf' \in [Hooks -> Configs \cup {NoLayer}]
  BY <1>1 DEF Start
<1>3. pc' \in [Hooks -> {"idle", "check", "mkdir", "open", "write", "rename",
                         "recheck", "done", "crashed"}]
        /\ (\A g \in Hooks : pc'[g] = "rename" => pc[g] = "rename")
  BY DEF Start, At
<1>4. command' \in [Hooks -> Commands]
        /\ report' \in [Hooks -> {"none", "ok", "blocking", "failed"}]
  BY DEF Start
<1>5. UNCHANGED <<toml, appdata, dotenv, temp, server, writer, edits>>
  BY DEF Start
<1>. QED  BY <1>2, <1>3, <1>4, <1>5

\* Writing the temporary file ends with all of it written.
LEMMA WriteTempInv ==
  ASSUME IInv, NEW h \in Hooks, WriteTemp(h)
  PROVE  IInv'
<1>. USE DEF IInv, TypeOK, EnvWhole, Whole
<1>1. conf[h] \in Layers
  BY DEF Configs, NoLayer, Layers
<1>2. WriteEnv(conf[h]) \in Layers /\ WriteEnv(conf[h]) # Partial
  BY <1>1, WriteEnvTyped, SetupAssumption
<1>3. temp' = [temp EXCEPT ![h] = WriteEnv(conf[h])]
        /\ pc' = [pc EXCEPT ![h] = "rename"]
  BY DEF WriteTemp, At, TempName
<1>4. UNCHANGED <<toml, appdata, dotenv, command, conf, report, server, writer,
                  edits>>
  BY DEF WriteTemp
<1>. QED  BY <1>2, <1>3, <1>4

\* Every step preserves the invariant.
LEMMA StepInv == IInv /\ [Next]_vars => IInv'
<1>. SUFFICES ASSUME IInv, [Next]_vars PROVE IInv'
  OBVIOUS
<1>. USE DEF IInv, TypeOK, EnvWhole, Whole, files
<1>1. ASSUME NEW h \in Hooks, NEW cmd \in Commands, NEW e \in Envs,
             Start(h, cmd, e)
      PROVE  IInv'
  BY <1>1, StartInv
<1>2. ASSUME NEW h \in Hooks, Check(h) PROVE IInv'
  BY <1>2 DEF Check, At, Verdict
<1>3. ASSUME NEW h \in Hooks, MakeDir(h) PROVE IInv'
  BY <1>3 DEF MakeDir, At
<1>4. ASSUME NEW h \in Hooks, OpenTemp(h) PROVE IInv'
  BY <1>4 DEF OpenTemp, At, TempName
<1>5. ASSUME NEW h \in Hooks, WriteTemp(h) PROVE IInv'
  BY <1>5, WriteTempInv
<1>6. ASSUME NEW h \in Hooks, Rename(h) PROVE IInv'
  BY <1>6 DEF Rename, At, TempName
<1>7. ASSUME NEW h \in Hooks, RepairFails(h) PROVE IInv'
  BY <1>7, SetupAssumption DEF RepairFails, TempName
<1>8. ASSUME NEW h \in Hooks, Recheck(h) PROVE IInv'
  BY <1>8 DEF Recheck, At, Verdict
<1>9. ASSUME NEW h \in Hooks, Crash(h) PROVE IInv'
  BY <1>9 DEF Crash
<1>10. CASE ServerStart
  BY <1>10 DEF ServerStart
<1>11. CASE ServerStop
  BY <1>11 DEF ServerStop
<1>12. ASSUME NEW file \in Files, Edit(file) PROVE IInv'
  BY <1>12, SetupAssumption DEF Edit, NoHook
<1>13. CASE UNCHANGED vars
  BY <1>13 DEF vars
<1>. QED  BY <1>1, <1>2, <1>3, <1>4, <1>5, <1>6, <1>7, <1>8, <1>9, <1>10, <1>11,
             <1>12, <1>13 DEF Next

LEMMA Invariance == Spec => []IInv
  BY InitInv, StepInv, PTL DEF Spec

\* Every configuration that setup loads is complete, and .env is missing, whole
\* or (excluded by the next theorem) partial.
THEOREM ConfigurationsComplete == Spec => []TypeOK
<1>1. IInv => TypeOK
  BY DEF IInv
<1>. QED  BY <1>1, Invariance, PTL

\* The atomic rename keeps .env missing or whole whatever setup processes run,
\* fail or are killed, as long as each has a temporary file of its own.
THEOREM EnvNeverTorn == Spec => []EnvWhole
<1>1. IInv => EnvWhole
  BY DEF IInv
<1>. QED  BY <1>1, Invariance, PTL

\* What a process that is repairing was asked to do, or found.
Intent ==
  \A h \in Hooks :
     pc[h] \in {"mkdir", "open", "write", "rename"} =>
        \/ command[h] = "repair"
        \/ command[h] = "hook" /\ report[h] = "blocking"

\* Intent is kept: only Start and Check lead to a repair.
LEMMA IntentInv == IInv /\ Intent /\ [Next]_vars => Intent'
<1>. SUFFICES ASSUME IInv, Intent, [Next]_vars PROVE Intent'
  OBVIOUS
<1>. USE DEF IInv, TypeOK, Intent
<1>1. ASSUME NEW h \in Hooks, NEW cmd \in Commands, NEW e \in Envs,
             Start(h, cmd, e)
      PROVE  Intent'
  BY <1>1 DEF Start, At
<1>2. ASSUME NEW h \in Hooks, Check(h) PROVE Intent'
  <2>1. pc'[h] = "mkdir" => command[h] = "hook" /\ report'[h] = "blocking"
    BY <1>2 DEF Check, At, Verdict
  <2>2. pc'[h] \in {"mkdir", "done"} /\ command' = command
    BY <1>2 DEF Check, At
  <2>3. \A g \in Hooks \ {h} : pc'[g] = pc[g] /\ report'[g] = report[g]
    BY <1>2 DEF Check, At
  <2>. QED  BY <2>1, <2>2, <2>3
<1>3. ASSUME NEW h \in Hooks,
             MakeDir(h) \/ OpenTemp(h) \/ WriteTemp(h) \/ Rename(h)
      PROVE  Intent'
  BY <1>3 DEF MakeDir, OpenTemp, WriteTemp, Rename, At
<1>4. ASSUME NEW h \in Hooks, RepairFails(h) \/ Recheck(h) \/ Crash(h)
      PROVE  Intent'
  BY <1>4 DEF RepairFails, Recheck, Crash, At
<1>5. CASE UNCHANGED <<pc, command, report>>
  BY <1>5
<1>. QED  BY <1>1, <1>2, <1>3, <1>4, <1>5 DEF Next, ServerStart, ServerStop, Edit,
                                            vars

\* A step of a process that changes the data directory or .env is one of a repair.
LEMMA ReadOnlyStep ==
  ASSUME IInv, Intent, [Next]_vars, NEW h \in Hooks, pc'[h] # pc[h],
         files' # files
  PROVE  \/ command[h] = "repair"
         \/ command[h] = "hook" /\ report[h] = "blocking"
<1>. USE DEF IInv, TypeOK
<1>1. pc[h] \in {"mkdir", "open", "write", "rename"}
  <2>1. ASSUME NEW g \in Hooks, NEW cmd \in Commands, NEW e \in Envs,
               Start(g, cmd, e)
        PROVE  FALSE
    BY <2>1 DEF Start, files
  <2>2. ASSUME NEW g \in Hooks, Check(g) \/ Recheck(g) \/ Crash(g)
        PROVE  FALSE
    BY <2>2 DEF Check, Recheck, Crash, files
  <2>3. ASSUME NEW g \in Hooks,
               MakeDir(g) \/ OpenTemp(g) \/ WriteTemp(g) \/ Rename(g)
        PROVE  g = h /\ pc[g] \in {"mkdir", "open", "write", "rename"}
    BY <2>3 DEF MakeDir, OpenTemp, WriteTemp, Rename, At
  <2>4. ASSUME NEW g \in Hooks, RepairFails(g)
        PROVE  g = h /\ pc[g] \in {"mkdir", "open", "write", "rename"}
    BY <2>4 DEF RepairFails
  <2>5. ~ UNCHANGED pc
    OBVIOUS
  <2>. QED  BY <2>1, <2>2, <2>3, <2>4, <2>5 DEF Next, ServerStart, ServerStop,
                                              Edit, vars
<1>. QED  BY <1>1 DEF Intent

\* Checks are read-only: nothing but `setup repair`, or a hook whose check found
\* something that blocks, touches the data directory or .env.
THEOREM ChecksReadOnly == Spec => ReadOnlyCommands
<1>1. Init => Intent
  BY DEF Init, Intent
<1>2. IInv /\ Intent /\ [Next]_vars =>
        [\A h \in Hooks : pc'[h] # pc[h] /\ files' # files =>
           \/ command[h] = "repair"
           \/ command[h] = "hook" /\ report[h] = "blocking"]_vars
  BY ReadOnlyStep
<1>. QED  BY <1>1, <1>2, Invariance, IntentInv, PTL DEF Spec, ReadOnlyCommands
-----------------------------------------------------------------------------
(***************************************************************************)
(* What a repair writes is enough to start from.  Repairable names what    *)
(* must not be configured for that: each of its parts is something         *)
(* write_env loses.                                                        *)
(***************************************************************************)

Plain(layer) ==
  /\ layer \in Layers
  /\ layer["services"] \notin {"dotted", "misspelt"}
  /\ layer["noauth"] = Unset /\ layer["allowed"] = Unset

Repairable ==
  /\ \A layer \in Envs \cup Files : Plain(layer)
  /\ \A layer \in Tomls :
        /\ layer["services"] \notin {"dotted", "misspelt"}
        /\ layer["auth_mode"] # "oauth"
        /\ \A k \in Keys : layer[k] # "empty"

\* What loading adds to plain layers comes from config.toml.
Loaded(c) ==
  /\ c \in Configs /\ c["services"] \notin {"dotted", "misspelt"}
  /\ \A k \in Keys : c[k] # "empty" /\ (c[k] = Unset => toml[k] = Unset)
  /\ \A k \in {"noauth", "allowed"} : c[k] = Over(toml, Default)[k]

Working == {"check", "mkdir", "open", "write", "rename", "recheck"}

RInv ==
  /\ toml \in Tomls
  /\ dotenv = Absent \/ Plain(dotenv)
  /\ \A h \in Hooks :
       /\ pc[h] \in Working => Loaded(conf[h])
       /\ pc[h] = "rename" => temp[h] = WriteEnv(conf[h])
       /\ writer = h => /\ pc[h] \in {"recheck", "done", "crashed"}
                        /\ dotenv = WriteEnv(conf[h])
       /\ writer = h /\ pc[h] = "done" /\ report[h] = "ok" =>
            /\ Loaded(conf[h])
            /\ conf[h]["services"] # Unset /\ ~AuthBlocks(conf[h])

LEMMA LoadLoaded ==
  ASSUME Repairable, toml \in Tomls, NEW e \in Envs,
         NEW f, f = Absent \/ Plain(f)
  PROVE  Loaded(Load(e, f))
<1>. DEFINE upper == Variables(e, f)
            lower == Over(toml, Default)
<1>1. DotenvLayer(f) \in Layers /\ e \in Layers /\ toml \in Layers
  BY SetupAssumption DEF DotenvLayer, NoLayer, Layers, Plain
<1>2. Load(e, f) \in Configs
  BY <1>1, LoadTyped DEF Load, Variables, DotenvLayer, NoLayer, Plain, Layers
<1>3. Plain(e) /\ Plain(DotenvLayer(f))
  BY <1>1 DEF Repairable, DotenvLayer, NoLayer, Plain, Keys, Unset
<1>4. \A k \in Keys : upper[k] = IF e[k] = "empty" THEN Unset
                                ELSE IF e[k] # Unset THEN e[k]
                                ELSE IF DotenvLayer(f)[k] = "empty" THEN Unset
                                ELSE DotenvLayer(f)[k]
  BY DEF Variables, NonEmpty, Over, Unset
<1>5. \A k \in Keys : /\ lower[k] = IF toml[k] # Unset THEN toml[k] ELSE Default[k]
                      /\ Load(e, f)[k] = IF upper[k] # Unset THEN upper[k]
                                         ELSE lower[k]
  BY DEF Over, Load
<1>6. \A k \in Keys : /\ toml[k] # "empty" /\ Default[k] # "empty"
                      /\ upper[k] # "empty"
  BY <1>4 DEF Repairable, Default, NoLayer, Unset
<1>7. \A k \in Keys : /\ Load(e, f)[k] # "empty"
                      /\ Load(e, f)[k] = Unset => toml[k] = Unset
  BY <1>5, <1>6
<1>8. \A k \in {"noauth", "allowed"} : k \in Keys /\ upper[k] = Unset
  BY <1>3, <1>4 DEF Plain, Keys
<1>9. \A k \in {"noauth", "allowed"} : Load(e, f)[k] = lower[k]
  BY <1>5, <1>8
<1>10. /\ "services" \in Keys
       /\ upper["services"] \notin {"dotted", "misspelt"}
       /\ toml["services"] \notin {"dotted", "misspelt"}
       /\ Default["services"] \notin {"dotted", "misspelt"}
  BY <1>3, <1>4 DEF Plain, Keys, Repairable, Default, NoLayer, Unset
<1>11. Load(e, f)["services"] \notin {"dotted", "misspelt"}
  BY <1>5, <1>10
<1>. QED  BY <1>2, <1>7, <1>9, <1>11 DEF Loaded

\* The file a repair writes from a loaded configuration is plain, and the server
\* starts from it unless that configuration blocks.
LEMMA WrittenBoots ==
  ASSUME Repairable, toml \in Tomls, NEW c, Loaded(c)
  PROVE  /\ Plain(WriteEnv(c))
         /\ c["services"] # Unset /\ ~AuthBlocks(c) => Boots(WriteEnv(c))
<1>. DEFINE f == WriteEnv(c)
            b == Load(NoLayer, f)
<1>1. c \in Layers /\ f \in Layers /\ toml \in Layers
  BY WriteEnvTyped, SetupAssumption DEF Loaded, Configs
<1>2. /\ f["services"] = c["services"] /\ f["host"] = c["host"]
      /\ f["no_auth"] = c["no_auth"] /\ f["token"] = c["token"]
      /\ f["noauth"] = Unset /\ f["allowed"] = Unset
      /\ c["auth_mode"] = "oauth" =>
            f["auth_mode"] = "oauth" /\ f["oauth"] = c["oauth"]
      /\ c["auth_mode"] # "oauth" => f["auth_mode"] = Unset
  BY DEF WriteEnv, Keys, Loaded
<1>3. Plain(f)
  BY <1>1, <1>2 DEF Plain, Loaded
<1>4. DotenvLayer(f) = f /\ f # Partial
  BY <1>1, SetupAssumption DEF DotenvLayer
<1>5. \A k \in Keys : /\ Over(NoLayer, f)[k] = f[k]
                      /\ NonEmpty(Over(NoLayer, f))[k] =
                            IF f[k] = "empty" THEN Unset ELSE f[k]
  BY DEF Over, NoLayer, NonEmpty
<1>6. \A k \in Keys :
         b[k] = IF f[k] \notin {"empty", Unset} THEN f[k] ELSE Over(toml, Default)[k]
  <2>1. \A k \in Keys : Variables(NoLayer, f)[k] =
                           IF f[k] = "empty" THEN Unset ELSE f[k]
    BY <1>4, <1>5 DEF Variables
  <2>. QED  BY <2>1 DEF Load, Over
<1>7. \A k \in Keys : Over(toml, Default)[k] = IF toml[k] # Unset THEN toml[k]
                                               ELSE Default[k]
  BY DEF Over
<1>8. \A k \in Keys : c[k] # "empty" /\ (c[k] = Unset => toml[k] = Unset)
  BY DEF Loaded
<1>9. /\ c["host"] # Unset /\ c["no_auth"] # Unset
      /\ "host" \in Keys /\ "no_auth" \in Keys /\ "token" \in Keys
      /\ "services" \in Keys /\ "auth_mode" \in Keys /\ "oauth" \in Keys
      /\ "noauth" \in Keys /\ "allowed" \in Keys
  BY DEF Loaded, Configs, Keys
<1>10. b["host"] = c["host"] /\ b["no_auth"] = c["no_auth"]
  BY <1>2, <1>6, <1>8, <1>9
<1>11. b["noauth"] = c["noauth"] /\ b["allowed"] = c["allowed"]
  BY <1>2, <1>6, <1>9 DEF Loaded
<1>12. b["token"] = c["token"]
  <2>1. Default["token"] = Unset
    BY DEF Default, NoLayer, Keys
  <2>. QED  BY <1>2, <1>6, <1>7, <1>8, <1>9, <2>1
<1>13. /\ c["auth_mode"] = "oauth" =>
             b["auth_mode"] = "oauth" /\ (c["oauth"] # Unset => b["oauth"] # Unset)
       /\ c["auth_mode"] # "oauth" => b["auth_mode"] # "oauth"
  <2>1. Default["auth_mode"] = "bearer" /\ toml["auth_mode"] # "oauth"
    BY DEF Default, NoLayer, Keys, Repairable
  <2>. QED  BY <1>2, <1>6, <1>7, <1>8, <1>9, <2>1 DEF Unset
<1>14. ~AuthBlocks(c) => /\ AuthPolicyKind(b) # "refused"
                         /\ AuthPolicyKind(b) = "MountedOAuth" => b["oauth"] # Unset
  <2>. HIDE DEF b, f
  <2>. QED  BY <1>10, <1>11, <1>12, <1>13 DEF AuthBlocks, AuthPolicyKind
<1>15. ASSUME c["services"] # Unset PROVE Loads(NoLayer, f)
  <2>1. b["services"] # "misspelt"
    BY <1>2, <1>6, <1>8, <1>9, <1>15 DEF Loaded
  <2>2. \A k \in {"no_auth", "noauth"} : Over(NoLayer, f)[k] # "empty"
    BY <1>2, <1>5, <1>8, <1>9 DEF Unset
  <2>. QED  BY <1>4, <2>1, <2>2 DEF Loads
<1>. QED  BY <1>3, <1>14, <1>15 DEF Boots

LEMMA RInvInit == ASSUME Repairable PROVE Init => RInv
  BY SetupAssumption DEF Init, RInv, Repairable, Working, NoHook

LEMMA RInvStep ==
  ASSUME Repairable PROVE IInv /\ RInv /\ [Next]_vars => RInv'
<1>. SUFFICES ASSUME IInv, RInv, [Next]_vars PROVE RInv'
  OBVIOUS
<1>. USE DEF IInv, TypeOK, RInv, Working, files
<1>0. UNCHANGED toml
  BY DEF Next, Start, Check, MakeDir, OpenTemp, WriteTemp, Rename, RepairFails,
         Recheck, Crash, ServerStart, ServerStop, Edit, vars
<1>a. \A c : Loaded(c)' <=> Loaded(c)
  BY <1>0 DEF Loaded, Over
<1>1. ASSUME NEW h \in Hooks, NEW cmd \in Commands, NEW e \in Envs,
             Start(h, cmd, e)
      PROVE  RInv'
  <2>1. Loaded(Load(e, dotenv))
    BY LoadLoaded
  <2>2. pc'[h] \in Working => conf'[h] = Load(e, dotenv)
    BY <1>1 DEF Start, At
  <2>3. pc[h] = "idle" /\ pc'[h] \in {"done", "mkdir", "check"}
    BY <1>1 DEF Start, At
  <2>4. /\ \A g \in Hooks \ {h} : pc'[g] = pc[g] /\ conf'[g] = conf[g]
                                  /\ report'[g] = report[g]
        /\ UNCHANGED <<toml, dotenv, temp, writer>>
    BY <1>1 DEF Start, At
  <2>. QED  BY <1>a, <2>1, <2>2, <2>3, <2>4
<1>2. ASSUME NEW h \in Hooks, Check(h) PROVE RInv'
  BY <1>2, <1>a DEF Check, At
<1>3. ASSUME NEW h \in Hooks, MakeDir(h) \/ OpenTemp(h) PROVE RInv'
  BY <1>3, <1>a DEF MakeDir, OpenTemp, At, TempName
<1>4. ASSUME NEW h \in Hooks, WriteTemp(h) PROVE RInv'
  BY <1>4, <1>a DEF WriteTemp, At, TempName
<1>5. ASSUME NEW h \in Hooks, Rename(h) PROVE RInv'
  <2>1. dotenv' = WriteEnv(conf[h]) /\ Plain(dotenv')
    BY <1>5, WrittenBoots DEF Rename, At, TempName
  <2>2. /\ pc[h] = "rename" /\ pc' = [pc EXCEPT ![h] = "recheck"] /\ writer' = h
        /\ temp' = [temp EXCEPT ![h] = Absent] /\ UNCHANGED <<toml, conf, report>>
    BY <1>5 DEF Rename, At, TempName
  <2>. QED  BY <1>a, <2>1, <2>2
<1>6. ASSUME NEW h \in Hooks, RepairFails(h) PROVE RInv'
  <2>1. /\ pc[h] \in {"mkdir", "open", "write", "rename"}
        /\ pc' = [pc EXCEPT ![h] = "done"]
        /\ UNCHANGED <<toml, dotenv, conf, writer>>
        /\ \A g \in Hooks \ {h} : temp'[g] = temp[g] /\ report'[g] = report[g]
    BY <1>6 DEF RepairFails, TempName
  <2>. QED  BY <1>a, <2>1
<1>7. ASSUME NEW h \in Hooks, Recheck(h) PROVE RInv'
  <2>1. /\ pc[h] = "recheck" /\ pc' = [pc EXCEPT ![h] = "done"]
        /\ report' = [report EXCEPT ![h] = Verdict(h)]
        /\ UNCHANGED <<toml, dotenv, temp, conf, writer>>
    BY <1>7 DEF Recheck, At
  <2>2. report'[h] = "ok" => conf[h]["services"] # Unset /\ ~AuthBlocks(conf[h])
    BY <2>1 DEF Verdict, Blocking
  <2>3. \A c : AuthBlocks(c)' <=> AuthBlocks(c)
    BY DEF AuthBlocks, AuthPolicyKind
  <2>. QED  BY <1>a, <2>1, <2>2, <2>3
<1>8. ASSUME NEW h \in Hooks, Crash(h) PROVE RInv'
  BY <1>8, <1>a DEF Crash
<1>9. ASSUME NEW file \in Files, Edit(file) PROVE RInv'
  <2>1. Plain(file) /\ \A h \in Hooks : h # NoHook
    BY SetupAssumption DEF Repairable, NoHook
  <2>. QED  BY <1>9, <1>a, <2>1 DEF Edit
<1>10. CASE UNCHANGED <<dotenv, temp, pc, conf, report, writer>>
  BY <1>0, <1>10, <1>a
<1>. QED  BY <1>1, <1>2, <1>3, <1>4, <1>5, <1>6, <1>7, <1>8, <1>9, <1>10
          DEF Next, ServerStart, ServerStop, vars

\* Where no setting is configured that write_env loses, a repair that reports no
\* blocking failure leaves a .env from which the server starts, for any number of
\* setup processes that run at once, fail or are killed.
THEOREM RepairsBoot == ASSUME Repairable PROVE Spec => []RepairedBoots
<1>1. Init => IInv /\ RInv
  BY InitInv, RInvInit
<1>2. IInv /\ RInv /\ [Next]_vars => (IInv /\ RInv)'
  BY StepInv, RInvStep
<1>3. IInv /\ RInv => RepairedBoots
  BY WrittenBoots DEF RInv, RepairedBoots
<1>. QED  BY <1>1, <1>2, <1>3, PTL DEF Spec
=============================================================================
