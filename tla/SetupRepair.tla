---------------------------- MODULE SetupRepair -----------------------------
(***************************************************************************)
(* Setup commands (`rustarr setup check | repair | plugin-hook`), the .env *)
(* file they rewrite, the configuration every process loads from it, and   *)
(* the server's refusal to start without an authentication policy.         *)
(*                                                                         *)
(* Abstractions.  A layer of settings (config.toml, .env, the environment  *)
(* of a process) maps the keys below to values.  "services" stands for     *)
(* RUSTARR_SERVICES and its RUSTARR_<NAME>_* lines, "oauth" for the four   *)
(* OAuth settings, "allowed" for the allowed hosts and origins, "noauth"   *)
(* for RUSTARR_NOAUTH (the trusted gateway).  Operators leave .env and     *)
(* config.toml well formed.                                                *)
(***************************************************************************)
EXTENDS Naturals

CONSTANTS
  Hooks,     \* setup processes
  Envs,      \* settings a setup process may have in its environment
  Files,     \* settings an operator may write to .env
  Tomls,     \* settings config.toml may hold
  Absent,    \* no such file
  Partial,   \* a file of which only a part was written
  MaxEdits   \* bound on the operator's edits

Keys == {"services", "host", "no_auth", "token", "auth_mode", "oauth",
         "noauth", "allowed"}
Unset == "unset"
\* A service named "my.sonarr" is the value "dotted"; misspelt, a line for it
\* that loading does not look for.
\* A variable may also be set to nothing: "empty".
Values == {"plain", "dotted", "misspelt", "loopback", "public", "true", "false",
           "secret", "bearer", "oauth", "set", "empty"}
Layers == [Keys -> Values \cup {Unset}]
Commands == {"check", "repair", "hook", "hook --no-repair"}

ASSUME SetupAssumption ==
  /\ Envs \subseteq Layers /\ Files \subseteq Layers /\ Tomls \subseteq Layers
  /\ {Absent, Partial} \cap Layers = {} /\ Absent # Partial
  /\ "operator" \notin Hooks
  /\ MaxEdits \in Nat

VARIABLES
  toml,     \* config.toml
  appdata,  \* whether the data directory exists
  dotenv,   \* .env: a layer, Absent, or Partial
  temp,     \* temp[t]: the temporary file with name t
  pc,       \* pc[h]: where setup process h is
  command,  \* command[h]: its command
  conf,     \* conf[h]: the configuration it loaded
  report,   \* report[h]: what it reported
  server,   \* "down", "up" or "refused"
  writer,   \* the setup process that wrote .env, if one did
  edits     \* edits of .env made by the operator

files == <<appdata, dotenv, temp>>
vars == <<toml, appdata, dotenv, temp, pc, command, conf, report, server,
          writer, edits>>

NoHook == "operator"
NoLayer == [k \in Keys |-> Unset]

\* What loading returns: the settings with a default are never unset.
Configs ==
  {c \in Layers : \A k \in {"host", "no_auth", "noauth", "auth_mode"} : c[k] # Unset}

TypeOK ==
  /\ toml \in Layers
  /\ appdata \in BOOLEAN
  /\ dotenv \in Layers \cup {Absent, Partial}
  /\ temp \in [Hooks -> Layers \cup {Absent, Partial}]
  /\ pc \in [Hooks -> {"idle", "check", "mkdir", "open", "write", "rename",
                       "recheck", "done", "crashed"}]
  /\ command \in [Hooks -> Commands]
  /\ conf \in [Hooks -> Configs \cup {NoLayer}]
  /\ report \in [Hooks -> {"none", "ok", "blocking", "failed"}]
  /\ server \in {"down", "up", "refused"}
  /\ writer \in Hooks \cup {NoHook}
  /\ edits \in 0..MaxEdits

Init ==
  /\ toml \in Tomls
  /\ dotenv \in Files \cup {Absent}
  /\ appdata \in IF dotenv = Absent THEN BOOLEAN ELSE {TRUE}
  /\ temp = [h \in Hooks |-> Absent]
  /\ pc = [h \in Hooks |-> "idle"]
  /\ command = [h \in Hooks |-> "check"]
  /\ conf = [h \in Hooks |-> NoLayer]
  /\ report = [h \in Hooks |-> "none"]
  /\ server = "down"
  /\ writer = NoHook
  /\ edits = 0
-----------------------------------------------------------------------------
(***************************************************************************)
(* Config::load and the decisions made from what it returns.               *)
(***************************************************************************)

Default == [NoLayer EXCEPT !["host"] = "loopback", !["no_auth"] = "false",
                           !["noauth"] = "false", !["auth_mode"] = "bearer"]

Over(upper, lower) ==
  [k \in Keys |-> IF upper[k] # Unset THEN upper[k] ELSE lower[k]]

\* env_str and its siblings skip a variable that is empty.
NonEmpty(layer) ==
  [k \in Keys |-> IF layer[k] = "empty" THEN Unset ELSE layer[k]]

DotenvLayer(file) == IF file = Absent THEN NoLayer ELSE file

\* .env supplies the variables the process does not have; one the process has but
\* that is empty hides the line in .env all the same.
Variables(environment, file) == NonEmpty(Over(environment, DotenvLayer(file)))

\* Mutant: settings that are nowhere configured get no default.
BugLoad(environment, file) == Over(Variables(environment, file), toml)
\* config.toml, then .env, then the environment.
Load(environment, file) == Over(Variables(environment, file), Over(toml, Default))

\* Loading fails on a line that is not KEY=VALUE, on a service without URL and on
\* an empty switch.
Loads(environment, file) ==
  /\ file # Partial
  /\ Load(environment, file)["services"] # "misspelt"
  /\ \A k \in {"no_auth", "noauth"} :
        Over(environment, DotenvLayer(file))[k] # "empty"

AuthPolicyKind(c) ==
  LET gateway == c["noauth"] = "true" /\ c["allowed"] # Unset IN
  CASE c["host"] = "loopback" -> "LoopbackDev"
    [] c["host"] # "loopback" /\ c["no_auth"] = "true" ->
         IF gateway THEN "TrustedGatewayUnscoped" ELSE "refused"
    [] c["host"] # "loopback" /\ c["no_auth"] # "true" ->
         CASE c["auth_mode"] = "oauth" -> "MountedOAuth"
           [] c["auth_mode"] # "oauth" /\ c["token"] # Unset -> "MountedBearer"
           [] OTHER -> IF gateway THEN "TrustedGatewayUnscoped" ELSE "refused"

\* The server starts: its configuration loads, and its policy is neither refused
\* nor OAuth without the OAuth settings.
Boots(file) ==
  /\ Loads(NoLayer, file)
  /\ LET c == Load(NoLayer, file) IN
       \/ AuthPolicyKind(c) \notin {"refused", "MountedOAuth"}
       \/ AuthPolicyKind(c) = "MountedOAuth" /\ c["oauth"] # Unset

AuthBlocks(c) ==
  \/ AuthPolicyKind(c) = "refused"
  \/ /\ c["no_auth"] # "true"
     /\ IF c["auth_mode"] = "oauth" THEN c["oauth"] = Unset ELSE c["token"] = Unset

\* setup_check: the blocking failures.  The port is taken while the server runs.
Blocking(c) ==
  ~appdata \/ c["services"] = Unset \/ AuthBlocks(c) \/ server = "up"

\* Mutant: the bearer token is left out.
BugWriteEnv(c) ==
  [k \in Keys |->
     CASE k \in {"services", "host", "no_auth"} -> c[k]
       [] k \in {"auth_mode", "oauth"} ->
            IF c["auth_mode"] = "oauth" THEN c[k] ELSE Unset
       [] OTHER -> Unset]
\* The lines write_env writes; no others survive.  Only `-` is replaced in the
\* names of a service's variables, where loading replaces every other character.
WriteEnv(c) ==
  [k \in Keys |->
     CASE k = "services" -> IF c[k] = "dotted" THEN "misspelt" ELSE c[k]
       [] k \in {"host", "no_auth", "token"} -> c[k]
       [] k \in {"auth_mode", "oauth"} ->
            IF c["auth_mode"] = "oauth" THEN c[k] ELSE Unset
       [] k \in {"noauth", "allowed"} -> Unset]
-----------------------------------------------------------------------------
(***************************************************************************)
(* A setup process.                                                        *)
(***************************************************************************)

At(h, here, there) == pc[h] = here /\ pc' = [pc EXCEPT ![h] = there]

\* apply_plugin_options, then Config::load; e is its environment after that.
Start(h, cmd, e) ==
  /\ At(h, "idle", IF ~Loads(e, dotenv) THEN "done"
                   ELSE IF cmd = "repair" THEN "mkdir" ELSE "check")
  /\ command' = [command EXCEPT ![h] = cmd]
  /\ IF Loads(e, dotenv)
       THEN conf' = [conf EXCEPT ![h] = Load(e, dotenv)] /\ UNCHANGED report
       ELSE report' = [report EXCEPT ![h] = "failed"] /\ UNCHANGED conf
  /\ UNCHANGED <<toml, files, server, writer, edits>>

Verdict(h) == IF Blocking(conf[h]) THEN "blocking" ELSE "ok"

\* Mutant: the hook repairs what --no-repair asked only to report.
BugCheck(h) ==
  /\ At(h, "check", IF command[h] # "check" /\ Blocking(conf[h])
                    THEN "mkdir" ELSE "done")
  /\ report' = [report EXCEPT ![h] = Verdict(h)]
  /\ UNCHANGED <<toml, files, command, conf, server, writer, edits>>
\* setup_check; a hook goes on to repair what blocks, unless told not to.
Check(h) ==
  /\ At(h, "check", IF command[h] = "hook" /\ Blocking(conf[h])
                    THEN "mkdir" ELSE "done")
  /\ report' = [report EXCEPT ![h] = Verdict(h)]
  /\ UNCHANGED <<toml, files, command, conf, server, writer, edits>>

\* setup_repair: create_dir_all.
MakeDir(h) ==
  /\ At(h, "mkdir", "open")
  /\ appdata' = TRUE
  /\ UNCHANGED <<toml, dotenv, temp, command, conf, report, server, writer,
                 edits>>

\* Mutant: every process uses the same temporary file.
BugTempName(h) == CHOOSE t \in Hooks : TRUE
\* The process id makes the temporary file's name its own.
TempName(h) == h

\* write_env: open with truncate, ...
OpenTemp(h) ==
  /\ At(h, "open", "write")
  /\ temp' = [temp EXCEPT ![TempName(h)] = Partial]
  /\ UNCHANGED <<toml, appdata, dotenv, command, conf, report, server,
                 writer, edits>>

\* ... write and sync, ...
WriteTemp(h) ==
  /\ At(h, "write", "rename")
  /\ temp' = [temp EXCEPT ![TempName(h)] = WriteEnv(conf[h])]
  /\ UNCHANGED <<toml, appdata, dotenv, command, conf, report, server,
                 writer, edits>>

\* ... and rename over .env.
Rename(h) ==
  /\ At(h, "rename", "recheck")
  /\ temp[TempName(h)] # Absent
  /\ dotenv' = temp[TempName(h)]
  /\ temp' = [temp EXCEPT ![TempName(h)] = Absent]
  /\ writer' = h
  /\ UNCHANGED <<toml, appdata, command, conf, report, server, edits>>

\* The disk is full, the directory unwritable, the rename refused.
RepairFails(h) ==
  /\ pc[h] \in {"mkdir", "open", "write", "rename"}
  /\ pc' = [pc EXCEPT ![h] = "done"]
  /\ report' = [report EXCEPT ![h] = "failed"]
  /\ temp' \in {temp, [temp EXCEPT ![TempName(h)] = Absent]}
  /\ UNCHANGED <<toml, appdata, dotenv, command, conf, server, writer, edits>>

\* setup_check again, of the configuration loaded before the repair.
Recheck(h) ==
  /\ At(h, "recheck", "done")
  /\ report' = [report EXCEPT ![h] = Verdict(h)]
  /\ UNCHANGED <<toml, files, command, conf, server, writer, edits>>

\* The process is killed.
Crash(h) ==
  /\ pc[h] \notin {"idle", "done", "crashed"}
  /\ pc' = [pc EXCEPT ![h] = "crashed"]
  /\ UNCHANGED <<toml, files, command, conf, report, server, writer, edits>>
-----------------------------------------------------------------------------
(***************************************************************************)
(* The server and the operator.                                            *)
(***************************************************************************)

\* serve_mcp, with nothing in its environment: .env and config.toml decide.
ServerStart ==
  /\ server # "up"
  /\ server' = IF Boots(dotenv) THEN "up" ELSE "refused"
  /\ UNCHANGED <<toml, files, pc, command, conf, report, writer, edits>>

ServerStop ==
  /\ server = "up"
  /\ server' = "down"
  /\ UNCHANGED <<toml, files, pc, command, conf, report, writer, edits>>

Edit(file) ==
  /\ edits < MaxEdits
  /\ edits' = edits + 1
  /\ appdata' = TRUE
  /\ dotenv' = file
  /\ writer' = NoHook
  /\ UNCHANGED <<toml, temp, pc, command, conf, report, server>>

Next ==
  \/ \E h \in Hooks :
       \/ \E cmd \in Commands, e \in Envs : Start(h, cmd, e)
       \/ Check(h) \/ MakeDir(h) \/ OpenTemp(h) \/ WriteTemp(h) \/ Rename(h)
       \/ RepairFails(h) \/ Recheck(h) \/ Crash(h)
  \/ ServerStart \/ ServerStop
  \/ \E file \in Files : Edit(file)

Spec == Init /\ [][Next]_vars
-----------------------------------------------------------------------------
(***************************************************************************)
(* Properties.                                                             *)
(***************************************************************************)

\* Setup processes that run at once, fail or are killed at any point leave .env
\* missing or whole, so that no process ever loads half a file.
EnvWhole == dotenv # Partial

\* `setup check` and `--no-repair` never touch the data directory or .env, and a
\* hook does only after its check found something that blocks.
ReadOnlyCommands ==
  [][\A h \in Hooks :
       pc'[h] # pc[h] /\ files' # files =>
         \/ command[h] = "repair"
         \/ command[h] = "hook" /\ report[h] = "blocking"]_vars

\* When the process that wrote .env reported no blocking failure, the server
\* starts from that file.
RepairedBoots ==
  \A h \in Hooks :
     writer = h /\ pc[h] = "done" /\ report[h] = "ok" => Boots(dotenv)
=============================================================================
