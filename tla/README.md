# Verification of rustarr

rustarr (`src/`) is one binary that puts a fleet of media services (Sonarr, Radarr, Prowlarr,
qBittorrent, Plex and others) behind three surfaces: an MCP server, a command line and *Code Mode*,
JavaScript snippets that call the same actions. This directory holds TLA+ modules of the parts whose
correctness depends on the order of events, the TLC configurations that check them on small
instances, and theorems with proofs checked by TLAPS.

`PROJECT.json` is the index: components, runs, the definition-to-source map, findings, hazards,
theorems. Paths below are relative to the repository, so the crate is under `src/src/`.

1. [The system](#1-the-system)
2. [Modules](#2-modules)
3. [Runs](#3-runs)
4. [Findings](#4-findings)
5. [Fairness](#5-fairness)
6. [Proofs](#6-proofs)
7. [What is only model-checked, and what is not modelled](#7-limits)
8. [Plan](#8-plan)

## 1. The system

    MCP client --HTTP/stdio--> mcp/rmcp_server.rs --+
    shell -------------------> cli/router.rs -------+--> actions/dispatch.rs --> app.rs --> rustarr.rs --> upstream
    script --callTool--------> app/codemode.rs -----+          |                               (auth.rs: qBittorrent cookie)
                                   ^                           |
                                   +---- codemode, snippet_run-+--> codemode/store.rs, codemode/artifact.rs

    plugin hook --> cli/setup/{plugin,wizard}.rs --> .env --> config.rs --> every process

| Component | State | Operations | What is hard | What makes it correct |
|---|---|---|---|---|
| Upstream client, qBittorrent session (`rustarr.rs`, `rustarr/auth.rs`) | `qbit_sessions` (base URL to login time), the cookie jar of `qbit_client` | send with header authentication; ensure, login, record, evict, retry once on 401/403 | every step between two awaits interleaves with other calls; the cache and the jar are keyed differently; the WebUI forgets sessions on its own | at most one effect per request; the cache never causes a denial; recovery; every call ends |
| Code Mode runs (`app/codemode.rs`, `codemode/engine.rs`) | per run: engine thread, two channels, deadline, audit vectors, artifact count | submit, bridge call, artifact write, nested snippet, answer | a blocking thread and an async loop wait for each other; deadline, shutdown and nesting cut in anywhere | an answer means the engine is gone; audits are complete; caps hold; a script that has not settled by its deadline fails; everything ends |
| Setup, configuration, startup policy (`cli/setup/*`, `config*`, `server.rs`) | `.env`, temporary files, the data directory, `config.toml`, the loaded configuration | check, repair, plugin hook, load, start | several processes rewrite one file; the check judges what was loaded, the file holds what was written | `.env` is never torn; a repair without blocking failures leaves a file the server starts from; checks are read-only |
| Snippet store (`codemode/store.rs`) | `<name>.js` and `<name>.json` | save, delete, list, load | two files per snippet, no lock, several processes | an undisturbed operation is exact; races and failures damage no more than they must |
| Action registry, parsing, dispatch (`actions/*`, `app.rs`) | the registry, the service list | look a service up, check kind and consent, execute | three surfaces with gates of their own share one dispatcher; a name is matched against kinds too | nothing is deleted without consent, but for a generated DELETE called through a service tool (`UngatedOp`); a name reaches its service |
| MCP server, elicitation (`mcp/*`) | the prompt in progress | `call_tool` with scope check and prompt | the prompt is an await with a deadline and an answer that may be late | a refused or late prompt changes nothing; no prompt holds a request forever |
| Curated commands (`app/{download,stats,trace,subtitles}.rs`) | none | shape upstream JSON, gate the destructive ones | a gate of their own below the surfaces' gates | as dispatch |
| Generated OpenAPI operations (`openapi.rs`, `app/openapi_ops.rs`) | static tables | look up, build the path, execute | the method decides what is destructive | as dispatch |
| CLI (`cli/router.rs`, `cli/parse.rs`) | none | parse, gate, dispatch | `--confirm` is checked here for generated operations only | as dispatch |
| Response budget (`codemode/truncate.rs`, `token_limit.rs`) | none | take logs, result, calls out of the envelope and fit them back to a budget; cut at the transport's cap | what is trimmed, in which order, and what is never trimmed; a search whose predicate includes a sentinel that shrinks | the answer goes last; what goes had to; the cap holds |
| Artifact paths (`codemode/artifact.rs`) | a directory per run | validate, write, receipt | path components; two attempts on one file; a write that fails half-way | a receipt means the file is there, where the path leads; the cap counts the receipts |
| Health watch (`cli/watch.rs`) | the last state of one server | poll, compare, print | the server changes during a poll and between two | a line is news and was true; a lasting state is reported |
| HTTP server, routes (`main.rs`, `server/routes.rs`, `mcp/transport.rs`) | the port | bind, serve, drain; routing, host checks | start, stop, crash and replacement; the rest is glue over axum and rmcp | as health watch and logging |
| Doctor (`cli/doctor*`) | none of its own; it makes directories and temporary files and binds the port for a moment | independent checks | a check changes what it looks at | the listener it binds is dropped at once; nothing is stated of its verdict |
| Logging (`logging*`) | the log file and its size | truncate at startup, append | several processes, one file | a process that writes loses only its oldest records |
| Catalogue, type definitions, proxy (`codemode/{catalog,dts,proxy}.rs`) | none | text generated from the registry | - | - |
| Upstream models (`models.rs`) | none | serde types | - | - |
| Live test harness, generators (`xtask/`) | none | start a server and run commands; write tables and docs | - | - |

Interactions worth naming: a script's `callTool` goes through the same dispatcher as an MCP call, so
a delete can be reached through four gates; `codemode.run` makes an async loop wait for an engine
thread, reversing the usual direction; `setup repair` is run by plugin hooks of several agent
sessions at once, over the file every other process loads; the qBittorrent cache is shared by every
request of the server.

The hazards these give rise to are listed in `PROJECT.json` at the line where each bites, with the
properties that would catch it, or the reason why none does.

## 2. Modules

Every module has one action per step the code can be interrupted at. "Mutant" definitions (`Bug...`)
are the plausible mistakes with which each property was seen to fail.

### UpstreamCall, QbitSession

`UpstreamCall` is the promise to the layers above: a request takes effect at most once, "ok" means
it did, "denied" means it did not, "failed" says nothing (the effect may even follow it).

`QbitSession` is the client. `fresh` is `qbit_sessions` reduced to the base URLs whose entry is
younger than `QBIT_SESSION_TTL` (`TtlLapse` ages one out); `jar` holds one SID per *host*, as a
cookie jar does; `live` are the SIDs the WebUI honours. A call goes `EnsureFast | EnsureLogin,
LoginAccept, LoginReceive, Record` (`ensure_qbittorrent_session`: the lock is not held across the
login), `Send` (the SID is read from the jar here, not when the session was ensured), `Serve` (the
WebUI, possibly after the caller gave up), `Receive`, and on a 401/403 `Evict` and the same again
once (`finish_with_retry`). `LoginFail` and `TimeOut` are the client's timeouts. `Expire` is a WebUI
that forgets its sessions. SIDs are named by the call and attempt that logged in.

### CodeModeRun

`engine[r]` is the blocking thread (`queued, js, blocked, settled`, or how it exited), `host[r]` the
async select loop, `request[r]` the bridge request in the channel; `parent` links a snippet to the script
that waits for it. The bridge is synchronous, so a channel holds one request at most. `late` is the
set of runs whose deadline has passed; the deadline is taken when `run_script` starts, so time in the
pool's queue counts. Four counters stand for the audit vectors, the artifact count and the effects.
What the script computes is nondeterministic. `Drop` is the runtime shutting down.

The engine ends in two steps, as `engine.rs` does: `Settle` is the last check of the deadline in
`drain_jobs`, `ReadBack` the reading and decoding of the result after it. The deadline may pass in
between, and the value is then returned all the same; what holds is `OverdueFails`, that a script
which has not settled when its deadline passes never answers ok. `Exit` is every other end: an engine
that cannot start, an exception, an interrupt or "timed out".

### ScriptTree

What the comment at `src/src/app/codemode.rs:63-65` promises ("snippets can't recurse into snippets",
"max depth is 2"), as a specification of its own: a script is started from outside or by a running
script that was, and scripts end together with those they started. Two modules implement it from two
ends. In `CodeModeRun` (`ImplementsScriptTree`) the active scripts are the loops of `run_script` that
have not ended, and what is at stake is who ends first when answers, deadlines and dropped tasks
interleave. In `ActionDispatch` (`ScriptsFormTree`) they are the calls that run a script, and what is
at stake is whether one ends before its calls have and whether the gates let a script's calls start more.

### SetupRepair

`Layers` map eight settings to values; `Load` is `Config::load` (environment over `.env` over
`config.toml` over defaults, with empty variables skipped but still hiding the line in `.env`),
`AuthPolicyKind` the policy decision, `Boots` the server's refusals, `Blocking` the failures
`setup_check` calls blocking, `WriteEnv` the lines `write_env` writes - and so the settings it does
not. A process runs `Start, Check, MakeDir, OpenTemp, WriteTemp, Rename, Recheck`; `RepairFails` and
`Crash` end it at any step. `ServerStart`, `ServerStop` and `Edit` are the surroundings.

The comment at `src/src/cli/setup/wizard.rs:205-208` still speaks of concurrent repairs that clobber
one `.env.tmp`; the code below it has per-process names, and with them the property that comment
worries about is proved (`EnvNeverTorn`).

### SnippetStore

A file is `Absent` or a sequence of blocks tagged with the version whose bytes they are, so that a
torn or mixed file can be told from a whole one. `Begin` and `Look` stand for the checks of save and
delete, `Open` and `Write` for the two system calls of `fs::write`, `Unlink` and `UnlinkMeta` for the
two of delete, `Fail` for an error, a full disk or a kill, after any number of bytes. A file
unlinked while open swallows what is written to it. `Shown` is what list and load report.

### ActionDispatch

One call from one of three surfaces, from `received` through the surface's gate, the prompt if there
is one, the dispatcher and the app layer's gate, to the one upstream request it sends or to nothing.
`McpGate` is `call_tool` up to its first await (authentication, unknown actions, scope, destructive
gate); `Accept`, `Refuse`, `Expire`, `LateAnswer` are the outcomes of the prompt; `CliGate` and
`ScriptGate` are the other surfaces' gates; `Finds` is `find_service`; `Send` and `Reject` are
`execute_service_action` with `AppGate`. `NamedAction` and `ActionRun` keep apart two readings of an
action in the code: the checks read the `action` argument, while the tool `yarr` runs `codemode`
whatever that argument says. Calls are independent except that a script's calls exist only while it
runs.

Two things the model shows that are deliberate in the code, or at least stable: a generated DELETE
called through a service tool has no confirm gate at all (`UngatedOp`, the one exception
`DeleteHadConsent` makes), and with `RUSTARR_ALLOW_DESTRUCTIVE` set an MCP client is prompted all the
same, so that a refusal still holds.

### ArtifactWrites, ResponseShape

`ArtifactWrites` is `writeArtifact` as one run sees it: `Valid` and `Clean` are the validation of a
path, a sequence of components, with the loop that collects it as a recursive function (`Cleaning`); `Write`, `Refuse` and `Tear` what an attempt comes to, the last a
disk that fails before or after the truncation. Each attempt leaves an entry in the response, a
refused one too. `Resolve`, where the operating system would take the path, is not from the code: it
is the reference `ReceiptsTrue` judges the validation against.

`ResponseShape` extends it with the envelope's way to the agent, over sizes in bytes. `Measure`,
`MarkResult`, `TakeCalls`, then `FitAll` or `StartSearch, Probe..., Settle` once for the calls and
once for the logs, are `fit_response` with `fit_newest`'s binary search step by step; `Cut` and
`Slice` are `serialize_with_limit`. An array is the function from k to the bytes of its newest k
entries (`IsTail`: an entry has a byte and a comma at least), `Sentinel[f][d]` the bytes of the line
that says d entries were dropped; all the proofs use of it is that it grows by at most a byte for
each entry more. Escaping is a nondeterministic growth of up to twofold.

### ServeProcess, HealthFeed, HealthWatch

`ServeProcess` is the life of `rustarr serve` processes on one machine: `StatLog, TruncateLog,
OpenLog` (the log is opened before the configuration is loaded, and the three are separate system
calls), `LoadConfig`, `Bind`, then `Signal` and `Exit`, or `Kill` at any point. `DoctorBinds` and its
two successors are the doctor's check of the port, which succeeds by binding it, or else by a probe
that somebody answers with success. A bind, the doctor's or the server's, may fail for any reason,
with the port free as well. Other software (`Foreign`) may hold the port, and answers a probe each in
its own way (`Reply`), with success too: the watch and the doctor take it for a server. `World` is
what a GET /health gets. What the doctor says is not among the properties: a verdict can be wrong
about the port for all these reasons.

`HealthWatch` adds the watch. `conn` is the server a poll waits for: a graceful shutdown leaves it
connected or resets it (a connection not yet accepted), an `Exit` waits for it, a crash resets it.
`since` is a history variable, the states since the poll began. `HealthFeed` is the promise: a line
differs from the last one and names a state that held at some moment of the poll; `HealthWatch`
implements it with `World` for its `world`.

## 3. Runs

| Run | Instance | Asks |
|---|---|---|
| `qbit_session` | 2 calls to one WebUI, 2 expiries | `EffectAtMostOnce`, `DenialNeedsExpiry`, `SoloRecovers`, `CallsFinish`, and that `QbitSession` implements `UpstreamCall` |
| `codemode_run` | 1 script, up to 3 bridge calls, 2 snippet ids, 2 threads, 1 artifact | `AnsweredMeansOver`, `AuditComplete`, `PoolNotWedged`, `OverdueFails`, `RunsFinish`, and that `CodeModeRun` implements `ScriptTree` |
| `codemode_output` | 3 attempts on 4 paths, 2 artifacts, arrays of 0, 3 and 4 entries, 18 payloads, caps of 14 and 18 bytes | `ReceiptsTrue`, `AnswerOutlivesLogs`, `KeepsNewestThatFit`, `OverMeansSpent`, `SlicedOnlyForAudit`, `CapHolds`, `Finishes` |
| `setup_repair` | 2 processes, 4 environments, 3 `.env` files, 2 `config.toml`, 1 edit | `EnvWhole`, `RepairedBoots`, `ReadOnlyCommands` |
| `serve_watch` | 2 server processes, the watch, the doctor, 2 other programs (one answers with success), a log of 2 records | `LogKeepsTheNewest`, `WatchSettles`, and that `HealthWatch` implements `HealthFeed` |
| `snippet_store` | 3 clients, 1 name, 2 versions of different sizes, 4 operations | `AloneIsExact`, `MixNeedsCollision`, `MetaNeverAhead`, `OneDeletePerFile` |
| `action_dispatch` | 2 calls, 23 requests, 2 service lists | `DeleteHadConsent`, `RefusalSendsNothing`, `NamesakeReached`, `CallsEnd`, and that `ActionDispatch` implements `ScriptTree` |
| the other five | see [Findings](#4-findings) | one claim of the documentation each, found not to hold |

Each passing run also checks its module's `TypeOK`. Why these bounds suffice:

- **qbit_session.** Every step a call can disturb belongs to one other call: two calls give every
  order of login, record, evict and send. The second expiry can hit the session the first one's retry
  made. What holds for more calls, hosts and expiries is proved (section 6).
- **codemode_run.** Runs share only the thread pool and the parent link. One script and two snippet
  ids suffice for a snippet to nest if it could; three bridge calls are enough for one of each kind
  after another; the pool has exactly the threads a script and its snippet need. With two scripts on two
  threads `PoolNotWedged` fails: that is `codemode_pool`.
- **codemode_output.** An array of four entries makes the search probe both halves, and its sentinel
  grows by a digit at three. The payloads and the two sizes of an entry put the envelope under the
  budget, over it with and without its logs, over it whatever is trimmed, and over the cap. The paths
  hold a plain name, the same name behind a dot, a directory that is in the way of a name, and `..`.
  Under a cap of two, a written attempt can be followed by one that takes its file, whole or torn, and
  by a third that the cap refuses or that is still accepted because the second was torn. The run ends when the envelope is sent
  (`CHECK_DEADLOCK FALSE`).
- **serve_watch.** A log of two records is over its cap after one process has said "starting" and
  "listening", so the second one truncates what the first still writes to. Two processes are a server
  and its successor; they contend for the port with the doctor and with two other programs, one of
  which the watch takes for a server. The watch and the doctor never end, so the run does not stop.
- **setup_repair.** Two processes interleave their repairs in every way, one may be killed while the
  other repairs, and the operator may edit between. The layers cover each way to configure
  authentication, each setting that decides the policy, and an empty variable. Left out, because each
  alone violates `RepairedBoots`: a `.env` with the trusted-gateway settings (`setup_gateway`) and
  service names with dots (a hazard of its own in the list).
- **snippet_store.** A third client is needed for a save that collides with two others, and for a
  delete racing a delete while a save recreates the file. Two versions, one with the longer source
  and one with the longer metadata, leave a tail in either file. Operations are bounded, so the run
  may stop (`CHECK_DEADLOCK FALSE`).
- **action_dispatch.** Two calls suffice because calls meet only as script and callee. The requests
  cover each surface, each of its exits, a client that cannot be prompted, missing scopes and
  authentication, an action of the wrong kind, and a generated operation of each method. Two calls are a
  script and the snippet it runs, enough for the order of their ends; that a snippet starts none takes
  a third call, and is proved (`ScriptsNestOnce`, `ScriptsTree`). Each call is
  issued once, so the run may stop (`CHECK_DEADLOCK FALSE`).

Every property was seen to fail with a mutant of the code it is about, listed under `mutants`.

What the runs show that a test would hardly reach: the qBittorrent cache heals itself from every
state that calls and expiries can leave behind (`SoloRecovers`); a fresh entry that is wrong costs
one retry and never a second effect; a Code Mode answer never leaves a script running, shutdown and
nested snippets included; a prompt answered after its deadline does nothing; of racing deletes of one
snippet only one reports success for each file that was created; the search over log lines is exact
although the sentinel it makes room for shrinks as lines are kept; emptying the log of a running
server costs that server only what it wrote before; and the watch never prints a state that did not
hold while it looked, whoever held the port.

## 4. Findings

Five runs end in a violation; each checks one statement of the repository's documentation or
comments.

| Run | The repository says | The code does |
|---|---|---|
| `qbit_shared_host` (`FreshnessTracksHost`) | `auth.rs:106`: "freshness must track the host" | freshness is per base URL, cookies are per host: two qBittorrent services on two ports of one host replace each other's SID while both entries stay fresh. The next call repairs it with its retry. |
| `codemode_pool` (`PoolNotWedged`) | `app/codemode.rs:105`: "never the reverse, so no deadlock" | through `codemode.run` the loop does wait for an engine; with as many scripts as pool threads (512) all wait for good: each engine sits in an untimed `blocking_recv`, where the interrupt handler does not run, and the loop has no timeout of its own, so the deadlines pass and free nobody. Only the shutdown of the runtime does. |
| `codemode_overflow` (`NeverTripsTransport`) | `truncate.rs:29`: "the shaped envelope never trips the transport truncation that would undo this work" | artifacts are never trimmed: up to 64 accepted entries with paths of up to 1024 bytes, and one entry for each refused attempt, exceed the 40 000 bytes by themselves, and the envelope is cut mid-text. `SlicedOnlyForAudit` is what does hold. |
| `setup_gateway` (`RepairedBoots`) | `docs/PATTERNS.md:2322`: "idempotent and safe to rerun" | a repair of a trusted-gateway installation drops `RUSTARR_NOAUTH` and the allowed hosts, reports nothing blocking, and the server refuses to start |
| `action_namesake` (`NameReachesItsService`) | `docs/API.md:53`: `service` is the "Configured service name" | `find_service` takes the first service whose name *or kind* matches: with `sonarr4k` (kind sonarr) declared before `sonarr`, calls to `sonarr`, deletes included, reach `sonarr4k` |

Met on the way, and left as observations because a property that is checked elsewhere covers what
follows from them: after a denial the retry may carry the very SID that was rejected, when another
call recorded a session in between (`rustarr.rs:264` speaks of a "fresh login"; `SoloRecovers` bounds
the harm); an engine error, timeouts included, drops the audit of what the script had done
(`app/codemode.rs:201`; `AuditComplete` is about successful responses only); a script that settles just
in time is answered ok although its deadline passes before the result is read back
(`engine.rs:141-183`; `OverdueFails` says which scripts must fail); overlapping saves that
both succeed may leave a source that neither of them saved (`MixNeedsCollision` says when);
the header of `cli/doctor/checks.rs` promises no side effects, and the checks create directories,
write a temporary file and hold the port for a moment, in which a server that starts fails to bind.

## 5. Fairness

- `QbitSession`: weak fairness of the client's own steps of each call. tokio polls a ready task, and
  the HTTP client is built with a timeout, so one of `Receive` and `TimeOut`, or of `LoginReceive`
  and `LoginFail`, always happens. Nothing is assumed of the WebUI, of callers or of expiries.
- `CodeModeRun`: the clock reaches every deadline; the pool runs what is queued; the interrupt
  handler stops a script past its deadline; the loop is polled and its awaits end because upstream
  requests time out; a read-back, once begun, ends. Settling before the deadline is up to the script and
  is not assumed.
- `ActionDispatch`: the server's steps, the prompt's deadline among them; never the user's answer.
- `ResponseShape`: shaping and sending are one sequential computation that runs to its end.
- `HealthWatch`: the watch's timer fires, and a poll whose outcome is there ends with it; the doctor
  drops the listener it has just bound. A probe times out only while its server is stalled, so a
  server that answers is not reported down. Nothing is assumed of servers: they may stall forever.
- `SetupRepair` and `SnippetStore` have no liveness property and no fairness: every step of them is
  a step of a process that may be killed.

## 6. Proofs

Eight modules prove theorems for every value of the constants, from the assumptions the modules name
(types of the constants, and that the marker values differ from real ones). Where a theorem needs
more than that, its ASSUME says so, and a run shows that it cannot be left out: `HostsDistinct`
(`qbit_shared_host`), more threads than scripts (`codemode_pool`), `RoomForAudit`
(`codemode_overflow`), `Repairable` (`setup_gateway`). In this way each refuted claim of section 4
has its counterpart, the condition under which it does hold.

Liveness needs fairness and ENABLED, which stay with TLC, but most of a liveness argument is safety:
that steps only lead forward, and that not everyone waits for everyone. That part is proved for every
component with a liveness property:

| Liveness (TLC) | Steps lead forward | Nobody waits for ever |
|---|---|---|
| `CallsFinish` | `CallsAreBounded`: the rank of a call, in 0..15, falls with each of its steps | a call waits for nobody but its timeout |
| `RunsFinish` | `RunsAreBounded`: the rank of a run, at most 4 * `MaxOps` + 8, falls with every step but the clock's | `NeverWedged`: while a run is unfinished the guard of some engine's or loop's step holds |
| `CallsEnd` | `CallsNeverWedge`: at most five steps, each forward | `CallsNeverWedge`: while a call is unfinished, some call can move |
| `Finishes` | `ShapingIsBounded`: at most `Cap` + 2 * `MaxEntries` + 9 steps, and a probe halves its search | one process, nothing to wait for |
| `WatchSettles` | `LastingStateTold`: while a state lasts, a poll that began in it ends in saying it, and it is not unsaid | `TypeCorrect`, `Conns`: a poll waits only for a server that serves or drains, or for whoever holds the port |

**QbitSessionProofs** (`ConfigAssumption`).
`TypeCorrect` needs that only a first attempt is evicted (`EvictOnce`): `TypeOK` alone does not bound
the attempts. `AtMostOnce` and `Refinement` rest on `AInv`: a call has at most one request on the
wire, one that has had no effect and has no reply yet, and a call that has not sent its attempt has
had no effect. The refinement maps each step of the client to a step of `UpstreamCall` or a stutter;
`Serve` with an effect is its `Apply`. `HealthyNeverDenied` says that without an expiry no
interleaving of any number of calls makes a WebUI deny one. It assumes `HostsDistinct` (one service
per host), which is needed: `qbit_shared_host` shows a fresh entry with a foreign cookie. Its
invariant `HInv`: while a WebUI has not expired, a fresh entry means the jar holds a live SID of it,
and so does every call past its login and every request on the wire. `SoloAlwaysRecovers` needs no
assumption on hosts: a call that runs alone and is at its second attempt has evicted the entry, so it
logs in, and carries the SID that this login put in the jar (`RetryInv` in `SInv`).
`FreshnessTracked` is the comment of `auth.rs:106` under `HostsDistinct`, expiries included: its
invariant `FInv` says that behind each fresh entry, and each entry about to be recorded, the host's
jar holds a SID which that service issued (`LoginOwns`: a login of another service leaves it there).

**CodeModeRunProofs** (`CodeModeAssumption`).
One invariant `IInv` proves the theorems about one state: `Handshake` (an engine is blocked exactly while its
request is in the channel or being served), `Accounts` (audited calls plus the pending one are the
calls made), `Family` and `OneChild` (a parent is a script that waits for its one snippet). The audit
theorem `AuditsComplete` is what this is for: when the engine has exited nothing is pending, so what
is audited is everything. `OverdueScriptsFail` needs that the way of a late script that has not settled
leads only to an error or a timeout, through calls and snippets, and that an answer is not changed.
`PoolSuffices` adds that with more threads than scripts some engine can
always go on: the threads in use are those of scripts and of their one snippet each, and a script
that waits for a queued snippet leaves a thread to it. `codemode_pool` shows that fewer do not do.
`NeverWedged` draws the stronger conclusion that no set of runs waits in a circle, loops and dropped
tasks included: an engine that waits is served by its own loop or by its snippet's (`WInv`).
`RunsFormTree` maps `Submit` and `Nest` to the `Begin` of `ScriptTree`, `Answer` to the `End` of one
script and `Drop` to that of a script with its snippet; `Family` shows that a snippet's parent is a
script that waits, `IdleChildless` that a loop that answers has no snippet.

**SetupRepairProofs** (`SetupAssumption`).
`EnvNeverTorn`, for any number of processes: a temporary file is whole whenever its process is about
to rename it, because its name is the process's own. `ConfigurationsComplete` is the type invariant
with its real content: whatever the layers hold, a loaded configuration has every setting that has a
default. `ChecksReadOnly` is an action property, from `Intent`: a process in a repair was asked to
repair, or is a hook that found something blocking. `RepairsBoot` holds under `Repairable`, which says
in one place what a repair cannot carry over: service names the two mappings spell differently, the
trusted-gateway settings in the environment or in `.env`, and, of `config.toml`, an auth mode of
oauth and empty values (`write_env` names the mode only when it is oauth, so an oauth in the file
comes back when the variable that overrode it is gone). Its invariant `RInv` ties what a process
will write to what it loaded, and the rechecked verdict to both.

**ActionDispatchProofs** (`ConstantsAssumption`).
`DeletesConsented`, whose one exception is `UngatedOp`, for any registry, services and number of calls: what each surface vetted before
`dispatch` (`Vetted`), what the `confirm` argument may come from (`ConfirmInv`) and the app layer's
gate are together enough (`SendConsented`). `RefusalsHold` is about prompts. `NamesakesReached`
gives the condition under which names are unambiguous: each kind's namesake is declared before the
other services of its kind. `DispatchTyped` includes that a call that has sent is over.
`NInv` is about scripts: a call of a script was let through only if it runs no `codemode`, and no
`snippet_run` when its parent is one (`FamilyInv`), and it is over before its parent is. The gate
compares two neighbours; `ScriptsNestOnce` and `ScriptsTree` conclude for the whole family, although
the tool `yarr` runs a script whatever its `action` argument says.

**SnippetStoreProofs** (`StoreAssumption`).
For any clients, names, versions and file sizes, and without an induction over blocks: a write is
`Overwrite`, whose blocks are each either the old file's or the new contents' (`OverwriteTyped`).
`TInv` types the state and ties each step of a client to its operation and to the file it has open.
`MetaFollows` needs `MInv`: the version of every block of metadata has its source written, because
a save that opens the metadata has written its source. `MixesCollide` needs `CInv`: a file that was
never open twice holds one version, and is empty while the only save that has it open has not
written. `DeletesCounted` needs `DInv`: the deletes that succeeded, the clients that have unlinked a
source and not yet finished, and the file that is there are together at most the files created.
`LoneIsExact` needs `EInv`, which says for each step of an operation nobody overlapped what both
files hold at that moment. `StoreTyped` bounds every file by the sizes of its versions.

**ArtifactWritesProofs** (`ArtifactAssumption`).
Paths of any length. The library's induction takes an operator as a parameter, so the module derives
an induction over sets (`SetInduction`) from the well-foundedness of strict inclusion of finite sets:
the interval 0..n stands for n. With it `CleaningUnfolds` shows that the recursive definition has a
solution, and `CleanStaysInside` that a valid path is cleaned to a non-empty sequence of names.
`ResolveIsClean` needs no induction: on a valid path the reference and the code have one and the same
equation. The invariant `AInv` holds the receipts, that they are as many as are counted, and that the files and directories form a tree below
the run's directory; every attempt keeps it (`AttemptKeeps`).

**ResponseShapeProofs** (`ArtifactAssumption`, `ShapeAssumption`).
`ReceiptsHold` and `WritesStayInside` carry `AInv` over to the whole run; the rest is about
payloads, budgets and sentinels of any size. `SearchIsExact` rests on the monotony of `Body`
(keeping an entry more costs at least two bytes and saves at most one of the sentinel) and on the
search's invariant: everything up to `lo` fits or is nothing, everything above `hi` does not fit.
From it and from the order of the stages follow what may be given up for what (`AnswerOutlives`,
`OverBudgetIsSpent`) and when the transport may cut (`NotSliced`). `CapIsHard` needs that the wrapper
alone is within the cap. `NeverTripsWithRoom`: an envelope over its budget has lost its logs and calls
and its result (`OverBudgetIsSpent`), so what is left of it is the rest, the marker, the sentinels and
the entries of the attempts, and `RoomForAudit` says that these fit.

**HealthWatchProofs** (`ServeAssumption`, `WatchAssumption`).
For any number of processes. `LogKeeps` needs `LogInv`: no record in the file is newer than the last
its process wrote, and a process that has not opened the file has none there. `WatchImplementsFeed` rests on `Conns`: a poll waits for the holder of the port, so what
it will report is the state of this moment, or for a server that is shutting down, and then both "up"
and "down" have held since the poll began; a connection is lost only after the server was gone.

## 7. Limits

Only model-checked: the liveness properties (`CallsFinish`, `RunsFinish`, `CallsEnd`, `Finishes`,
`WatchSettles`), which need fairness and ENABLED; section 6 lists the safety part of each that is
proved. Every other property of the passing runs is proved for all values of the constants. There are
no recursive operators. A bounded number of operations, edits or attempts (`MaxExpiries`, `MaxOps`,
`MaxEdits`, `MaxAttempts`) bounds the runs; the proofs hold for every value of it. The other way
round, some theorems are about formulas that no run has as a property (`NestsOnce`, `Tree` of
the files, the ranks, `SomeoneMoves`): they follow the same actions and are for every instance.

Abstracted: request paths, bodies and the JSON that comes back; what scripts compute; bytes of
snippet files below a block; clocks, as "has passed" or "has not". Service URLs and API keys are
data. The store's directory exists and its names are valid. The run directory of artifacts holds
no symbolic links (scripts cannot make any). One watch and one doctor; of the doctor's checks the
port's; of the log file its records, not the bytes of a torn one.

Not modelled: the components marked so in `PROJECT.json`. Those that are thin glue, generated text
or serde types stay so: about half of the crate's lines are generated tables of OpenAPI operations
(`src/openapi/generated`), a further part is `xtask` (a sequential test driver and generators), the
upstream models and the text of the catalogue, and none of them has steps to interleave or state to
keep. What the map covers is therefore a small share of the lines and most of the state.

## 8. Plan

The order followed so far, most important first: the upstream client, since every action goes
through it; Code Mode runs, the most concurrent part; setup and startup; the store; dispatch and
consent; what becomes of a response; the serving process and those who watch it. What would be next:

1. `McpServer`, a composition of `ActionDispatch` and `CodeModeRun`: a script's calls go through the
   gates while its deadline passes; a dropped request.
2. Configuration in more detail: service discovery from the environment and `config.toml`, the OAuth
   settings, and the doctor's checks of the configuration judged against `Boots`.
3. `ServeProcess` below `SetupRepair`: a server that is restarted by the repair it waits for.

Theorems worth having next: that `CodeModeRun` and `ActionDispatch` implement `ScriptTree` for the same
scripts, once they are composed (1), and an abstract specification of the store, of which an
undisturbed save or delete is one step (`LoneIsExact` is its safety so far).
