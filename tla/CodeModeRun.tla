---------------------------- MODULE CodeModeRun -----------------------------
(***************************************************************************)
(* Code Mode: run_script, its JavaScript engine on a thread of tokio's     *)
(* blocking pool, the async loop that serves the engine's callTool and     *)
(* writeArtifact round trips, and codemode.run, through which a script     *)
(* waits for a snippet that is a run_script of its own.                    *)
(*                                                                         *)
(* Abstractions.  What the script computes is nondeterministic: it may     *)
(* make any bridge call, return or throw.  The bridge is synchronous, so   *)
(* a channel of capacity 8 never holds more than one request.  A deadline  *)
(* is the set late of runs it has passed for; it is taken when run_script  *)
(* starts and so includes the wait for a pool thread.  The audit vectors   *)
(* calls and artifacts are counted, as are the effects behind them.        *)
(***************************************************************************)
EXTENDS Naturals, FiniteSets

CONSTANTS
  Scripts,       \* runs started by codemode() calls
  Snippets,      \* ids for the runs started by snippet_run
  NoRun,         \* no run
  PoolSize,      \* threads of the blocking pool (tokio's default: 512)
  MaxArtifacts,  \* CODEMODE_MAX_ARTIFACTS
  HasDataDir,    \* whether a data dir is configured
  Kinds,         \* the bridge calls scripts make
  MaxOps         \* bound on the bridge calls of one run

ASSUME CodeModeAssumption ==
  /\ Scripts \cap Snippets = {}
  /\ NoRun \notin Scripts \cup Snippets
  /\ PoolSize \in Nat \ {0}
  /\ MaxArtifacts \in Nat
  /\ HasDataDir \in BOOLEAN
  /\ Kinds \subseteq {"call", "snippet", "artifact"}
  /\ MaxOps \in Nat

Runs == Scripts \cup Snippets

VARIABLES
  parent,     \* parent[r]: the run whose codemode.run started r
  engine,     \* engine[r]: the engine's thread
  host,       \* host[r]: the async loop of run_script
  request,    \* request[r]: the bridge request sent and not yet received
  late,       \* the runs whose deadline has passed
  ops,        \* ops[r]: bridge calls the script made
  performed,  \* performed[r]: actions dispatched for the script
  calls,      \* calls[r]: entries of the audit vector `calls`
  artifacts,  \* artifacts[r]: entries of the audit vector `artifacts`
  written,    \* written[r]: artifacts counted against the cap
  answer      \* answer[r]: what run_script returned

auditVars == <<performed, calls, artifacts, written>>
vars == <<parent, engine, host, request, late, ops, performed, calls,
          artifacts, written, answer>>

Exits == {"value", "error", "timeout"}

TypeOK ==
  /\ parent \in [Runs -> Runs \cup {NoRun}]
  /\ engine \in [Runs -> {"none", "queued", "js", "blocked", "settled"} \cup Exits]
  /\ host \in [Runs -> {"none", "select", "dispatch", "nested", "answered",
                        "dropped"}]
  /\ request \in [Runs -> Kinds \cup {"none"}]
  /\ late \subseteq Runs
  /\ ops \in [Runs -> 0..MaxOps]
  /\ \A count \in {performed, calls, artifacts, written} :
        count \in [Runs -> 0..MaxOps]
  /\ answer \in [Runs -> {"none", "ok", "err"}]

Init ==
  /\ parent = [r \in Runs |-> NoRun]
  /\ engine = [r \in Runs |-> "none"]
  /\ host = [r \in Runs |-> "none"]
  /\ request = [r \in Runs |-> "none"]
  /\ late = {}
  /\ ops = [r \in Runs |-> 0]
  /\ performed = [r \in Runs |-> 0]
  /\ calls = [r \in Runs |-> 0]
  /\ artifacts = [r \in Runs |-> 0]
  /\ written = [r \in Runs |-> 0]
  /\ answer = [r \in Runs |-> "none"]

Inc(f, r) == [f EXCEPT ![r] = @ + 1]
\* The runs whose engine occupies a thread of the pool.
InPool == {r \in Runs : engine[r] \in {"js", "blocked", "settled"}}
\* The unused snippet ids.
Fresh == {r \in Snippets : host[r] = "none"}
Children(r) == {k \in Runs : parent[k] = r}
-----------------------------------------------------------------------------
(***************************************************************************)
(* run_script.                                                             *)
(***************************************************************************)

\* codemode(code) with code of an acceptable size: channels, deadline, run id,
\* and the engine handed to spawn_blocking.
Submit(r) ==
  /\ r \in Scripts /\ host[r] = "none"
  /\ host' = [host EXCEPT ![r] = "select"]
  /\ engine' = [engine EXCEPT ![r] = "queued"]
  /\ UNCHANGED <<parent, request, late, ops, auditVars, answer>>

\* codemode(code) with empty or oversized code.
Reject(r) ==
  /\ r \in Scripts /\ host[r] = "none"
  /\ host' = [host EXCEPT ![r] = "answered"]
  /\ answer' = [answer EXCEPT ![r] = "err"]
  /\ UNCHANGED <<parent, engine, request, late, ops, auditVars>>

\* Instant::now() reaches the run's deadline.
DeadlinePasses(r) ==
  /\ host[r] \notin {"none", "answered"}
  /\ r \notin late
  /\ late' = late \cup {r}
  /\ UNCHANGED <<parent, engine, host, request, ops, auditVars, answer>>

\* A thread of the pool picks the engine up.
StartEngine(r) ==
  /\ engine[r] = "queued"
  /\ Cardinality(InPool) < PoolSize
  /\ engine' = [engine EXCEPT ![r] = "js"]
  /\ UNCHANGED <<parent, host, request, late, ops, auditVars, answer>>

\* on_call / on_write: the script makes a bridge call and its thread blocks
\* until the reply.  (Once the loop is gone, blocking_send fails at once and
\* the script goes on with an exception: no step.)
Bridge(r, kind) ==
  /\ engine[r] = "js" /\ host[r] # "dropped"
  /\ ops[r] < MaxOps
  /\ engine' = [engine EXCEPT ![r] = "blocked"]
  /\ request' = [request EXCEPT ![r] = kind]
  /\ ops' = Inc(ops, r)
  /\ UNCHANGED <<parent, host, late, auditVars, answer>>

\* Mutant: the final check of the deadline in drain_jobs is gone.
BugSettleUnchecked(r) ==
  /\ engine[r] = "js"
  /\ engine' = [engine EXCEPT ![r] = "settled"]
  /\ UNCHANGED <<parent, host, request, late, ops, auditVars, answer>>
\* The job queue is empty, and the last check of the deadline in drain_jobs finds
\* that there is time left.
Settle(r) ==
  /\ engine[r] = "js" /\ r \notin late
  /\ engine' = [engine EXCEPT ![r] = "settled"]
  /\ UNCHANGED <<parent, host, request, late, ops, auditVars, answer>>

\* The engine gives up and drops both senders: it could not start, the script threw
\* or the interrupt handler stopped it, or drain_jobs finds that it "timed out".
Exit(r) ==
  /\ engine[r] = "js"
  /\ \E exit \in {"error"} \cup (IF r \in late THEN {"timeout"} ELSE {}) :
       engine' = [engine EXCEPT ![r] = exit]
  /\ UNCHANGED <<parent, host, request, late, ops, auditVars, answer>>

\* The read-back of the flags, the result and the logs, late or not: a value, or
\* an error when the promise is pending or rejected or the result is no JSON.
ReadBack(r) ==
  /\ engine[r] = "settled"
  /\ \E exit \in {"value", "error"} : engine' = [engine EXCEPT ![r] = exit]
  /\ UNCHANGED <<parent, host, request, late, ops, auditVars, answer>>

\* Mutant: the loop looks at the request without taking it off the channel.
BugDispatch(r) ==
  /\ host[r] = "select" /\ request[r] = "call"
  /\ host' = [host EXCEPT ![r] = "dispatch"]
  /\ UNCHANGED <<parent, engine, request, late, ops, auditVars, answer>>
\* The loop receives a callTool request: codemode_dispatch begins.
Dispatch(r) ==
  /\ host[r] = "select" /\ request[r] = "call"
  /\ host' = [host EXCEPT ![r] = "dispatch"]
  /\ request' = [request EXCEPT ![r] = "none"]
  /\ UNCHANGED <<parent, engine, late, ops, auditVars, answer>>

\* Mutant: only successful calls are audited.
BugDispatchEndAuditsSuccess(r) ==
  /\ host[r] = "dispatch"
  /\ \/ performed' = Inc(performed, r) /\ calls' = Inc(calls, r)
     \/ UNCHANGED <<performed, calls>>
  /\ engine' = [engine EXCEPT ![r] = "js"]
  /\ host' = [host EXCEPT ![r] = "select"]
  /\ UNCHANGED <<parent, request, late, ops, artifacts, written, answer>>
\* codemode_dispatch ends, the action performed or refused; the reply unblocks
\* the engine and the call is audited.
DispatchEnd(r) ==
  /\ host[r] = "dispatch"
  /\ performed' \in {performed, Inc(performed, r)}
  /\ engine' = [engine EXCEPT ![r] = "js"]
  /\ host' = [host EXCEPT ![r] = "select"]
  /\ calls' = Inc(calls, r)
  /\ UNCHANGED <<parent, request, late, ops, artifacts, written, answer>>

\* Mutant: the loop forgets that snippets do not nest.
BugMayNest(r) == HasDataDir
\* snippet_run is refused in a snippet, and needs the data dir.
MayNest(r) == HasDataDir /\ r \in Scripts

\* The loop receives a snippet_run that is refused or whose snippet cannot be
\* loaded: an error reply, audited.
NestRefused(r) ==
  /\ host[r] = "select" /\ request[r] = "snippet"
  /\ request' = [request EXCEPT ![r] = "none"]
  /\ engine' = [engine EXCEPT ![r] = "js"]
  /\ calls' = Inc(calls, r)
  /\ UNCHANGED <<parent, host, late, ops, performed, artifacts, written, answer>>

\* The loop receives a snippet_run: run_script runs inside this dispatch, with
\* a deadline, a thread, channels and audit vectors of its own.
Nest(r, k) ==
  /\ host[r] = "select" /\ request[r] = "snippet"
  /\ MayNest(r) /\ Fresh # {} /\ k = CHOOSE n \in Fresh : TRUE
  /\ request' = [request EXCEPT ![r] = "none"]
  /\ parent' = [parent EXCEPT ![k] = r]
  /\ host' = [host EXCEPT ![r] = "nested", ![k] = "select"]
  /\ engine' = [engine EXCEPT ![k] = "queued"]
  /\ UNCHANGED <<late, ops, auditVars, answer>>

\* The nested run_script has returned: its answer is the reply, the rest of its
\* state is gone and its id can be used again.
NestEnd(r, k) ==
  LET Reset(f, v) == [f EXCEPT ![k] = v] IN
  /\ host[r] = "nested" /\ parent[k] = r /\ host[k] = "answered"
  /\ performed' = Inc(Reset(performed, 0), r)
  /\ calls' = Inc(Reset(calls, 0), r)
  /\ engine' = [Reset(engine, "none") EXCEPT ![r] = "js"]
  /\ host' = [Reset(host, "none") EXCEPT ![r] = "select"]
  /\ parent' = Reset(parent, NoRun)
  /\ late' = late \ {k}
  /\ ops' = Reset(ops, 0)
  /\ artifacts' = Reset(artifacts, 0)
  /\ written' = Reset(written, 0)
  /\ answer' = Reset(answer, "none")
  /\ UNCHANGED request

\* write_codemode_artifact: there is a data dir and room under the cap.
MayWrite(r) == HasDataDir /\ written[r] < MaxArtifacts

\* The loop receives a writeArtifact: written and counted, or refused or failed
\* (no data dir, cap, size, path, I/O); audited either way.
WriteArtifact(r) ==
  /\ host[r] = "select" /\ request[r] = "artifact"
  /\ request' = [request EXCEPT ![r] = "none"]
  /\ \/ MayWrite(r) /\ written' = Inc(written, r)
     \/ UNCHANGED written
  /\ artifacts' = Inc(artifacts, r)
  /\ engine' = [engine EXCEPT ![r] = "js"]
  /\ UNCHANGED <<parent, host, late, ops, performed, calls, answer>>

\* Mutant: run_script answers at its deadline without joining the engine.
BugAnswerAtDeadline(r) ==
  /\ host[r] = "select" /\ request[r] = "none"
  /\ engine[r] \in Exits \/ r \in late
  /\ host' = [host EXCEPT ![r] = "answered"]
  /\ answer' = [answer EXCEPT ![r] = IF engine[r] = "value" THEN "ok" ELSE "err"]
  /\ UNCHANGED <<parent, engine, request, late, ops, auditVars>>
\* Both channels are closed and drained and the engine is joined.  An engine
\* error is returned in place of the response that carries the audit vectors.
Answer(r) ==
  /\ host[r] = "select" /\ request[r] = "none"
  /\ engine[r] \in Exits
  /\ host' = [host EXCEPT ![r] = "answered"]
  /\ answer' = [answer EXCEPT ![r] = IF engine[r] = "value" THEN "ok" ELSE "err"]
  /\ UNCHANGED <<parent, engine, request, late, ops, auditVars>>

\* The task of a codemode call is dropped (the runtime shuts down): its loop
\* and that of its snippet go away with the receivers and the reply senders; an
\* action in flight may or may not have been performed.
Drop(r) ==
  LET gone == {r} \cup {k \in Children(r) : host[k] # "answered"} IN
  /\ r \in Scripts /\ host[r] \in {"select", "dispatch", "nested"}
  /\ host' = [k \in Runs |-> IF k \in gone THEN "dropped" ELSE host[k]]
  /\ request' = [k \in Runs |-> IF k \in gone THEN "none" ELSE request[k]]
  /\ \E hit \in SUBSET {k \in gone : host[k] = "dispatch"} :
        performed' = [k \in Runs |-> performed[k] + (IF k \in hit THEN 1 ELSE 0)]
  /\ UNCHANGED <<parent, engine, late, ops, calls, artifacts, written, answer>>

\* Mutant: the bridge goes on waiting when its reply channel is closed.
BugEngineDropped(r) ==
  /\ engine[r] = "blocked" /\ host[r] = "dropped"
  /\ UNCHANGED vars
\* blocking_recv fails ("codemode dispatch was dropped"): an exception in JS.
EngineDropped(r) ==
  /\ engine[r] = "blocked" /\ host[r] = "dropped"
  /\ engine' = [engine EXCEPT ![r] = "js"]
  /\ UNCHANGED <<parent, host, request, late, ops, auditVars, answer>>
-----------------------------------------------------------------------------
EngineStep(r) ==
  StartEngine(r) \/ EngineDropped(r) \/ ReadBack(r) \/ (r \in late /\ Exit(r))

HostStep(r) ==
  \/ Dispatch(r) \/ DispatchEnd(r) \/ NestRefused(r) \/ WriteArtifact(r)
  \/ Answer(r)
  \/ \E k \in Runs : Nest(r, k) \/ NestEnd(r, k)

Done ==
  /\ \A r \in Scripts : host[r] \in {"answered", "dropped"}
  /\ \A r \in Runs : engine[r] \in {"none"} \cup Exits
  /\ UNCHANGED vars

Next ==
  \/ \E r \in Runs :
       \/ Submit(r) \/ Reject(r) \/ DeadlinePasses(r) \/ StartEngine(r)
       \/ \E kind \in Kinds : Bridge(r, kind)
       \/ Settle(r) \/ Exit(r) \/ ReadBack(r) \/ EngineDropped(r)
       \/ HostStep(r) \/ Drop(r)
  \/ Done

Spec == Init /\ [][Next]_vars

\* The clock advances; the pool runs what is queued; the interrupt handler stops
\* a script past its deadline; a read-back ends; the runtime polls the loop, whose
\* every await ends because upstream requests time out.  Settling is up to the
\* script.
Fairness ==
  \A r \in Runs :
     WF_vars(DeadlinePasses(r)) /\ WF_vars(EngineStep(r)) /\ WF_vars(HostStep(r))
FairSpec == Spec /\ Fairness
-----------------------------------------------------------------------------
(***************************************************************************)
(* Properties.                                                             *)
(***************************************************************************)

\* A run that was answered holds no thread of the pool, and neither does a
\* snippet it ran: answering joins the engine, so no script goes on unseen.
AnsweredMeansOver ==
  \A r \in Runs :
     host[r] = "answered" =>
        engine[r] \in {"none"} \cup Exits /\ request[r] = "none"
          /\ Children(r) = {}

\* A successful response audits every bridge call the script made, refused and
\* failed ones and snippets included, and every action that was performed.
AuditComplete ==
  \A r \in Runs :
     answer[r] = "ok" => calls[r] + artifacts[r] = ops[r] /\ performed[r] <= calls[r]

\* Snippets do not nest ("max depth is 2"): a run that another run started
\* starts none.
DepthAtMostTwo == \A r \in Runs : parent[r] # NoRun => Children(r) = {}

\* The loops of run_script that have not ended implement ScriptTree: a snippet runs
\* only inside a script that is itself in none, and is gone when its script is,
\* answered or dropped (run_script, in_snippet).
Active == {r \in Runs : host[r] \in {"select", "dispatch", "nested"}}
Starter == [r \in Runs |-> IF r \in Active THEN parent[r] ELSE NoRun]
Tree == INSTANCE ScriptTree
          WITH Ids <- Runs, None <- NoRun, active <- Active, starter <- Starter
ImplementsScriptTree == Tree!Spec

\* Once the deadline passes for a script that has not settled, it never answers ok,
\* whatever its calls and its snippet still come to.  A script that has settled may:
\* what drain_jobs let through is read back and answered however late it is.
OverdueFails ==
  \A r \in Scripts :
     []((r \in late /\ engine[r] \in {"queued", "js", "blocked"})
           => [](answer[r] # "ok"))

\* Every run is answered or dropped, and every engine leaves the pool, whatever
\* the scripts do, while there are more threads than scripts.
RunsFinish ==
  \A r \in Runs : engine[r] = "queued" ~> engine[r] \in Exits /\ host[r] # "select"

\* The pool is never full of runs that wait for snippets, all in its queue or
\* themselves waiting.  The code's reason for it: the engine blocks on the async
\* loop, "never the reverse, so no deadlock".
PoolNotWedged ==
  Cardinality(InPool) = PoolSize =>
     \E r \in InPool : \A k \in Children(r) : engine[k] \notin {"queued", "blocked"}
=============================================================================
