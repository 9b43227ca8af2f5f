--------------------------- MODULE ActionDispatch ---------------------------
(***************************************************************************)
(* How one action reaches one upstream service, from each of the three     *)
(* surfaces: an MCP tool call (src/src/mcp/rmcp_server.rs), a CLI command  *)
(* (src/src/cli.rs) and a callTool of a running Code Mode script           *)
(* (src/src/app/codemode.rs). The surfaces differ in how they obtain       *)
(* consent for a destructive action (a prompt with a deadline, --confirm,  *)
(* or not at all) and share one dispatcher, one service lookup and the     *)
(* confirm gate of the app layer. Paths, bodies and other parameters are   *)
(* left out: the requests considered carry valid ones.                     *)
(***************************************************************************)
EXTENDS Naturals, Sequences

CONSTANTS
    Calls,                \* identities of calls, each issued at most once
    Configurations,       \* the service lists the server may be started with
    Requests,             \* what callers may ask
    Kinds,                \* ServiceKind, as the strings as_str() returns
    CapabilityOf,         \* ServiceKind::capability
    CuratedCapability,    \* curated command |-> the capability it belongs to
    ReadCommands,         \* curated commands whose required scope is read
    DestructiveCommands,  \* curated commands flagged destructive
    Ops,                  \* <<kind, op>> in the generated operation tables
    DeleteOps,            \* ... those whose method is DELETE
    NoCall                \* "no parent": the call did not come from a script

Surfaces == {"mcp", "cli", "script"}
Service == [name : STRING, kind : Kinds, url : BOOLEAN]
Request == [surface : Surfaces, tool : STRING, action : STRING,
            service : STRING, op : STRING, confirm : BOOLEAN,
            elicits : BOOLEAN, auth : BOOLEAN, scopes : SUBSET {"read", "write"}]

ASSUME ConstantsAssumption ==
    /\ Configurations \subseteq Seq(Service)
    /\ Requests \subseteq Request
    /\ CapabilityOf \in [Kinds -> STRING]
    /\ DestructiveCommands \subseteq DOMAIN CuratedCapability
    /\ DeleteOps \subseteq Ops
    /\ NoCall \notin Calls
    /\ Requests # {}

VARIABLES
    services,   \* RustarrService.services, in declaration order
    override,   \* RUSTARR_ALLOW_DESTRUCTIVE is set
    mounted,    \* the auth policy is Mounted: calls carry scopes
    req,        \* what each call asked
    parent,     \* the script a call came from
    phase,      \* where each call is
    confirm,    \* the `confirm` argument dispatch will see
    answer,     \* what became of the call's prompt
    sent        \* the upstream request the call issued, if any

vars == <<services, override, mounted, req, parent, phase, confirm, answer, sent>>
setup == <<services, override, mounted>>

Phases == {"idle", "received", "prompting", "dispatch", "running", "done"}
Answers == {"none", "accepted", "refused", "expired", "late"}
Nothing == [to |-> 0, effect |-> "none"]
----------------------------------------------------------------------------
(* The registry. *)

Infra == {"help", "codemode", "snippet_list", "snippet_save", "snippet_run",
          "snippet_delete"}
Targeted == {"service_status", "api_get", "api_post", "api_put", "api_delete", "op"}
Generic == Infra \cup Targeted
Known(a) == a \in Generic \cup DOMAIN CuratedCapability

ActionIsDestructive(a) == a = "api_delete" \/ a \in DestructiveCommands

RequiredScope(a) ==
    CASE a = "help" -> "none"
      [] a \in {"service_status", "snippet_list"} \cup ReadCommands -> "read"
      [] OTHER -> "write"

ScopesSatisfy(scopes, need) ==
    need = "none" \/ need \in scopes \/ (need = "read" /\ "write" \in scopes)

ActionAllowedForKind(a, kind) ==
    \/ a \in Generic
    \/ a \in DOMAIN CuratedCapability /\ CuratedCapability[a] = CapabilityOf[kind]

Matches(list, asked) ==
    {i \in DOMAIN list : list[i].name = asked \/ list[i].kind = asked}

\* A later declaration shadows an earlier one, as in a map keyed by name.
BugFinds(list, asked, i) ==
    i \in Matches(list, asked) /\ \A j \in Matches(list, asked) : j <= i

(* The lookup every surface and every gate uses finds the first declared     *)
(* service whose name or kind is the asked string.                           *)
Finds(list, asked, i) ==
    i \in Matches(list, asked) /\ \A j \in Matches(list, asked) : i <= j

OpIsDestructiveDelete(asked, op) ==
    \E i \in DOMAIN services :
        Finds(services, asked, i) /\ <<services[i].kind, op>> \in DeleteOps
----------------------------------------------------------------------------
(* The tool `yarr` stands for the action codemode; a service tool is named   *)
(* for its kind, and that name is the service the call addresses.            *)
NamedAction(r) ==
    IF r.surface = "mcp" /\ r.action = "none" /\ r.tool = "yarr" THEN "codemode"
    ELSE r.action
ActionRun(r) == IF r.surface = "mcp" /\ r.tool = "yarr" THEN "codemode" ELSE r.action
Asked(r) == IF r.surface = "mcp" THEN r.tool ELSE r.service

Init ==
    /\ services \in Configurations
    /\ override \in BOOLEAN
    /\ mounted \in BOOLEAN
    /\ req \in [Calls -> {CHOOSE r \in Requests : TRUE}]
    /\ parent = [c \in Calls |-> NoCall]
    /\ phase = [c \in Calls |-> "idle"]
    /\ confirm = [c \in Calls |-> FALSE]
    /\ answer = [c \in Calls |-> "none"]
    /\ sent = [c \in Calls |-> Nothing]

Move(c, p) == phase' = [phase EXCEPT ![c] = p]

(* A caller issues a call; a script's calls exist only while it runs.        *)
Issue(c, r, p) ==
    /\ phase[c] = "idle"
    /\ IF r.surface = "script" THEN p \in Calls /\ phase[p] = "running" ELSE p = NoCall
    /\ req' = [req EXCEPT ![c] = r]
    /\ parent' = [parent EXCEPT ![c] = p]
    /\ confirm' = [confirm EXCEPT ![c] = r.confirm]
    /\ Move(c, "received")
    /\ UNCHANGED <<setup, answer, sent>>
----------------------------------------------------------------------------
(* call_tool, up to the first await: authentication, unknown actions, scope, *)
(* then the destructive gate.                                                *)
Admitted(r) ==
    LET a == NamedAction(r)
    IN  /\ mounted => r.auth
        /\ a = "none" \/ Known(a)
        /\ mounted /\ a # "none" => ScopesSatisfy(r.scopes, RequiredScope(a))

NeedsPrompt(r) ==
    /\ ActionIsDestructive(NamedAction(r))
    /\ ~r.confirm
    /\ r.elicits

McpGate(c) ==
    /\ phase[c] = "received" /\ req[c].surface = "mcp"
    /\ Move(c, IF ~Admitted(req[c]) THEN "done"
               ELSE IF NeedsPrompt(req[c]) THEN "prompting" ELSE "dispatch")
    /\ UNCHANGED <<setup, req, parent, confirm, answer, sent>>

(* The prompt's outcomes. Only an explicit confirm=true proceeds; a refusal, *)
(* an empty or malformed answer and a transport error all decline.           *)
Accept(c) ==
    /\ phase[c] = "prompting"
    /\ answer' = [answer EXCEPT ![c] = "accepted"]
    /\ confirm' = [confirm EXCEPT ![c] = TRUE]
    /\ Move(c, "dispatch")
    /\ UNCHANGED <<setup, req, parent, sent>>

Refuse(c) ==
    /\ phase[c] = "prompting"
    /\ answer' = [answer EXCEPT ![c] = "refused"]
    /\ Move(c, "done")
    /\ UNCHANGED <<setup, req, parent, confirm, sent>>

\* A prompt that times out is taken for a client that cannot be prompted.
BugExpire(c) ==
    /\ phase[c] = "prompting"
    /\ answer' = [answer EXCEPT ![c] = "expired"]
    /\ Move(c, "dispatch")
    /\ UNCHANGED <<setup, req, parent, confirm, sent>>

\* No deadline on the prompt.
BugExpireNever(c) == FALSE /\ answer[c] = "none"

Expire(c) ==
    /\ phase[c] = "prompting"
    /\ answer' = [answer EXCEPT ![c] = "expired"]
    /\ Move(c, "done")
    /\ UNCHANGED <<setup, req, parent, confirm, sent>>

(* The user accepts after the deadline: the reply matches no pending prompt. *)
LateAnswer(c) ==
    /\ answer[c] = "expired"
    /\ answer' = [answer EXCEPT ![c] = "late"]
    /\ UNCHANGED <<setup, req, parent, phase, confirm, sent>>
----------------------------------------------------------------------------
(* The CLI gates a generated DELETE itself; api_delete and the destructive   *)
(* commands it leaves to the app layer.                                      *)
CliGate(c) ==
    /\ phase[c] = "received" /\ req[c].surface = "cli"
    /\ Move(c, IF /\ req[c].action = "op"
                  /\ ~confirm[c] /\ ~override
                  /\ OpIsDestructiveDelete(req[c].service, req[c].op)
               THEN "done" ELSE "dispatch")
    /\ UNCHANGED <<setup, req, parent, confirm, answer, sent>>

(* codemode_dispatch: no recursion, snippets one level deep, and nothing     *)
(* destructive, whatever `confirm` the script passes.                        *)
ScriptMay(c) ==
    LET a == req[c].action
    IN  /\ a # "codemode" /\ Known(a)
        /\ a = "snippet_run" => ActionRun(req[parent[c]]) # "snippet_run"
        /\ \/ override
           \/ /\ ~ActionIsDestructive(a)
              /\ a = "op" => ~OpIsDestructiveDelete(req[c].service, req[c].op)

ScriptGate(c) ==
    /\ phase[c] = "received" /\ req[c].surface = "script"
    /\ Move(c, IF ScriptMay(c) THEN "dispatch" ELSE "done")
    /\ UNCHANGED <<setup, req, parent, confirm, answer, sent>>
----------------------------------------------------------------------------
\* The confirmation gate of the app layer is left to the surfaces.
BugAppGate(a, confirmed) == TRUE

(* The app layer's own gate, which every surface ends in.                    *)
AppGate(a, confirmed) == ActionIsDestructive(a) => confirmed \/ override

(* What execute_service_action and the handler accept: a known tool, a       *)
(* configured service, an action of its kind, and consent.                   *)
Routable(c, i) ==
    LET r == req[c]  a == ActionRun(r)
    IN  /\ r.surface = "mcp" => r.tool \in Kinds
        /\ a \in Targeted \cup DOMAIN CuratedCapability
        /\ Finds(services, Asked(r), i) /\ services[i].url
        /\ ActionAllowedForKind(a, services[i].kind)
        /\ a = "op" => <<services[i].kind, r.op>> \in Ops
        /\ AppGate(a, confirm[c])

Effect(a, kind, op) ==
    IF ActionIsDestructive(a) \/ (a = "op" /\ <<kind, op>> \in DeleteOps)
    THEN "delete" ELSE "other"

Upstream(c, i) ==
    [to |-> i, effect |-> Effect(ActionRun(req[c]), services[i].kind, req[c].op)]

\* The dispatcher sends and forgets: the call is handled a second time.
BugSend(c) ==
    /\ phase[c] = "dispatch"
    /\ \E i \in DOMAIN services :
          Routable(c, i) /\ sent' = [sent EXCEPT ![c] = Upstream(c, i)]
    /\ Move(c, "received")
    /\ UNCHANGED <<setup, req, parent, confirm, answer>>

(* execute_service_action, for an action that addresses a service: the one   *)
(* request goes out, or the call is rejected.                                *)
Send(c) ==
    /\ phase[c] = "dispatch"
    /\ \E i \in DOMAIN services :
          Routable(c, i) /\ sent' = [sent EXCEPT ![c] = Upstream(c, i)]
    /\ Move(c, "done")
    /\ UNCHANGED <<setup, req, parent, confirm, answer>>

Reject(c) ==
    /\ phase[c] = "dispatch" /\ ActionRun(req[c]) \notin Infra
    /\ \A i \in DOMAIN services : ~Routable(c, i)
    /\ Move(c, "done")
    /\ UNCHANGED <<setup, req, parent, confirm, answer, sent>>

(* ... for one that does not. A script runs until it ends; help and the  *)
(* snippet store answer at once.                                             *)
DispatchInfra(c) ==
    LET a == ActionRun(req[c])
    IN  /\ phase[c] = "dispatch" /\ a \in Infra
        /\ Move(c, IF a \in {"codemode", "snippet_run"} THEN "running" ELSE "done")
        /\ UNCHANGED <<setup, req, parent, confirm, answer, sent>>

\* A script ends without waiting for the snippet one of its calls runs.
BugScriptEnds(c) ==
    /\ phase[c] = "running"
    /\ Move(c, "done")
    /\ UNCHANGED <<setup, req, parent, confirm, answer, sent>>

ScriptEnds(c) ==
    /\ phase[c] = "running"
    /\ \A d \in Calls : parent[d] = c => phase[d] = "done"
    /\ Move(c, "done")
    /\ UNCHANGED <<setup, req, parent, confirm, answer, sent>>

Next ==
    \E c \in Calls :
        \/ \E r \in Requests, p \in Calls \cup {NoCall} : Issue(c, r, p)
        \/ McpGate(c) \/ Accept(c) \/ Refuse(c) \/ Expire(c) \/ LateAnswer(c)
        \/ CliGate(c) \/ ScriptGate(c)
        \/ Send(c) \/ Reject(c) \/ DispatchInfra(c) \/ ScriptEnds(c)

Spec == Init /\ [][Next]_vars

(* The server's own steps happen: handlers run, and the prompt's deadline    *)
(* passes. Nothing obliges a user to answer or a caller to call.             *)
Serve(c) ==
    \/ McpGate(c) \/ CliGate(c) \/ ScriptGate(c) \/ Expire(c)
    \/ Send(c) \/ Reject(c) \/ DispatchInfra(c) \/ ScriptEnds(c)
FairSpec == Spec /\ \A c \in Calls : WF_vars(Serve(c))
----------------------------------------------------------------------------
(* Types, and that a call sends at most one request, as its last step.       *)
TypeOK ==
    /\ services \in Configurations
    /\ override \in BOOLEAN /\ mounted \in BOOLEAN
    /\ req \in [Calls -> Requests]
    /\ parent \in [Calls -> Calls \cup {NoCall}]
    /\ phase \in [Calls -> Phases]
    /\ confirm \in [Calls -> BOOLEAN]
    /\ answer \in [Calls -> Answers]
    /\ sent \in [Calls -> [to : 0 .. Len(services), effect : {"none", "other", "delete"}]]
    /\ \A c \in Calls : sent[c] # Nothing => phase[c] = "done"

(* Nothing is deleted upstream without consent (registry.rs:375-380): the    *)
(* caller's own confirm on the MCP and CLI surfaces, a prompt accepted       *)
(* before its deadline, or the test-stack override; a script's own confirm   *)
(* does not count. A generated DELETE called through a service tool is the   *)
(* one way around it, which execute_operation leaves ungated.                *)
Consented(c) ==
    \/ override
    \/ req[c].surface # "script" /\ (req[c].confirm \/ answer[c] = "accepted")
UngatedOp(c) == req[c].surface = "mcp" /\ req[c].action = "op"
DeleteHadConsent ==
    \A c \in Calls : sent[c].effect = "delete" => Consented(c) \/ UngatedOp(c)

(* A prompt refused, or left unanswered past its deadline, changes nothing:  *)
(* not when the answer arrives late, and not even where the override would   *)
(* have let the delete through without a prompt (elicit.rs:22-25).           *)
RefusalSendsNothing ==
    \A c \in Calls : answer[c] \in {"refused", "expired", "late"} => sent[c] = Nothing

(* A service addressed by its configured name is the one reached.            *)
NameReachesItsService ==
    \A c \in Calls : sent[c] # Nothing =>
        \A i \in DOMAIN services :
            services[i].name = Asked(req[c]) => services[sent[c].to].name = Asked(req[c])

(* ... which holds of every service list that declares a service named for a *)
(* kind before the other services of that kind.                              *)
NamesakeFirst ==
    \A i, j \in DOMAIN services :
        services[i].kind = services[j].name /\ services[i].name # services[j].name => j < i
NamesakeReached == NamesakeFirst => NameReachesItsService

(* The scripts that codemode and snippet_run run implement ScriptTree, the   *)
(* gates of codemode_dispatch being all that keeps a script's own calls from *)
(* starting more (in_snippet).                                               *)
Scripting == {c \in Calls : phase[c] = "running"}
Tree == INSTANCE ScriptTree
          WITH Ids <- Calls, None <- NoCall, active <- Scripting,
               starter <- [c \in Calls |-> IF c \in Scripting THEN parent[c] ELSE NoCall]
ScriptsFormTree == Tree!Spec

(* Every call is answered: a prompt nobody answers ends at its deadline      *)
(* instead of holding the request open (elicit.rs:22-26).                    *)
CallsEnd == \A c \in Calls : (phase[c] = "received") ~> (phase[c] = "done")
=============================================================================
