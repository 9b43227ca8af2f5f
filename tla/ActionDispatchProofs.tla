------------------------ MODULE ActionDispatchProofs ------------------------
(* What ActionDispatch guarantees for every list of services, every set of   *)
(* requests and every registry of actions. The inductive invariant adds to   *)
(* the type invariant what each gate has established when it lets a call     *)
(* through: where `confirm` came from, and what was vetted before dispatch.  *)
EXTENDS ActionDispatch, TLAPS

(* THEOREM DispatchTyped: variables keep their types, and a call that has    *)
(* sent its request is over.                                                 *)
THEOREM DispatchTyped == Spec => []TypeOK
<1>1. Init => TypeOK
  BY ConstantsAssumption DEF Init, TypeOK, Nothing, Phases, Answers
<1>2. TypeOK /\ [Next]_vars => TypeOK'
  <2> SUFFICES ASSUME TypeOK, [Next]_vars PROVE TypeOK'
    OBVIOUS
  <2> USE DEF TypeOK, Phases, Answers, Move, setup, Nothing
  <2>1. ASSUME NEW c \in Calls, NEW r \in Requests, NEW p \in Calls \cup {NoCall},
               Issue(c, r, p)
        PROVE  TypeOK'
    <3>1. r.confirm \in BOOLEAN
      BY ConstantsAssumption DEF Request
    <3>2. QED
      BY <2>1, <3>1 DEF Issue
  <2>2. ASSUME NEW c \in Calls, McpGate(c) PROVE TypeOK'
    BY <2>2 DEF McpGate
  <2>3. ASSUME NEW c \in Calls, Accept(c) PROVE TypeOK'
    BY <2>3 DEF Accept
  <2>4. ASSUME NEW c \in Calls, Refuse(c) PROVE TypeOK'
    BY <2>4 DEF Refuse
  <2>5. ASSUME NEW c \in Calls, Expire(c) PROVE TypeOK'
    BY <2>5 DEF Expire
  <2>6. ASSUME NEW c \in Calls, LateAnswer(c) PROVE TypeOK'
    BY <2>6 DEF LateAnswer
  <2>7. ASSUME NEW c \in Calls, CliGate(c) PROVE TypeOK'
    BY <2>7 DEF CliGate
  <2>8. ASSUME NEW c \in Calls, ScriptGate(c) PROVE TypeOK'
    BY <2>8 DEF ScriptGate
  <2>9. ASSUME NEW c \in Calls, Send(c) PROVE TypeOK'
    <3>1. PICK i \in DOMAIN services : sent' = [sent EXCEPT ![c] = Upstream(c, i)]
      BY <2>9 DEF Send
    <3>2. DOMAIN services = 1 .. Len(services) /\ Len(services) \in Nat
      BY ConstantsAssumption
    <3>3. Upstream(c, i) \in [to : 0 .. Len(services), effect : {"none", "other", "delete"}]
      BY <3>2 DEF Upstream, Effect
    <3>4. QED
      BY <2>9, <3>1, <3>3 DEF Send
  <2>10. ASSUME NEW c \in Calls, Reject(c) PROVE TypeOK'
    BY <2>10 DEF Reject
  <2>11. ASSUME NEW c \in Calls, DispatchInfra(c) PROVE TypeOK'
    BY <2>11 DEF DispatchInfra
  <2>12. ASSUME NEW c \in Calls, ScriptEnds(c) PROVE TypeOK'
    BY <2>12 DEF ScriptEnds
  <2>13. CASE UNCHANGED vars
    BY <2>13 DEF vars
  <2>14. QED
    BY <2>1, <2>2, <2>3, <2>4, <2>5, <2>6, <2>7, <2>8, <2>9, <2>10, <2>11, <2>12,
       <2>13 DEF Next
<1>3. QED
  BY <1>1, <1>2, PTL DEF Spec
----------------------------------------------------------------------------
(* What was vetted before a call entered dispatch.                           *)
Harmless(c) ==
    /\ ~ActionIsDestructive(ActionRun(req[c]))
    /\ req[c].action = "op" => ~OpIsDestructiveDelete(req[c].service, req[c].op)
Vetted(c) ==
    /\ req[c].surface = "script" => override \/ Harmless(c)
    /\ req[c].surface = "cli" /\ req[c].action = "op" =>
          override \/ req[c].confirm
          \/ ~OpIsDestructiveDelete(req[c].service, req[c].op)

(* Where a call's prompt, its confirm argument and its request came from.    *)
PromptInv(c) ==
    /\ phase[c] \in {"idle", "received", "prompting"} => answer[c] = "none"
    /\ phase[c] = "prompting" \/ answer[c] # "none" => req[c].surface = "mcp"
    /\ answer[c] \in {"refused", "expired", "late"} => phase[c] = "done" /\ sent[c] = Nothing
ConfirmInv(c) == phase[c] # "idle" /\ confirm[c] => req[c].confirm \/ answer[c] = "accepted"
SentInv(c) ==
    sent[c] # Nothing =>
        /\ sent[c].to \in DOMAIN services
        /\ Finds(services, Asked(req[c]), sent[c].to)
        /\ sent[c].effect = "delete" => Consented(c) \/ UngatedOp(c)
CallInv(c) ==
    /\ PromptInv(c) /\ ConfirmInv(c) /\ SentInv(c)
    /\ phase[c] = "dispatch" => Vetted(c)
IInv == TypeOK /\ \A c \in Calls : CallInv(c)

(* The one step that reaches upstream: what the gates vetted and the app     *)
(* layer checked is together enough for consent.                             *)
LEMMA SendConsented ==
    ASSUME NEW c \in Calls, NEW i \in DOMAIN services, TypeOK, CallInv(c),
           phase[c] = "dispatch", Routable(c, i), Upstream(c, i).effect = "delete"
    PROVE  Consented(c) \/ UngatedOp(c)
<1> DEFINE a == ActionRun(req[c])
<1>1. req[c].surface \in Surfaces
  BY ConstantsAssumption DEF TypeOK, Request
<1>2. Vetted(c) /\ ConfirmInv(c) /\ PromptInv(c)
  BY DEF CallInv
<1>3. CASE ActionIsDestructive(a)
  <2>1. confirm[c] \/ override
    BY <1>3 DEF Routable, AppGate
  <2>2. confirm[c] => req[c].confirm \/ answer[c] = "accepted"
    BY <1>2 DEF ConfirmInv
  <2>3. req[c].surface = "script" => override
    BY <1>2, <1>3 DEF Vetted, Harmless
  <2>4. QED
    BY <2>1, <2>2, <2>3 DEF Consented
<1>4. CASE a = "op" /\ <<services[i].kind, req[c].op>> \in DeleteOps
  <2>1. req[c].action = "op"
    BY <1>4 DEF ActionRun
  <2>2. CASE req[c].surface = "mcp"
    BY <2>1, <2>2 DEF UngatedOp
  <2>3. CASE req[c].surface \in {"cli", "script"}
    <3>1. OpIsDestructiveDelete(req[c].service, req[c].op)
      BY <1>4, <2>3 DEF OpIsDestructiveDelete, Routable, Asked
    <3>2. override \/ (req[c].surface = "cli" /\ req[c].confirm)
      BY <1>2, <2>1, <2>3, <3>1 DEF Vetted, Harmless
    <3>3. QED
      BY <3>2 DEF Consented
  <2>4. QED
    BY <1>1, <2>2, <2>3 DEF Surfaces
<1>5. QED
  BY <1>3, <1>4 DEF Upstream, Effect

(* A call no step touches keeps its invariant.                               *)
LEMMA Untouched ==
    ASSUME NEW d \in Calls, CallInv(d), UNCHANGED setup,
           req'[d] = req[d], phase'[d] = phase[d], confirm'[d] = confirm[d],
           answer'[d] = answer[d], sent'[d] = sent[d]
    PROVE  CallInv(d)'
<1>1. UNCHANGED <<services, override>>
  BY DEF setup
<1>2. PromptInv(d)' /\ ConfirmInv(d)'
  BY DEF CallInv, PromptInv, ConfirmInv
<1>3. SentInv(d)'
  BY <1>1 DEF CallInv, SentInv, Finds, Matches, Asked, Consented, UngatedOp
<1>4. (phase[d] = "dispatch" => Vetted(d))'
  BY <1>1 DEF CallInv, Vetted, Harmless, OpIsDestructiveDelete, Finds, Matches,
       ActionIsDestructive, ActionRun
<1>5. QED
  BY <1>2, <1>3, <1>4 DEF CallInv

LEMMA InvariantStep == IInv /\ TypeOK' /\ [Next]_vars => IInv'
<1> SUFFICES ASSUME IInv, TypeOK', [Next]_vars, NEW d \in Calls
             PROVE  CallInv(d)'
  BY DEF IInv
<1>1. TypeOK /\ CallInv(d)
  BY DEF IInv
<1> USE DEF TypeOK, Move, setup, Nothing
<1>2. ASSUME NEW c \in Calls, NEW r \in Requests, NEW p \in Calls \cup {NoCall},
             Issue(c, r, p)
      PROVE  CallInv(d)'
  <2>1. CASE d # c
    BY <1>1, <1>2, <2>1, Untouched DEF Issue
  <2>2. CASE d = c
    <3>1. sent[d] = Nothing /\ answer[d] = "none"
      BY <1>1, <1>2, <2>2 DEF Issue, CallInv, PromptInv
    <3>2. QED
      BY <1>1, <1>2, <2>2, <3>1 DEF Issue, CallInv, PromptInv, ConfirmInv, SentInv
  <2>3. QED
    BY <2>1, <2>2
<1>3. ASSUME NEW c \in Calls, McpGate(c) PROVE CallInv(d)'
  <2>1. CASE d # c
    BY <1>1, <1>3, <2>1, Untouched DEF McpGate
  <2>2. CASE d = c
    <3>1. sent[d] = Nothing /\ answer[d] = "none"
      BY <1>1, <1>3, <2>2 DEF McpGate, CallInv, PromptInv
    <3>2. QED
      BY <1>1, <1>3, <2>2, <3>1
         DEF McpGate, CallInv, PromptInv, ConfirmInv, SentInv, Vetted
  <2>3. QED
    BY <2>1, <2>2
<1>4. ASSUME NEW c \in Calls, Accept(c) PROVE CallInv(d)'
  <2>1. CASE d # c
    BY <1>1, <1>4, <2>1, Untouched DEF Accept
  <2>2. CASE d = c
    <3>1. sent[d] = Nothing /\ req[d].surface = "mcp"
      BY <1>1, <1>4, <2>2 DEF Accept, CallInv, PromptInv
    <3>2. QED
      BY <1>1, <1>4, <2>2, <3>1
         DEF Accept, CallInv, PromptInv, ConfirmInv, SentInv, Vetted
  <2>3. QED
    BY <2>1, <2>2
<1>5. ASSUME NEW c \in Calls, Refuse(c) PROVE CallInv(d)'
  <2>1. CASE d # c
    BY <1>1, <1>5, <2>1, Untouched DEF Refuse
  <2>2. CASE d = c
    BY <1>1, <1>5, <2>2 DEF Refuse, CallInv, PromptInv, ConfirmInv, SentInv
  <2>3. QED
    BY <2>1, <2>2
<1>6. ASSUME NEW c \in Calls, Expire(c) PROVE CallInv(d)'
  <2>1. CASE d # c
    BY <1>1, <1>6, <2>1, Untouched DEF Expire
  <2>2. CASE d = c
    BY <1>1, <1>6, <2>2 DEF Expire, CallInv, PromptInv, ConfirmInv, SentInv
  <2>3. QED
    BY <2>1, <2>2
<1>7. ASSUME NEW c \in Calls, LateAnswer(c) PROVE CallInv(d)'
  <2>1. CASE d # c
    BY <1>1, <1>7, <2>1, Untouched DEF LateAnswer
  <2>2. CASE d = c
    BY <1>1, <1>7, <2>2 DEF LateAnswer, CallInv, PromptInv, ConfirmInv, SentInv
  <2>3. QED
    BY <2>1, <2>2
<1>8. ASSUME NEW c \in Calls, CliGate(c) PROVE CallInv(d)'
  <2>1. CASE d # c
    BY <1>1, <1>8, <2>1, Untouched DEF CliGate
  <2>2. CASE d = c
    <3>1. sent[d] = Nothing /\ answer[d] = "none" /\ req[d].surface = "cli"
      BY <1>1, <1>8, <2>2 DEF CliGate, CallInv, PromptInv
    <3>2. confirm[d] => req[d].confirm
      BY <1>1, <1>8, <2>2, <3>1 DEF CliGate, CallInv, ConfirmInv
    <3>3. (phase[d] = "dispatch" => Vetted(d))'
      BY <1>1, <1>8, <2>2, <3>1, <3>2
         DEF CliGate, Vetted, OpIsDestructiveDelete, Finds, Matches
    <3>4. QED
      BY <1>1, <1>8, <2>2, <3>1, <3>3
         DEF CliGate, CallInv, PromptInv, ConfirmInv, SentInv
  <2>3. QED
    BY <2>1, <2>2
<1>9. ASSUME NEW c \in Calls, ScriptGate(c) PROVE CallInv(d)'
  <2>1. CASE d # c
    BY <1>1, <1>9, <2>1, Untouched DEF ScriptGate
  <2>2. CASE d = c
    <3>1. sent[d] = Nothing /\ answer[d] = "none" /\ req[d].surface = "script"
      BY <1>1, <1>9, <2>2 DEF ScriptGate, CallInv, PromptInv
    <3>2. (phase[d] = "dispatch" => Vetted(d))'
      BY <1>1, <1>9, <2>2, <3>1
         DEF ScriptGate, ScriptMay, Vetted, Harmless, ActionRun, ActionIsDestructive,
             OpIsDestructiveDelete, Finds, Matches
    <3>3. QED
      BY <1>1, <1>9, <2>2, <3>1, <3>2
         DEF ScriptGate, CallInv, PromptInv, ConfirmInv, SentInv
  <2>3. QED
    BY <2>1, <2>2
<1>10. ASSUME NEW c \in Calls, Send(c) PROVE CallInv(d)'
  <2>1. PICK i \in DOMAIN services :
            Routable(c, i) /\ sent' = [sent EXCEPT ![c] = Upstream(c, i)]
    BY <1>10 DEF Send
  <2>2. CASE d # c
    BY <1>1, <1>10, <2>1, <2>2, Untouched DEF Send
  <2>3. CASE d = c
    <3>1. sent'[d] = Upstream(d, i) /\ phase[d] = "dispatch" /\ phase'[d] = "done"
      BY <1>1, <1>10, <2>1, <2>3 DEF Send
    <3>2. Upstream(d, i).effect = "delete" => Consented(d) \/ UngatedOp(d)
      BY <1>1, <2>1, <2>3, <3>1, SendConsented
    <3>3. Finds(services, Asked(req[d]), i)
      BY <2>1, <2>3 DEF Routable
    <3>4. SentInv(d)'
      BY <1>10, <3>1, <3>2, <3>3
         DEF Send, SentInv, Upstream, Finds, Matches, Asked, Consented, UngatedOp
    <3>5. (PromptInv(d) /\ ConfirmInv(d))'
      BY <1>1, <1>10, <3>1 DEF Send, CallInv, PromptInv, ConfirmInv
    <3>6. QED
      BY <3>1, <3>4, <3>5 DEF CallInv
  <2>4. QED
    BY <2>2, <2>3
<1>11. ASSUME NEW c \in Calls, Reject(c) PROVE CallInv(d)'
  <2>1. CASE d # c
    BY <1>1, <1>11, <2>1, Untouched DEF Reject
  <2>2. CASE d = c
    BY <1>1, <1>11, <2>2 DEF Reject, CallInv, PromptInv, ConfirmInv, SentInv
  <2>3. QED
    BY <2>1, <2>2
<1>12. ASSUME NEW c \in Calls, DispatchInfra(c) PROVE CallInv(d)'
  <2>1. CASE d # c
    BY <1>1, <1>12, <2>1, Untouched DEF DispatchInfra
  <2>2. CASE d = c
    BY <1>1, <1>12, <2>2 DEF DispatchInfra, CallInv, PromptInv, ConfirmInv, SentInv
  <2>3. QED
    BY <2>1, <2>2
<1>13. ASSUME NEW c \in Calls, ScriptEnds(c) PROVE CallInv(d)'
  <2>1. CASE d # c
    BY <1>1, <1>13, <2>1, Untouched DEF ScriptEnds
  <2>2. CASE d = c
    BY <1>1, <1>13, <2>2 DEF ScriptEnds, CallInv, PromptInv, ConfirmInv, SentInv
  <2>3. QED
    BY <2>1, <2>2
<1>14. CASE UNCHANGED vars
  BY <1>1, <1>14, Untouched DEF vars
<1>15. QED
  BY <1>2, <1>3, <1>4, <1>5, <1>6, <1>7, <1>8, <1>9, <1>10, <1>11, <1>12, <1>13, <1>14
     DEF Next

LEMMA InvariantHolds == Spec => []IInv
<1>1. Init => \A c \in Calls : CallInv(c)
  BY DEF Init, CallInv, PromptInv, ConfirmInv, SentInv, Nothing
<1>2. QED
  BY <1>1, DispatchTyped, InvariantStep, PTL DEF Spec, IInv

(* THEOREM DeletesConsented: DeleteHadConsent, for any registry and any      *)
(* services: whatever deletes upstream had consent, but for a generated      *)
(* DELETE called through an MCP service tool (UngatedOp), which no gate      *)
(* stops. It takes the app layer's gate and each surface's gate together.    *)
THEOREM DeletesConsented == Spec => []DeleteHadConsent
<1>1. IInv => DeleteHadConsent
  <2> SUFFICES ASSUME IInv, NEW c \in Calls, sent[c].effect = "delete"
               PROVE  Consented(c) \/ UngatedOp(c)
    BY DEF DeleteHadConsent
  <2>1. sent[c] # Nothing
    BY DEF Nothing
  <2>2. QED
    BY <2>1 DEF IInv, CallInv, SentInv
<1>2. QED
  BY <1>1, InvariantHolds, PTL

(* THEOREM RefusalsHold: RefusalSendsNothing, override or not.               *)
THEOREM RefusalsHold == Spec => []RefusalSendsNothing
<1>1. IInv => RefusalSendsNothing
  BY DEF IInv, CallInv, PromptInv, RefusalSendsNothing
<1>2. QED
  BY <1>1, InvariantHolds, PTL

(* THEOREM NamesakesReached: NamesakeReached, for every list of services.    *)
THEOREM NamesakesReached == Spec => []NamesakeReached
<1>1. IInv => NamesakeReached
  <2> SUFFICES ASSUME IInv, NamesakeFirst, NEW c \in Calls, sent[c] # Nothing,
                      NEW i \in DOMAIN services, services[i].name = Asked(req[c])
               PROVE  services[sent[c].to].name = Asked(req[c])
    BY DEF NamesakeReached, NameReachesItsService
  <2> DEFINE t == sent[c].to
  <2>1. t \in DOMAIN services /\ Finds(services, Asked(req[c]), t)
    BY DEF IInv, CallInv, SentInv
  <2>2. t <= i
    BY <2>1 DEF Finds, Matches
  <2>3. services \in Seq(Service)
    BY ConstantsAssumption DEF IInv, TypeOK
  <2>4. t \in Nat /\ i \in Nat
    BY <2>1, <2>3
  <2>5. CASE services[t].name # Asked(req[c])
    <3>1. services[t].kind = services[i].name
      BY <2>1, <2>5 DEF Finds, Matches
    <3>2. i < t
      BY <2>1, <2>5, <3>1 DEF NamesakeFirst
    <3>3. QED
      BY <2>2, <2>4, <3>2
  <2>6. QED
    BY <2>5
<1>2. QED
  BY <1>1, InvariantHolds, PTL
----------------------------------------------------------------------------
(* The calls of scripts. A call that a script made is over before the script *)
(* is; a script started by a script is a snippet and starts none.            *)
FamilyInv(c) ==
    /\ phase[c] \in {"idle", "prompting"} => parent[c] = NoCall
    /\ phase[c] # "idle" => (req[c].surface = "script" <=> parent[c] # NoCall)
    /\ phase[c] = "running" => ActionRun(req[c]) \in {"codemode", "snippet_run"}
    /\ parent[c] # NoCall =>
          /\ parent[c] \in Calls
          /\ phase[parent[c]] = "running" \/ (phase[c] = "done" /\ phase[parent[c]] = "done")
          /\ phase[c] \in {"dispatch", "running"} =>
                /\ req[c].action # "codemode"
                /\ req[c].action = "snippet_run" => ActionRun(req[parent[c]]) # "snippet_run"
NInv == TypeOK /\ \A c \in Calls : FamilyInv(c)

(* A step that moves one call, and neither issues it nor ends its script.    *)
LEMMA Moved ==
    ASSUME NInv, NEW c \in Calls, NEW q \in Phases, Move(c, q), UNCHANGED <<req, parent>>,
           phase[c] # "idle", q # "idle", phase[c] # "running", phase[c] # "done",
           q = "running" => ActionRun(req[c]) \in {"codemode", "snippet_run"},
           q = "dispatch" /\ phase[c] # "dispatch" /\ parent[c] # NoCall => ScriptMay(c),
           q = "running" => phase[c] = "dispatch",
           q = "prompting" => parent[c] = NoCall
    PROVE  \A d \in Calls : FamilyInv(d)'
<1>1. phase' = [phase EXCEPT ![c] = q] /\ phase \in [Calls -> Phases]
  BY DEF Move, NInv, TypeOK
<1> TAKE d \in Calls
<1>2. FamilyInv(d) /\ FamilyInv(c)
  BY DEF NInv
<1>3. \A e \in Calls : phase'[e] = IF e = c THEN q ELSE phase[e]
  BY <1>1
<1>4. CASE d # c
  BY <1>2, <1>3, <1>4 DEF FamilyInv
<1>5. CASE d = c
  <2>1. parent[c] # NoCall => parent[c] # c /\ parent[c] \in Calls /\ phase[parent[c]] = "running"
    BY <1>2 DEF FamilyInv
  <2>2. q \in {"dispatch", "running"} /\ parent[c] # NoCall =>
            /\ req[c].action # "codemode"
            /\ req[c].action = "snippet_run" => ActionRun(req[parent[c]]) # "snippet_run"
    BY <1>2 DEF FamilyInv, ScriptMay
  <2>3. QED
    BY <1>2, <1>3, <1>5, <2>1, <2>2 DEF FamilyInv
<1>6. QED
  BY <1>4, <1>5

LEMMA FamilyStep == NInv /\ TypeOK' /\ [Next]_vars => NInv'
<1> SUFFICES ASSUME NInv, TypeOK', [Next]_vars
             PROVE  \A d \in Calls : FamilyInv(d)'
  BY DEF NInv
<1>1. TypeOK /\ \A c \in Calls : FamilyInv(c)
  BY DEF NInv
<1>2. ASSUME NEW c \in Calls, NEW r \in Requests, NEW p \in Calls \cup {NoCall},
             Issue(c, r, p)
      PROVE  \A d \in Calls : FamilyInv(d)'
  <2>1. /\ phase[c] = "idle" /\ phase' = [phase EXCEPT ![c] = "received"]
        /\ req' = [req EXCEPT ![c] = r] /\ parent' = [parent EXCEPT ![c] = p]
        /\ r.surface = "script" <=> p # NoCall
        /\ p # NoCall => p \in Calls /\ phase[p] = "running" /\ p # c
    BY <1>2, ConstantsAssumption DEF Issue, Move
  <2> TAKE d \in Calls
  <2>2. CASE d = c
    BY <1>1, <2>1, <2>2 DEF TypeOK, FamilyInv
  <2>3. CASE d # c
    <3>1. parent[d] # NoCall => parent[d] # c
      BY <1>1, <2>1 DEF FamilyInv
    <3>2. QED
      BY <1>1, <2>1, <2>3, <3>1 DEF TypeOK, FamilyInv
  <2>4. QED
    BY <2>2, <2>3
<1>3. ASSUME NEW c \in Calls, McpGate(c) PROVE \A d \in Calls : FamilyInv(d)'
  <2>1. PICK q \in {"done", "prompting", "dispatch"} : Move(c, q)
    BY <1>3 DEF McpGate
  <2>2. parent[c] = NoCall /\ phase[c] = "received" /\ UNCHANGED <<req, parent>>
    BY <1>1, <1>3 DEF McpGate, FamilyInv
  <2>3. QED
    BY <2>1, <2>2, Moved DEF Phases
<1>4. ASSUME NEW c \in Calls, Accept(c) \/ Refuse(c) \/ Expire(c)
      PROVE  \A d \in Calls : FamilyInv(d)'
  <2>1. PICK q \in {"done", "dispatch"} : Move(c, q)
    BY <1>4 DEF Accept, Refuse, Expire
  <2>2. phase[c] = "prompting" /\ parent[c] = NoCall /\ UNCHANGED <<req, parent>>
    BY <1>1, <1>4 DEF Accept, Refuse, Expire, FamilyInv
  <2>3. QED
    BY <2>1, <2>2, Moved DEF Phases
<1>5. ASSUME NEW c \in Calls, LateAnswer(c) PROVE \A d \in Calls : FamilyInv(d)'
  BY <1>1, <1>5 DEF LateAnswer, FamilyInv
<1>6. ASSUME NEW c \in Calls, CliGate(c) PROVE \A d \in Calls : FamilyInv(d)'
  <2>1. PICK q \in {"done", "dispatch"} : Move(c, q)
    BY <1>6 DEF CliGate
  <2>2. parent[c] = NoCall /\ phase[c] = "received" /\ UNCHANGED <<req, parent>>
    BY <1>1, <1>6 DEF CliGate, FamilyInv
  <2>3. QED
    BY <2>1, <2>2, Moved DEF Phases
<1>7. ASSUME NEW c \in Calls, ScriptGate(c) PROVE \A d \in Calls : FamilyInv(d)'
  <2>1. PICK q \in {"done", "dispatch"} : Move(c, q) /\ (q = "dispatch" => ScriptMay(c))
    BY <1>7 DEF ScriptGate
  <2>2. phase[c] = "received" /\ UNCHANGED <<req, parent>>
    BY <1>7 DEF ScriptGate
  <2>3. QED
    BY <2>1, <2>2, Moved DEF Phases
<1>8. ASSUME NEW c \in Calls, Send(c) \/ Reject(c) PROVE \A d \in Calls : FamilyInv(d)'
  <2>1. Move(c, "done") /\ phase[c] = "dispatch" /\ UNCHANGED <<req, parent>>
    BY <1>8 DEF Send, Reject
  <2>2. QED
    BY <2>1, Moved DEF Phases
<1>9. ASSUME NEW c \in Calls, DispatchInfra(c) PROVE \A d \in Calls : FamilyInv(d)'
  <2>1. PICK q \in {"running", "done"} :
            /\ Move(c, q)
            /\ q = "running" => ActionRun(req[c]) \in {"codemode", "snippet_run"}
    BY <1>9 DEF DispatchInfra
  <2>2. phase[c] = "dispatch" /\ UNCHANGED <<req, parent>>
    BY <1>9 DEF DispatchInfra
  <2>3. QED
    BY <2>1, <2>2, Moved DEF Phases
<1>10. ASSUME NEW c \in Calls, ScriptEnds(c) PROVE \A d \in Calls : FamilyInv(d)'
  <2>1. /\ phase[c] = "running" /\ \A d \in Calls : parent[d] = c => phase[d] = "done"
        /\ phase' = [phase EXCEPT ![c] = "done"] /\ UNCHANGED <<req, parent>>
    BY <1>10 DEF ScriptEnds, Move
  <2> TAKE d \in Calls
  <2>2. \A e \in Calls : phase'[e] = IF e = c THEN "done" ELSE phase[e]
    BY <1>1, <2>1 DEF TypeOK
  <2>3. CASE d = c
    BY <1>1, <2>1, <2>2, <2>3 DEF FamilyInv
  <2>4. CASE d # c
    BY <1>1, <2>1, <2>2, <2>4 DEF FamilyInv
  <2>5. QED
    BY <2>3, <2>4
<1>11. CASE UNCHANGED vars
  BY <1>1, <1>11 DEF vars, FamilyInv
<1>12. QED
  BY <1>2, <1>3, <1>4, <1>5, <1>6, <1>7, <1>8, <1>9, <1>10, <1>11 DEF Next

LEMMA FamilyHolds == Spec => []NInv
<1>1. Init => \A c \in Calls : FamilyInv(c)
  BY DEF Init, FamilyInv
<1>2. QED
  BY <1>1, DispatchTyped, FamilyStep, PTL DEF Spec, NInv
----------------------------------------------------------------------------
(* Scripts nest once: a script that a script started is a snippet that a     *)
(* codemode call runs, and that call came from no script.                    *)
NestsOnce ==
    \A c \in Calls : phase[c] = "running" /\ parent[c] # NoCall =>
        /\ ActionRun(req[c]) = "snippet_run"
        /\ ActionRun(req[parent[c]]) = "codemode"
        /\ parent[parent[c]] = NoCall

LEMMA FamilyNests == NInv => NestsOnce
<1> SUFFICES ASSUME NInv, NEW c \in Calls, phase[c] = "running", parent[c] # NoCall
             PROVE  /\ ActionRun(req[c]) = "snippet_run"
                    /\ ActionRun(req[parent[c]]) = "codemode"
                    /\ parent[parent[c]] = NoCall
  BY DEF NestsOnce
<1> DEFINE p == parent[c]
<1>1. FamilyInv(c) /\ p \in Calls /\ FamilyInv(p)
  BY DEF NInv, FamilyInv
<1>2. phase[p] = "running" /\ req[c].surface = "script" /\ req[c].action # "codemode"
  BY <1>1 DEF FamilyInv
<1>3. ActionRun(req[c]) = "snippet_run" /\ req[c].action = "snippet_run"
  BY <1>1, <1>2 DEF FamilyInv, ActionRun
<1>4. ActionRun(req[p]) = "codemode"
  BY <1>1, <1>2, <1>3 DEF FamilyInv
<1>5. p # NoCall /\ parent[p] = NoCall
  <2>1. SUFFICES ASSUME parent[p] # NoCall PROVE FALSE
    OBVIOUS
  <2>2. req[p].surface = "script" /\ req[p].action # "codemode"
    BY <1>1, <1>2, <2>1 DEF FamilyInv
  <2>3. QED
    BY <1>4, <2>2 DEF ActionRun
<1>6. QED
  BY <1>3, <1>4, <1>5

(* THEOREM ScriptsNestOnce: NestsOnce. The gate compares the action with the *)
(* parent's alone; that this bounds the depth takes the whole family.        *)
THEOREM ScriptsNestOnce == Spec => []NestsOnce
BY FamilyHolds, FamilyNests, PTL
----------------------------------------------------------------------------
(* What CallsEnd rests on besides fairness: a call only moves forward, and   *)
(* the calls never all wait for one another.                                 *)
Left(p) ==
    CASE p = "idle"      -> 5
      [] p = "received"  -> 4
      [] p = "prompting" -> 3
      [] p = "dispatch"  -> 2
      [] p = "running"   -> 1
      [] OTHER           -> 0
Forward == \A c \in Calls : phase'[c] = phase[c] \/ Left(phase'[c]) < Left(phase[c])

(* The guards of the server's steps: a script waits for its calls, everyone  *)
(* else for nobody.                                                          *)
CanMove(c) ==
    \/ phase[c] \in {"received", "prompting", "dispatch"}
    \/ phase[c] = "running" /\ \A d \in Calls : parent[d] = c => phase[d] = "done"
SomeoneMoves ==
    (\E c \in Calls : phase[c] \notin {"idle", "done"}) => \E c \in Calls : CanMove(c)

LEMMA OnlyForward == TypeOK /\ [Next]_vars => Forward
<1> SUFFICES ASSUME TypeOK, [Next]_vars PROVE Forward
  OBVIOUS
<1>1. ASSUME NEW c \in Calls, NEW q, Move(c, q), Left(q) < Left(phase[c]) PROVE Forward
  BY <1>1 DEF Forward, Move, TypeOK
<1>2. ASSUME NEW c \in Calls, NEW r \in Requests, NEW p \in Calls \cup {NoCall},
             Issue(c, r, p)
      PROVE  Forward
  BY <1>1, <1>2 DEF Issue, Left
<1>3. ASSUME NEW c \in Calls, McpGate(c) \/ CliGate(c) \/ ScriptGate(c) PROVE Forward
  <2>1. phase[c] = "received" /\ \E q \in {"done", "prompting", "dispatch"} : Move(c, q)
    BY <1>3 DEF McpGate, CliGate, ScriptGate
  <2>2. QED
    BY <1>1, <2>1 DEF Left
<1>4. ASSUME NEW c \in Calls, Accept(c) \/ Refuse(c) \/ Expire(c) PROVE Forward
  BY <1>1, <1>4 DEF Accept, Refuse, Expire, Left
<1>5. ASSUME NEW c \in Calls, Send(c) \/ Reject(c) \/ ScriptEnds(c) PROVE Forward
  BY <1>1, <1>5 DEF Send, Reject, ScriptEnds, Left
<1>6. ASSUME NEW c \in Calls, DispatchInfra(c) PROVE Forward
  <2>1. phase[c] = "dispatch" /\ \E q \in {"running", "done"} : Move(c, q)
    BY <1>6 DEF DispatchInfra
  <2>2. QED
    BY <1>1, <2>1 DEF Left
<1>7. CASE UNCHANGED phase
  BY <1>7 DEF Forward
<1>8. QED
  BY <1>2, <1>3, <1>4, <1>5, <1>6, <1>7 DEF Next, LateAnswer, vars

(* THEOREM CallsNeverWedge: a call takes at most five steps, and while one   *)
(* is unfinished some call can take its next.                                *)
THEOREM CallsNeverWedge == Spec => [][Forward]_vars /\ []SomeoneMoves
<1>1. NInv => SomeoneMoves
  <2> SUFFICES ASSUME NInv, NEW c \in Calls, phase[c] \notin {"idle", "done"}
               PROVE  \E d \in Calls : CanMove(d)
    BY DEF SomeoneMoves
  (* A running script whose call d is not over: d is not a script that waits *)
  (* for a third one, because d's parent came from no script.                *)
  <2>1. ASSUME NEW d \in Calls, parent[d] # NoCall, phase[d] = "running"
        PROVE  \E e \in Calls : CanMove(e)
    <3>1. CASE \A e \in Calls : parent[e] = d => phase[e] = "done"
      BY <2>1, <3>1 DEF CanMove
    <3>2. CASE \E e \in Calls : parent[e] = d /\ phase[e] # "done"
      <4>1. PICK e \in Calls : parent[e] = d /\ phase[e] # "done"
        BY <3>2
      <4>2. d # NoCall
        BY ConstantsAssumption
      <4>3. phase[e] # "idle"
        BY <4>1, <4>2 DEF NInv, FamilyInv
      <4>4. phase[e] # "running"
        BY <2>1, <4>1, <4>2, FamilyNests DEF NestsOnce
      <4>5. QED
        BY <4>1, <4>3, <4>4 DEF CanMove, NInv, TypeOK, Phases
    <3>3. QED
      BY <3>1, <3>2
  <2>2. CASE phase[c] = "running"
    <3>1. CASE \A e \in Calls : parent[e] = c => phase[e] = "done"
      BY <2>2, <3>1 DEF CanMove
    <3>2. CASE \E e \in Calls : parent[e] = c /\ phase[e] # "done"
      <4>1. PICK e \in Calls : parent[e] = c /\ phase[e] # "done"
        BY <3>2
      <4>2. parent[e] # NoCall /\ phase[e] # "idle"
        BY <4>1, ConstantsAssumption DEF NInv, FamilyInv
      <4>3. QED
        BY <2>1, <4>1, <4>2 DEF CanMove, NInv, TypeOK, Phases
    <3>3. QED
      BY <3>1, <3>2
  <2>3. QED
    BY <2>2 DEF CanMove, NInv, TypeOK, Phases
<1>2. NInv => TypeOK
  BY DEF NInv
<1>3. QED
  BY <1>1, <1>2, OnlyForward, FamilyHolds, PTL DEF Spec
----------------------------------------------------------------------------
(* Scripting calls implement ScriptTree: DispatchInfra of a script is Begin, *)
(* ScriptEnds is the End of one, and the rest stutters.                      *)
LEMMA TreeSame ==
    ASSUME Scripting' = Scripting, \A d \in Scripting : parent'[d] = parent[d]
    PROVE  UNCHANGED Tree!treeVars
BY DEF Tree!treeVars

LEMMA TreeInit == Init => Tree!Init
BY DEF Init, Tree!Init, Scripting

LEMMA TreeStep == NInv /\ [Next]_vars => [Tree!Next]_(Tree!treeVars)
<1> SUFFICES ASSUME NInv, [Next]_vars PROVE Tree!Next \/ UNCHANGED Tree!treeVars
  OBVIOUS
<1>1. phase \in [Calls -> Phases] /\ parent \in [Calls -> Calls \cup {NoCall}]
  BY DEF NInv, TypeOK
<1>2. ASSUME NEW c \in Calls, NEW q, Move(c, q), UNCHANGED parent,
             phase[c] # "running", q # "running"
      PROVE  UNCHANGED Tree!treeVars
  <2>1. Scripting' = Scripting
    BY <1>1, <1>2 DEF Move, Scripting
  <2>2. QED
    BY <1>2, <2>1, TreeSame
<1>3. ASSUME NEW c \in Calls, NEW r \in Requests, NEW p \in Calls \cup {NoCall},
             Issue(c, r, p)
      PROVE  UNCHANGED Tree!treeVars
  <2>1. Scripting' = Scripting /\ \A d \in Scripting : parent'[d] = parent[d]
    BY <1>1, <1>3 DEF Issue, Move, Scripting
  <2>2. QED
    BY <2>1, TreeSame
<1>4. ASSUME NEW c \in Calls, McpGate(c) \/ CliGate(c) \/ ScriptGate(c)
      PROVE  UNCHANGED Tree!treeVars
  <2>1. /\ phase[c] = "received" /\ UNCHANGED parent
        /\ \E q \in {"done", "prompting", "dispatch"} : Move(c, q)
    BY <1>4 DEF McpGate, CliGate, ScriptGate
  <2>2. QED
    BY <1>2, <2>1
<1>5. ASSUME NEW c \in Calls, Accept(c) \/ Refuse(c) \/ Expire(c) \/ Send(c) \/ Reject(c)
      PROVE  UNCHANGED Tree!treeVars
  <2>1. /\ phase[c] \in {"prompting", "dispatch"} /\ UNCHANGED parent
        /\ \E q \in {"done", "dispatch"} : Move(c, q)
    BY <1>5 DEF Accept, Refuse, Expire, Send, Reject
  <2>2. QED
    BY <1>2, <2>1
<1>6. ASSUME NEW c \in Calls, DispatchInfra(c)
      PROVE  (\E p \in Calls \cup {NoCall} : Tree!Begin(c, p)) \/ UNCHANGED Tree!treeVars
  <2>1. phase[c] = "dispatch" /\ UNCHANGED parent
    BY <1>6 DEF DispatchInfra
  <2>2. CASE Move(c, "done")
    BY <1>2, <2>1, <2>2
  <2>3. CASE Move(c, "running") /\ ActionRun(req[c]) \in {"codemode", "snippet_run"}
    <3> PICK p \in Calls \cup {NoCall} : p = parent[c]
      BY <1>1
    <3> DEFINE starter == [d \in Calls |-> IF d \in Scripting THEN parent[d] ELSE NoCall]
    <3>1. c \notin Scripting /\ Scripting' = Scripting \cup {c}
      BY <1>1, <2>1, <2>3 DEF Move, Scripting
    <3>2. p = NoCall \/ (p \in Scripting /\ parent[p] = NoCall)
      <4>1. SUFFICES ASSUME p # NoCall PROVE p \in Scripting /\ parent[p] = NoCall
        OBVIOUS
      <4>2. FamilyInv(c) /\ p \in Calls /\ FamilyInv(p)
        BY <4>1 DEF NInv, FamilyInv
      <4>3. /\ phase[p] = "running"
            /\ req[c].surface = "script" /\ req[c].action # "codemode"
            /\ req[c].action = "snippet_run" => ActionRun(req[p]) # "snippet_run"
        BY <2>1, <4>1, <4>2 DEF FamilyInv
      <4>4. ActionRun(req[p]) = "codemode"
        BY <2>3, <4>2, <4>3 DEF ActionRun, FamilyInv
      <4>5. ASSUME parent[p] # NoCall PROVE FALSE
        <5>1. req[p].surface = "script" /\ req[p].action # "codemode"
          BY <4>2, <4>3, <4>5 DEF FamilyInv
        <5>2. QED
          BY <4>4, <5>1 DEF ActionRun
      <4>6. QED
        BY <4>2, <4>3, <4>5 DEF Scripting
    <3>3. starter' = [starter EXCEPT ![c] = p]
      BY <1>1, <2>1, <3>1 DEF Scripting
    <3>4. p \in Scripting => starter[p] = parent[p]
      BY DEF Scripting
    <3>5. QED
      BY <3>1, <3>2, <3>3, <3>4 DEF Tree!Begin
  <2>4. QED
    BY <1>6, <2>2, <2>3 DEF DispatchInfra
<1>7. ASSUME NEW c \in Calls, ScriptEnds(c) PROVE Tree!End({c})
  <2> DEFINE starter == [d \in Calls |-> IF d \in Scripting THEN parent[d] ELSE NoCall]
  <2>1. /\ phase[c] = "running" /\ Move(c, "done") /\ UNCHANGED parent
        /\ \A d \in Calls : parent[d] = c => phase[d] = "done"
    BY <1>7 DEF ScriptEnds
  <2>2. c \in Scripting /\ Scripting' = Scripting \ {c}
    BY <1>1, <2>1 DEF Move, Scripting
  <2>3. \A d \in Scripting : starter[d] # c
    BY <2>1 DEF Scripting
  <2>4. starter' = [d \in Calls |-> IF d \in {c} THEN NoCall ELSE starter[d]]
    BY <2>1, <2>2
  <2>5. QED
    BY <2>2, <2>3, <2>4 DEF Tree!End
<1>8. ASSUME UNCHANGED <<phase, parent>> PROVE UNCHANGED Tree!treeVars
  BY <1>8, TreeSame DEF Scripting
<1>9. \A c \in Calls : {c} \in SUBSET Calls
  OBVIOUS
<1>10. ASSUME NEW c \in Calls, DispatchInfra(c) \/ ScriptEnds(c)
       PROVE  Tree!Next \/ UNCHANGED Tree!treeVars
  <2>1. CASE \E p \in Calls \cup {NoCall} : Tree!Begin(c, p)
    BY <2>1 DEF Tree!Next
  <2>2. CASE Tree!End({c})
    BY <1>9, <2>2 DEF Tree!Next
  <2>3. QED
    BY <1>6, <1>7, <1>10, <2>1, <2>2
<1>11. CASE UNCHANGED vars
  BY <1>8, <1>11 DEF vars
<1>12. CASE \E c \in Calls : LateAnswer(c)
  BY <1>8, <1>12 DEF LateAnswer
<1>13. QED
  BY <1>3, <1>4, <1>5, <1>10, <1>11, <1>12 DEF Next

(* THEOREM ScriptsTree: ScriptsFormTree, the same promise as the one kept by *)
(* the loops of run_script, kept here by the gates that the calls go through.*)
THEOREM ScriptsTree == Spec => ScriptsFormTree
BY TreeInit, TreeStep, FamilyHolds, PTL DEF Spec, ScriptsFormTree, Tree!Spec
=============================================================================
