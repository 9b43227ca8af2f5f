------------------------- MODULE CodeModeRunProofs --------------------------
(***************************************************************************)
(* Theorems about CodeModeRun for any scripts, snippets, pool and bounds.  *)
(*                                                                         *)
(* The invariant IInv accounts for the bridge calls of every run: those    *)
(* audited plus the one the engine waits for are those it made.  For this  *)
(* it records who waits for whom: an engine is blocked exactly while its   *)
(* request is in the channel or its loop serves it, and a loop is nested   *)
(* exactly in the script whose snippet has not been returned.              *)
(***************************************************************************)
EXTENDS CodeModeRun, FiniteSetTheorems, TLAPS

USE CodeModeAssumption DEF Runs, Exits

Types ==
  /\ parent \in [Runs -> Runs \cup {NoRun}]
  /\ engine \in [Runs -> {"none", "queued", "js", "blocked", "settled"} \cup Exits]
  /\ host \in [Runs -> {"none", "select", "dispatch", "nested", "answered",
                        "dropped"}]
  /\ request \in [Runs -> Kinds \cup {"none"}]
  /\ late \subseteq Runs
  /\ ops \in [Runs -> 0..MaxOps]
  /\ performed \in [Runs -> Nat] /\ calls \in [Runs -> Nat]
  /\ artifacts \in [Runs -> Nat] /\ written \in [Runs -> Nat]
  /\ answer \in [Runs -> {"none", "ok", "err"}]

\* An engine is blocked while its request waits or is served.
Handshake(r) ==
  /\ request[r] # "none" => host[r] = "select"
  /\ host[r] \in {"dispatch", "nested"} => engine[r] = "blocked"
  /\ host[r] = "select" => (request[r] # "none" <=> engine[r] = "blocked")
  /\ host[r] = "answered" => engine[r] \in {"none"} \cup Exits
  /\ host[r] = "none" => engine[r] = "none" /\ parent[r] = NoRun /\ ops[r] = 0
  /\ (answer[r] = "none") <=> (host[r] # "answered")

Pending(r) == IF engine[r] = "blocked" THEN 1 ELSE 0

\* The audit accounts for every bridge call.
Accounts(r) ==
  /\ host[r] # "dropped" =>
        /\ calls[r] + artifacts[r] + Pending(r) = ops[r]
        /\ performed[r] <= calls[r]
  /\ calls[r] + artifacts[r] <= ops[r]
  /\ performed[r] <= ops[r]
  /\ written[r] <= artifacts[r]
  /\ written[r] <= MaxArtifacts

\* A run with a parent is a snippet; its parent is a script, one that waits for
\* it or whose task was dropped.
Family(r) ==
  parent[r] # NoRun =>
     /\ r \in Snippets /\ parent[r] \in Scripts
     /\ host[parent[r]] \in {"nested", "dropped"}

OneChild == \A j, k \in Runs : parent[j] = parent[k] /\ parent[k] # NoRun => j = k

IInv ==
  Types /\ OneChild /\ \A r \in Runs : Handshake(r) /\ Accounts(r) /\ Family(r)

LEMMA IInvInit == Init => IInv
BY DEF Init, IInv, Types, OneChild, Handshake, Pending, Accounts, Family

\* A run whose loop is idle has no snippet.
LEMMA IdleChildless ==
  ASSUME IInv, NEW r \in Runs, host[r] = "select", NEW q \in Runs
  PROVE  parent[q] # r
BY DEF IInv, Types, Family

LEMMA IInvStep == IInv /\ [Next]_vars => IInv'
<1> SUFFICES ASSUME IInv, [Next]_vars PROVE IInv'
  OBVIOUS
<1> USE DEF IInv, Types, OneChild, Handshake, Pending, Accounts, Family, auditVars,
        Inc
<1>1. ASSUME NEW r \in Runs, Submit(r) PROVE IInv'
  BY <1>1 DEF Submit
<1>2. ASSUME NEW r \in Runs, Reject(r) PROVE IInv'
  BY <1>2 DEF Reject
<1>3. ASSUME NEW r \in Runs, DeadlinePasses(r) PROVE IInv'
  BY <1>3 DEF DeadlinePasses
<1>4. ASSUME NEW r \in Runs, StartEngine(r) PROVE IInv'
  BY <1>4 DEF StartEngine
<1>5. ASSUME NEW r \in Runs, NEW kind \in Kinds, Bridge(r, kind) PROVE IInv'
  BY <1>5 DEF Bridge
<1>6. ASSUME NEW r \in Runs, Settle(r) \/ Exit(r) \/ ReadBack(r) PROVE IInv'
  BY <1>6 DEF Settle, Exit, ReadBack
<1>7. ASSUME NEW r \in Runs, EngineDropped(r) PROVE IInv'
  BY <1>7 DEF EngineDropped
<1>8. ASSUME NEW r \in Runs, Dispatch(r) PROVE IInv'
  BY <1>8 DEF Dispatch
<1>9. ASSUME NEW r \in Runs, DispatchEnd(r) PROVE IInv'
  BY <1>9 DEF DispatchEnd
<1>10. ASSUME NEW r \in Runs, NestRefused(r) PROVE IInv'
  <2> USE <1>10 DEF NestRefused
  <2>1. Types' /\ OneChild'
    OBVIOUS
  <2>2. \A q \in Runs : Handshake(q)' /\ Family(q)'
    OBVIOUS
  <2>3. \A q \in Runs : Accounts(q)'
    OBVIOUS
  <2> QED
    BY ONLY <2>1, <2>2, <2>3 DEF IInv
<1>11. ASSUME NEW r \in Runs, WriteArtifact(r) PROVE IInv'
  BY <1>11 DEF WriteArtifact, MayWrite
<1>12. ASSUME NEW r \in Runs, Answer(r) PROVE IInv'
  BY <1>12 DEF Answer
<1>13. ASSUME NEW r \in Runs, NEW k \in Runs, Nest(r, k) PROVE IInv'
  <2> USE <1>13 DEF Nest, MayNest, Fresh
  <2>1. k \in Snippets /\ r \in Scripts /\ k # r /\ host[k] = "none"
    OBVIOUS
  <2>2. Types'
    BY <2>1
  <2>3. \A q \in Runs : parent[q] # r
    BY IdleChildless
  <2>4. OneChild'
    <3> SUFFICES ASSUME NEW j \in Runs, NEW l \in Runs,
                        parent'[j] = parent'[l], parent'[l] # NoRun
                 PROVE  j = l
      OBVIOUS
    <3>1. parent'[j] = (IF j = k THEN r ELSE parent[j])
      OBVIOUS
    <3>2. parent'[l] = (IF l = k THEN r ELSE parent[l])
      OBVIOUS
    <3>3. OneChild
      OBVIOUS
    <3> QED
      BY ONLY <2>3, <3>1, <3>2, <3>3, j \in Runs, l \in Runs,
              parent'[j] = parent'[l], parent'[l] # NoRun DEF OneChild
  <2>5. \A q \in Runs : Handshake(q)'
    BY <2>1
  <2>6. \A q \in Runs : Accounts(q)'
    BY <2>1
  <2>7. \A q \in Runs : Family(q)'
    <3> TAKE q \in Runs
    <3>1. CASE q = k
      BY <2>1, <3>1
    <3>2. CASE q # k
      BY <2>1, <2>3, <3>2
    <3> QED
      BY <3>1, <3>2
  <2> QED
    BY ONLY <2>2, <2>4, <2>5, <2>6, <2>7 DEF IInv
<1>14. ASSUME NEW r \in Runs, NEW k \in Runs, NestEnd(r, k) PROVE IInv'
  <2> USE <1>14 DEF NestEnd
  <2>1. k \in Snippets /\ r \in Scripts /\ k # r
    OBVIOUS
  <2>2. Types'
    BY <2>1
  <2>3. OneChild'
    BY <2>1
  <2>4. \A q \in Runs : Handshake(q)'
    BY <2>1
  <2>5. \A q \in Runs : Accounts(q)'
    <3> TAKE q \in Runs
    <3>1. CASE q = k
      BY <2>1, <3>1
    <3>2. CASE q = r
      BY <2>1, <3>2
    <3>3. CASE q \notin {k, r}
      BY <2>1, <3>3
    <3> QED
      BY <3>1, <3>2, <3>3
  <2>6. \A q \in Runs : Family(q)'
    BY <2>1
  <2> QED
    BY <2>2, <2>3, <2>4, <2>5, <2>6
<1>15. ASSUME NEW r \in Runs, Drop(r) PROVE IInv'
  <2> DEFINE gone == {r} \cup {k \in Children(r) : host[k] # "answered"}
  <2>1. PICK hit \in SUBSET {k \in gone : host[k] = "dispatch"} :
           performed' =
             [k \in Runs |-> performed[k] + (IF k \in hit THEN 1 ELSE 0)]
    BY <1>15 DEF Drop
  <2>2. host' = [k \in Runs |-> IF k \in gone THEN "dropped" ELSE host[k]]
    BY <1>15 DEF Drop
  <2>3. request' = [k \in Runs |-> IF k \in gone THEN "none" ELSE request[k]]
    BY <1>15 DEF Drop
  <2>4. UNCHANGED <<parent, engine, late, ops, calls, artifacts, written, answer>>
    BY <1>15 DEF Drop
  <2>5. r \in Scripts /\ host[r] \in {"select", "dispatch", "nested"}
    BY <1>15 DEF Drop
  <2>6. \A k \in gone : k \in Runs /\ host[k] \notin {"none", "answered"}
    BY <2>5 DEF Children
  <2>7. \A k \in hit : k \in gone /\ host[k] = "dispatch"
    OBVIOUS
  <2> HIDE DEF gone
  <2>8. Types'
    BY <2>1, <2>2, <2>3, <2>4
  <2>9. OneChild'
    BY <2>4
  <2>10. \A q \in Runs : Handshake(q)'
    BY <2>2, <2>3, <2>4, <2>6
  <2>11. \A q \in Runs : Accounts(q)'
    BY <2>1, <2>2, <2>4, <2>6, <2>7
  <2>12. \A q \in Runs : Family(q)'
    BY <2>2, <2>4, <2>5, <2>6
  <2> QED
    BY <2>8, <2>9, <2>10, <2>11, <2>12
<1>16. CASE UNCHANGED vars
  BY <1>16 DEF vars
<1> QED
  BY <1>1, <1>2, <1>3, <1>4, <1>5, <1>6, <1>7, <1>8, <1>9, <1>10, <1>11,
     <1>12, <1>13, <1>14, <1>15, <1>16 DEF Next, HostStep, Done

-----------------------------------------------------------------------------
LEMMA Inductive == Spec => []IInv
BY IInvInit, IInvStep, PTL DEF Spec

\* Every variable keeps its type; no run audits or performs more than it asked
\* for.
THEOREM CountsBounded == Spec => []TypeOK
<1>1. IInv => TypeOK
  <2> SUFFICES ASSUME IInv PROVE TypeOK
    OBVIOUS
  <2>1. \A r \in Runs : /\ performed[r] \in 0..MaxOps /\ calls[r] \in 0..MaxOps
                        /\ artifacts[r] \in 0..MaxOps /\ written[r] \in 0..MaxOps
    BY DEF IInv, Types, Accounts
  <2> QED
    BY <2>1 DEF IInv, Types, TypeOK
<1> QED
  BY <1>1, Inductive, PTL

\* No answer leaves an engine or a snippet of its run behind.
THEOREM AnswersJoin == Spec => []AnsweredMeansOver
<1>1. IInv => AnsweredMeansOver
  BY DEF IInv, Types, Handshake, Family, AnsweredMeansOver, Children
<1> QED
  BY <1>1, Inductive, PTL

\* A successful answer audits every bridge call of its script.
THEOREM AuditsComplete == Spec => []AuditComplete
<1>1. IInv => AuditComplete
  BY DEF IInv, Types, Handshake, Accounts, Pending, AuditComplete
<1> QED
  BY <1>1, Inductive, PTL

\* Snippets never nest.
THEOREM NestingBounded == Spec => []DepthAtMostTwo
<1>1. IInv => DepthAtMostTwo
  BY DEF IInv, Types, Family, DepthAtMostTwo, Children
<1> QED
  BY <1>1, Inductive, PTL

\* With more threads than scripts the pool is never wedged: a snippet in it waits
\* for no other run, and scripts alone do not fill it.
THEOREM PoolSuffices ==
  ASSUME IsFiniteSet(Scripts), Cardinality(Scripts) < PoolSize
  PROVE  Spec => []PoolNotWedged
<1>1. ASSUME IInv, Cardinality(InPool) = PoolSize
      PROVE  \E r \in InPool : \A k \in Children(r) :
                engine[k] \notin {"queued", "blocked"}
  <2>1. CASE InPool \cap Snippets # {}
    <3>1. PICK r \in InPool : r \in Snippets
      BY <2>1
    <3>2. Children(r) = {}
      BY <1>1, <3>1 DEF IInv, Family, Children
    <3> QED
      BY <3>1, <3>2
  <2>2. CASE InPool \cap Snippets = {}
    <3>1. InPool \subseteq Scripts
      BY <2>2 DEF InPool
    <3>2. Cardinality(InPool) <= Cardinality(Scripts)
      BY <3>1, FS_Subset
    <3>3. Cardinality(Scripts) \in Nat
      BY FS_CardinalityType
    <3> QED
      BY <1>1, <3>2, <3>3
  <2> QED
    BY <2>1, <2>2
<1>2. IInv => PoolNotWedged
  BY <1>1 DEF PoolNotWedged
<1> QED
  BY <1>2, Inductive, PTL

\* What is left for a script that had not settled when its deadline passed.
Overdue(r) ==
  /\ r \in late /\ engine[r] \in {"queued", "js", "blocked", "error", "timeout"}
  /\ answer[r] # "ok"

LEMMA OverdueStays ==
  ASSUME IInv, [Next]_vars, NEW r \in Scripts, Overdue(r)
  PROVE  Overdue(r)'
<1> USE DEF IInv, Types, Overdue, auditVars, Inc
<1>0. \A q \in Runs : Handshake(q) /\ Family(q)
  OBVIOUS
<1>1. ASSUME NEW q \in Runs, Submit(q) \/ Reject(q) \/ DeadlinePasses(q)
                              \/ StartEngine(q) \/ EngineDropped(q)
      PROVE  Overdue(r)'
  BY <1>0, <1>1 DEF Submit, Reject, DeadlinePasses, StartEngine, EngineDropped, Handshake
<1>2. ASSUME NEW q \in Runs, NEW kind \in Kinds, Bridge(q, kind) PROVE Overdue(r)'
  BY <1>2 DEF Bridge
<1>3. ASSUME NEW q \in Runs, Settle(q) \/ Exit(q) \/ ReadBack(q) PROVE Overdue(r)'
  BY <1>3 DEF Settle, Exit, ReadBack
<1>4. ASSUME NEW q \in Runs, Dispatch(q) \/ DispatchEnd(q) \/ NestRefused(q)
                              \/ WriteArtifact(q) \/ Answer(q) \/ Drop(q)
      PROVE  Overdue(r)'
  BY <1>4 DEF Dispatch, DispatchEnd, NestRefused, WriteArtifact, Answer, Drop
<1>5. ASSUME NEW q \in Runs, NEW k \in Runs, Nest(q, k) PROVE Overdue(r)'
  <2>1. k # r
    BY <1>5 DEF Nest, Fresh
  <2> QED
    BY <1>5, <2>1 DEF Nest
<1>6. ASSUME NEW q \in Runs, NEW k \in Runs, NestEnd(q, k) PROVE Overdue(r)'
  <2>1. k # r /\ (q = r => engine[r] = "blocked")
    BY <1>0, <1>6 DEF NestEnd, Family, Handshake
  <2> QED
    BY <1>6, <2>1 DEF NestEnd
<1>7. CASE UNCHANGED vars
  BY <1>7 DEF vars
<1> QED
  BY <1>1, <1>2, <1>3, <1>4, <1>5, <1>6, <1>7 DEF Next, HostStep, Done

\* No script that had not settled by its deadline ever answers ok, whatever order
\* its calls, its snippet and the shutdown of its task take after it.
THEOREM OverdueScriptsFail == Spec => OverdueFails
<1>1. ASSUME NEW r \in Scripts
      PROVE  Spec => []((r \in late /\ engine[r] \in {"queued", "js", "blocked"})
                           => [](answer[r] # "ok"))
  <2>1. IInv /\ r \in late /\ engine[r] \in {"queued", "js", "blocked"} => Overdue(r)
    BY DEF IInv, Types, Handshake, Overdue
  <2>2. IInv /\ [Next]_vars /\ Overdue(r) => Overdue(r)'
    BY OverdueStays
  <2>3. Overdue(r) => answer[r] # "ok"
    BY DEF Overdue
  <2> QED
    BY <2>1, <2>2, <2>3, Inductive, PTL DEF Spec
<1> QED
  BY <1>1 DEF OverdueFails
-----------------------------------------------------------------------------
(***************************************************************************)
(* Nobody waits for nobody.  Every loop that waits for a snippet has one   *)
(* that will answer it, so an engine that waits is served; and the pool,   *)
(* which the scripts alone do not fill, lets what is queued in.  This is   *)
(* the part of RunsFinish that does not rest on fairness.                  *)
(***************************************************************************)

\* A nested loop has its snippet, and a loop that runs has an engine.
Serves(r) ==
  /\ host[r] = "nested" =>
       \E k \in Snippets : parent[k] = r
                           /\ host[k] \in {"select", "dispatch", "answered"}
  /\ host[r] = "select" => engine[r] # "none"
  /\ r \in Snippets => host[r] # "nested"

WInv == IInv /\ \A r \in Runs : Serves(r)

LEMMA WInvInit == Init => WInv
BY IInvInit DEF Init, WInv, Serves

LEMMA WInvStep == WInv /\ [Next]_vars => WInv'
<1> SUFFICES ASSUME WInv, [Next]_vars PROVE WInv'
  OBVIOUS
<1>0. IInv /\ IInv' /\ \A r \in Runs : Serves(r)
  BY IInvStep DEF WInv
<1> SUFFICES \A r \in Runs : Serves(r)'
  BY <1>0 DEF WInv
<1> USE <1>0 DEF IInv, Types, Serves, auditVars, Inc
<1>1. ASSUME NEW r \in Runs, Submit(r) \/ Reject(r) PROVE \A q \in Runs : Serves(q)'
  BY <1>1 DEF Submit, Reject
<1>2. ASSUME NEW r \in Runs, DeadlinePasses(r) \/ StartEngine(r) \/ EngineDropped(r)
      PROVE  \A q \in Runs : Serves(q)'
  BY <1>2 DEF DeadlinePasses, StartEngine, EngineDropped
<1>3. ASSUME NEW r \in Runs, NEW kind \in Kinds, Bridge(r, kind)
      PROVE  \A q \in Runs : Serves(q)'
  BY <1>3 DEF Bridge
<1>4. ASSUME NEW r \in Runs, Settle(r) \/ Exit(r) \/ ReadBack(r)
      PROVE  \A q \in Runs : Serves(q)'
  BY <1>4 DEF Settle, Exit, ReadBack
<1>5. ASSUME NEW r \in Runs, Dispatch(r) \/ DispatchEnd(r)
      PROVE  \A q \in Runs : Serves(q)'
  BY <1>5 DEF Dispatch, DispatchEnd
<1>6. ASSUME NEW r \in Runs, NestRefused(r) \/ WriteArtifact(r) \/ Answer(r)
      PROVE  \A q \in Runs : Serves(q)'
  BY <1>6 DEF NestRefused, WriteArtifact, Answer
<1>7. ASSUME NEW r \in Runs, NEW k \in Runs, Nest(r, k)
      PROVE  \A q \in Runs : Serves(q)'
  <2>1. k \in Snippets /\ r \in Scripts /\ k # r /\ host[k] = "none"
    BY <1>7 DEF Nest, MayNest, Fresh
  <2>2. /\ parent' = [parent EXCEPT ![k] = r]
        /\ host' = [host EXCEPT ![r] = "nested", ![k] = "select"]
        /\ engine' = [engine EXCEPT ![k] = "queued"]
        /\ host[r] = "select"
    BY <1>7 DEF Nest
  <2>3. \A q \in Runs : parent[q] # r
    BY <2>2, IdleChildless
  <2> TAKE q \in Runs
  <2>4. CASE q = r
    BY <2>1, <2>2, <2>4
  <2>5. CASE q = k
    BY <2>1, <2>2, <2>5
  <2>6. CASE q \notin {r, k}
    <3>1. host'[q] = host[q] /\ engine'[q] = engine[q]
      BY <2>2, <2>6
    <3>2. \A j \in Snippets :
             parent[j] = q /\ host[j] \in {"select", "dispatch", "answered"} =>
               parent'[j] = q /\ host'[j] \in {"select", "dispatch", "answered"}
      BY <2>1, <2>2, <2>3, <2>6
    <3> QED
      BY <3>1, <3>2
  <2> QED
    BY <2>4, <2>5, <2>6
<1>8. ASSUME NEW r \in Runs, NEW k \in Runs, NestEnd(r, k)
      PROVE  \A q \in Runs : Serves(q)'
  <2>1. /\ parent' = [parent EXCEPT ![k] = NoRun]
        /\ host' = [[host EXCEPT ![k] = "none"] EXCEPT ![r] = "select"]
        /\ engine' = [[engine EXCEPT ![k] = "none"] EXCEPT ![r] = "js"]
        /\ parent[k] = r /\ host[r] = "nested" /\ host[k] = "answered"
    BY <1>8 DEF NestEnd
  <2>2. r \in Scripts /\ k \in Snippets
    BY <2>1 DEF Family
  <2> TAKE q \in Runs
  <2>3. CASE q = r
    BY <2>1, <2>2, <2>3
  <2>4. CASE q # r
    <3>1. host'[q] = "nested" => host[q] = "nested" /\ q # k
      BY <2>1, <2>4
    <3>2. \A j \in Snippets : parent[j] = q =>
             j # r /\ j # k /\ parent'[j] = q /\ host'[j] = host[j]
      BY <2>1, <2>2, <2>4
    <3>3. host'[q] = "select" => engine'[q] # "none"
      BY <2>1, <2>4
    <3> QED
      BY <3>1, <3>2, <3>3
  <2> QED
    BY <2>3, <2>4
<1>9. ASSUME NEW r \in Runs, Drop(r) PROVE \A q \in Runs : Serves(q)'
  <2> DEFINE gone == {r} \cup {k \in Children(r) : host[k] # "answered"}
  <2>1. /\ host' = [k \in Runs |-> IF k \in gone THEN "dropped" ELSE host[k]]
        /\ UNCHANGED <<parent, engine>> /\ r \in Scripts
    BY <1>9 DEF Drop
  <2>2. r \in gone /\ \A k \in gone : k = r \/ parent[k] = r
    BY DEF Children
  <2> HIDE DEF gone
  <2>3. \A k \in Snippets : parent[k] # r => host'[k] = host[k]
    BY <2>1, <2>2
  <2> QED
    BY <2>1, <2>2, <2>3
<1>10. CASE UNCHANGED vars
  BY <1>10 DEF vars
<1> QED
  BY <1>1, <1>2, <1>3, <1>4, <1>5, <1>6, <1>7, <1>8, <1>9, <1>10
  DEF Next, HostStep, Done

\* What the guards of StartEngine, Exit, ReadBack, EngineDropped and HostStep ask
\* for: the run has a step of its own to take.
CanMove(r) ==
  \/ engine[r] \in {"js", "settled"}
  \/ engine[r] = "queued" /\ Cardinality(InPool) < PoolSize
  \/ engine[r] = "blocked" /\ host[r] = "dropped"
  \/ host[r] = "dispatch"
  \/ host[r] = "select" /\ (request[r] # "none" \/ engine[r] \in Exits)
  \/ host[r] = "nested" /\ \E k \in Runs : parent[k] = r /\ host[k] = "answered"

Unfinished(r) == \/ host[r] \in {"select", "dispatch", "nested"}
                 \/ engine[r] \in {"queued", "js", "blocked", "settled"}

\* As long as a run is unfinished some run can move: the engines, the loops, the
\* snippets and the pool never all wait for one another.
SomeoneMoves == (\E r \in Runs : Unfinished(r)) => \E r \in Runs : CanMove(r)

\* An engine that waits is served, by its own loop or by its snippet's.
LEMMA WaiterServed ==
  ASSUME WInv, NEW r \in Runs, engine[r] = "blocked"
  PROVE  \/ CanMove(r)
         \/ r \in Scripts /\ \E k \in Snippets : CanMove(k) \/ engine[k] = "queued"
                                                \/ (host[k] = "select" /\ engine[k] = "blocked")
<1> USE DEF WInv, IInv, Types
<1>1. Handshake(r) /\ Serves(r)
  OBVIOUS
<1>2. host[r] \in {"dispatch", "nested", "select", "dropped"}
  BY <1>1 DEF Handshake
<1>3. CASE host[r] = "nested"
  <2>1. PICK k \in Snippets :
           parent[k] = r /\ host[k] \in {"select", "dispatch", "answered"}
    BY <1>1, <1>3 DEF Serves
  <2>2. k \in Runs /\ r \in Scripts /\ Handshake(k) /\ Serves(k)
    BY <1>1, <1>3 DEF Serves
  <2>3. CASE host[k] = "answered"
    BY <1>3, <2>1, <2>2, <2>3 DEF CanMove
  <2>4. CASE host[k] = "dispatch"
    BY <2>2, <2>4 DEF CanMove
  <2>5. CASE host[k] = "select"
    BY <2>2, <2>5 DEF CanMove, Serves
  <2> QED
    BY <2>1, <2>3, <2>4, <2>5
<1> QED
  BY <1>1, <1>2, <1>3 DEF CanMove, Handshake

LEMMA SnippetServed ==
  ASSUME WInv, NEW k \in Snippets, engine[k] = "blocked"
  PROVE  CanMove(k)
<1>1. k \in Runs /\ k \notin Scripts
  OBVIOUS
<1> QED
  BY <1>1, WaiterServed

LEMMA QueueServed ==
  ASSUME WInv, IsFiniteSet(Scripts), Cardinality(Scripts) < PoolSize,
         NEW r \in Runs, engine[r] = "queued"
  PROVE  \E q \in Runs : CanMove(q)
<1>1. CASE Cardinality(InPool) < PoolSize
  BY <1>1 DEF CanMove
<1>2. CASE InPool \cap Snippets # {}
  <2>1. PICK k \in Snippets : engine[k] \in {"js", "blocked", "settled"}
    BY <1>2 DEF InPool
  <2> QED
    BY <2>1, SnippetServed DEF CanMove
<1>3. CASE InPool \cap Snippets = {}
  <2>1. InPool \subseteq Scripts
    BY <1>3 DEF InPool
  <2>2. Cardinality(InPool) <= Cardinality(Scripts)
    BY <2>1, FS_Subset
  <2>3. Cardinality(InPool) \in Nat /\ Cardinality(Scripts) \in Nat
    BY <2>1, FS_Subset, FS_CardinalityType
  <2>4. Cardinality(InPool) < PoolSize
    BY <2>2, <2>3
  <2> QED
    BY <1>1, <2>4
<1> QED
  BY <1>2, <1>3

\* With more threads than scripts, no interleaving of engines, loops, snippets,
\* deadlines and dropped tasks leaves runs that all wait for one another.
THEOREM NeverWedged ==
  ASSUME IsFiniteSet(Scripts), Cardinality(Scripts) < PoolSize
  PROVE  Spec => []SomeoneMoves
<1>1. ASSUME WInv, NEW r \in Runs, Unfinished(r)
      PROVE  \E q \in Runs : CanMove(q)
  <2>1. CASE engine[r] \in {"js", "settled"}
    BY <2>1 DEF CanMove
  <2>2. CASE engine[r] = "queued"
    BY <1>1, <2>2, QueueServed
  <2>3. CASE engine[r] = "blocked"
    <3>1. CASE \E k \in Snippets : engine[k] = "queued"
      BY <1>1, <3>1, QueueServed
    <3> QED
      BY <1>1, <2>3, <3>1, WaiterServed, SnippetServed
  <2>4. CASE engine[r] \in {"none"} \cup Exits
    <3>1. host[r] = "select" /\ engine[r] \in Exits
      BY <1>1, <2>4 DEF Unfinished, WInv, IInv, Handshake, Serves
    <3> QED
      BY <3>1 DEF CanMove
  <2> QED
    BY <1>1, <2>1, <2>2, <2>3, <2>4 DEF WInv, IInv, Types
<1>2. WInv => SomeoneMoves
  BY <1>1 DEF SomeoneMoves
<1> QED
  BY <1>2, WInvInit, WInvStep, PTL DEF Spec
-----------------------------------------------------------------------------
(***************************************************************************)
(* How many steps a run has left: four for every bridge call it may still  *)
(* make, and those of the one it is in.  Every step lowers the count of    *)
(* the runs it moves, but the return of a snippet, whose id starts over;   *)
(* that lowers the count of its script.                                    *)
(***************************************************************************)

Left(h, e) ==
  CASE h = "none"                   -> 8
    [] h \in {"dispatch", "nested"} -> 7
    [] h = "select"                 -> (CASE e = "blocked" -> 8
                                          [] e = "queued"  -> 6
                                          [] e = "js"      -> 5
                                          [] e = "settled" -> 4
                                          [] OTHER         -> 3)
    [] h = "dropped"                -> (CASE e \in {"blocked", "queued"} -> 3
                                          [] e = "js"                    -> 2
                                          [] e = "settled"               -> 1
                                          [] OTHER                       -> 0)
    [] OTHER                        -> 0

Rank(r) == 4 * (MaxOps - ops[r]) + Left(host[r], engine[r])

Stays(r) == host'[r] = host[r] /\ engine'[r] = engine[r] /\ ops'[r] = ops[r]
Falls(r) == Rank(r)' < Rank(r)
\* A snippet that was answered is returned to its script.
Returns(k) == \E r \in Scripts : parent[k] = r /\ host[k] = "answered" /\ Falls(r)

RankFalls == /\ \A r \in Scripts : Stays(r) \/ Falls(r)
             /\ \A k \in Snippets : Stays(k) \/ Falls(k) \/ Returns(k)

LEMMA RankTyped == ASSUME IInv, NEW r \in Runs PROVE Rank(r) \in 0..(4 * MaxOps + 8)
<1>1. ops[r] \in 0..MaxOps /\ MaxOps \in Nat
  BY DEF IInv, Types
<1>2. Left(host[r], engine[r]) \in 0..8
  BY DEF Left
<1> HIDE DEF Left
<1> QED
  BY <1>1, <1>2 DEF Rank

\* A run falls when it is nearer its end and has not made fewer calls, or when it
\* makes a call and is at most three further away.
LEMMA FallsWhen ==
  ASSUME IInv, NEW r \in Runs, ops'[r] \in Nat,
         NEW h, NEW e, host'[r] = h, engine'[r] = e,
         \/ ops'[r] = ops[r] /\ Left(h, e) < Left(host[r], engine[r])
         \/ ops'[r] = ops[r] + 1 /\ Left(h, e) <= Left(host[r], engine[r]) + 3
  PROVE  Falls(r)
<1>1. ops[r] \in Nat /\ MaxOps \in Nat
  BY DEF IInv, Types
<1>2. Left(h, e) \in Nat /\ Left(host[r], engine[r]) \in Nat
  BY DEF Left
<1>3. Rank(r)' = 4 * (MaxOps - ops'[r]) + Left(h, e)
  BY DEF Rank
<1> HIDE DEF Left
<1> QED
  BY <1>1, <1>2, <1>3 DEF Falls, Rank

LEMMA RankStep == IInv /\ IInv' /\ [Next]_vars => RankFalls
<1> SUFFICES ASSUME IInv, IInv', [Next]_vars PROVE RankFalls
  OBVIOUS
<1>0. /\ Types /\ \A r \in Runs : Handshake(r)
      /\ \A r \in Runs : ops'[r] \in Nat
  BY DEF IInv, Types
\* The steps of one run.
<1>1. ASSUME NEW r \in Runs, NEW h, NEW e,
             host' = [host EXCEPT ![r] = h], engine' = [engine EXCEPT ![r] = e],
             \/ UNCHANGED ops /\ Left(h, e) < Left(host[r], engine[r])
             \/ ops' = Inc(ops, r) /\ Left(h, e) <= Left(host[r], engine[r]) + 3
      PROVE  RankFalls
  <2>1. \A q \in Runs \ {r} : Stays(q)
    BY <1>0, <1>1 DEF Types, Stays, Inc
  <2>2. host'[r] = h /\ engine'[r] = e /\ (ops'[r] = ops[r] \/ ops' = Inc(ops, r))
    BY <1>0, <1>1 DEF Types
  <2>3. ops' = Inc(ops, r) => ops'[r] = ops[r] + 1
    BY <1>0 DEF Types, Inc
  <2>4. Falls(r)
    BY <1>0, <1>1, <2>2, <2>3, FallsWhen
  <2> QED
    BY <2>1, <2>4 DEF RankFalls
<1>2. ASSUME NEW r \in Runs, Submit(r) \/ Reject(r) PROVE RankFalls
  <2>1. CASE Submit(r)
    <3>1. Left("select", "queued") < Left(host[r], engine[r])
      BY <2>1 DEF Submit, Left
    <3> QED
      BY <1>1, <2>1, <3>1 DEF Submit
  <2>2. CASE Reject(r)
    <3>1. Left("answered", engine[r]) < Left(host[r], engine[r])
      BY <2>2 DEF Reject, Left
    <3>2. engine' = [engine EXCEPT ![r] = engine[r]]
      BY <1>0, <2>2 DEF Reject, Types
    <3> QED
      BY <1>1, <2>2, <3>1, <3>2 DEF Reject
  <2> QED
    BY <1>2, <2>1, <2>2
<1>3. ASSUME NEW r \in Runs, StartEngine(r) \/ EngineDropped(r) PROVE RankFalls
  <2>1. Left(host[r], "js") < Left(host[r], engine[r])
    BY <1>0, <1>3 DEF StartEngine, EngineDropped, Handshake, Types, Left
  <2>2. /\ host' = [host EXCEPT ![r] = host[r]] /\ UNCHANGED ops
        /\ engine' = [engine EXCEPT ![r] = "js"]
    BY <1>0, <1>3 DEF StartEngine, EngineDropped, Types
  <2> QED
    BY <1>1, <2>1, <2>2
<1>4. ASSUME NEW r \in Runs, NEW kind \in Kinds, Bridge(r, kind) PROVE RankFalls
  <2>1. Left(host[r], "blocked") <= Left(host[r], engine[r]) + 3
    BY <1>0, <1>4 DEF Bridge, Handshake, Types, Left
  <2>2. host' = [host EXCEPT ![r] = host[r]]
    BY <1>0, <1>4 DEF Bridge, Types
  <2> QED
    BY <1>1, <1>4, <2>1, <2>2 DEF Bridge
<1>5. ASSUME NEW r \in Runs, Settle(r) \/ Exit(r) \/ ReadBack(r) PROVE RankFalls
  <2>1. PICK next \in {"settled"} \cup Exits :
           /\ engine' = [engine EXCEPT ![r] = next]
           /\ \/ engine[r] = "js"
              \/ engine[r] = "settled" /\ next # "settled"
    BY <1>5 DEF Settle, Exit, ReadBack
  <2>2. Left(host[r], next) < Left(host[r], engine[r])
    BY <1>0, <2>1 DEF Handshake, Types, Left
  <2>3. host' = [host EXCEPT ![r] = host[r]] /\ UNCHANGED ops
    BY <1>0, <1>5 DEF Settle, Exit, ReadBack, Types
  <2> QED
    BY <1>1, <2>1, <2>2, <2>3
<1>6. ASSUME NEW r \in Runs, Dispatch(r) \/ Answer(r) PROVE RankFalls
  <2> DEFINE h == IF Dispatch(r) THEN "dispatch" ELSE "answered"
  <2>1. Left(h, engine[r]) < Left(host[r], engine[r])
    BY <1>0, <1>6 DEF Dispatch, Answer, Handshake, Left
  <2>2. /\ engine' = [engine EXCEPT ![r] = engine[r]] /\ UNCHANGED ops
        /\ host' = [host EXCEPT ![r] = h]
    BY <1>0, <1>6 DEF Dispatch, Answer, Types
  <2> QED
    BY <1>1, <2>1, <2>2
<1>7. ASSUME NEW r \in Runs, DispatchEnd(r) \/ NestRefused(r) \/ WriteArtifact(r)
      PROVE  RankFalls
  <2>1. Left("select", "js") < Left(host[r], engine[r])
    BY <1>0, <1>7 DEF DispatchEnd, NestRefused, WriteArtifact, Handshake, Left
  <2>2. /\ engine' = [engine EXCEPT ![r] = "js"] /\ UNCHANGED ops
        /\ host' = [host EXCEPT ![r] = "select"]
    BY <1>0, <1>7 DEF DispatchEnd, NestRefused, WriteArtifact, Types
  <2> QED
    BY <1>1, <2>1, <2>2
<1>8. ASSUME NEW r \in Runs, NEW k \in Runs, Nest(r, k) PROVE RankFalls
  <2>1. k \in Snippets /\ r \in Scripts /\ k # r /\ host[k] = "none" /\ host[r] = "select"
    BY <1>8 DEF Nest, MayNest, Fresh
  <2>2. /\ host'[k] = "select" /\ engine'[k] = "queued" /\ ops'[k] = ops[k]
        /\ host'[r] = "nested" /\ engine'[r] = engine[r] /\ ops'[r] = ops[r]
        /\ \A q \in Runs \ {k, r} : Stays(q)
    BY <1>0, <1>8, <2>1 DEF Nest, Types, Stays
  <2>3. /\ Left("select", "queued") < Left(host[k], engine[k])
        /\ Left("nested", engine[r]) < Left(host[r], engine[r])
    BY <1>0, <1>8, <2>1 DEF Nest, Handshake, Left
  <2>4. Falls(k) /\ Falls(r)
    BY <1>0, <2>2, <2>3, FallsWhen
  <2> QED
    BY <2>1, <2>2, <2>4 DEF RankFalls
<1>9. ASSUME NEW r \in Runs, NEW k \in Runs, NestEnd(r, k) PROVE RankFalls
  <2>1. /\ k \in Snippets /\ r \in Scripts /\ k # r
        /\ parent[k] = r /\ host[k] = "answered" /\ host[r] = "nested"
    BY <1>9 DEF NestEnd, IInv, Family
  <2>2. /\ host'[r] = "select" /\ engine'[r] = "js" /\ ops'[r] = ops[r]
        /\ \A q \in Runs \ {k, r} : Stays(q)
    BY <1>0, <1>9, <2>1 DEF NestEnd, Types, Stays
  <2>3. Left("select", "js") < Left(host[r], engine[r])
    BY <2>1 DEF Left
  <2>4. Falls(r)
    BY <1>0, <2>2, <2>3, FallsWhen
  <2> QED
    BY <2>1, <2>2, <2>4 DEF RankFalls, Returns
<1>10. ASSUME NEW r \in Runs, Drop(r) PROVE RankFalls
  <2> DEFINE gone == {r} \cup {k \in Children(r) : host[k] # "answered"}
  <2>1. /\ host' = [k \in Runs |-> IF k \in gone THEN "dropped" ELSE host[k]]
        /\ UNCHANGED <<engine, ops>>
    BY <1>10 DEF Drop
  <2>2. \A k \in gone : k \in Runs /\ host[k] \notin {"none", "answered"}
    BY <1>10 DEF Drop, Children, IInv, Types, Handshake
  <2> HIDE DEF gone
  <2>3. ASSUME NEW q \in Runs PROVE Stays(q) \/ Falls(q)
    <3>1. CASE q \notin gone \/ host[q] = "dropped"
      BY <2>1, <3>1 DEF Stays
    <3>2. CASE q \in gone /\ host[q] # "dropped"
      <4>1. host[q] \in {"select", "dispatch", "nested"}
        BY <1>0, <2>2, <3>2 DEF Types
      <4>2. Left("dropped", engine[q]) < Left(host[q], engine[q])
        BY <4>1 DEF Left
      <4>3. host'[q] = "dropped" /\ engine'[q] = engine[q] /\ ops'[q] = ops[q]
        BY <2>1, <3>2
      <4> QED
        BY <1>0, <4>2, <4>3, FallsWhen
    <3> QED
      BY <3>1, <3>2
  <2> QED
    BY <2>3 DEF RankFalls
<1>11. CASE UNCHANGED <<host, engine, ops>>
  BY <1>11 DEF RankFalls, Stays
<1>12. ASSUME NEW r \in Runs, DeadlinePasses(r) PROVE RankFalls
  BY <1>11, <1>12 DEF DeadlinePasses
<1>13. CASE UNCHANGED vars
  BY <1>11, <1>13 DEF vars
<1> QED
  BY <1>2, <1>3, <1>4, <1>5, <1>6, <1>7, <1>8, <1>9, <1>10, <1>12, <1>13
  DEF Next, HostStep, Done

\* Between two bridge calls a script, its loop and its snippet take at most four
\* steps: no step of the protocol ever sends a run back, so only a script that goes
\* on calling goes on, and its deadline stops that.
THEOREM RunsAreBounded ==
  Spec => /\ [](\A r \in Runs : Rank(r) \in 0..(4 * MaxOps + 8))
          /\ [][RankFalls]_vars
<1>1. IInv => \A r \in Runs : Rank(r) \in 0..(4 * MaxOps + 8)
  BY RankTyped
<1> QED
  BY <1>1, Inductive, RankStep, PTL DEF Spec
-----------------------------------------------------------------------------
(***************************************************************************)
(* The runs implement ScriptTree: Submit and Nest are Begin, Answer is the *)
(* End of one run, Drop that of a script and its snippet, and the rest     *)
(* stutters, the return of a snippet that was answered before included.    *)
(***************************************************************************)

LEMMA TreeInit == Init => Tree!Init
BY DEF Init, Tree!Init, Active, Starter

LEMMA TreeSame ==
  ASSUME Active' = Active, \A q \in Active : parent'[q] = parent[q]
  PROVE  UNCHANGED Tree!treeVars
BY DEF Starter, Tree!treeVars

LEMMA TreeBegins ==
  ASSUME NEW r \in Runs, NEW p \in Runs \cup {NoRun},
         r \notin Active, p = NoRun \/ (p \in Active /\ parent[p] = NoRun),
         Active' = Active \cup {r}, parent'[r] = p,
         \A q \in Active : parent'[q] = parent[q]
  PROVE  Tree!Begin(r, p)
<1>1. Starter' = [Starter EXCEPT ![r] = p]
  BY DEF Starter, Active
<1>2. p \in Active => Starter[p] = parent[p]
  BY DEF Starter, Active
<1> QED
  BY <1>1, <1>2 DEF Tree!Begin

LEMMA TreeEnds ==
  ASSUME NEW gone, gone # {}, gone \subseteq Active, Active' = Active \ gone,
         UNCHANGED parent, NoRun \notin gone,
         \A q \in Active : parent[q] \in gone => q \in gone
  PROVE  Tree!End(gone)
<1>1. \A q \in Active : Starter[q] \in gone => q \in gone
  BY DEF Starter, Active
<1>2. Starter' = [q \in Runs |-> IF q \in gone THEN NoRun ELSE Starter[q]]
  BY DEF Starter, Active
<1> QED
  BY <1>1, <1>2 DEF Tree!End

LEMMA TreeStep == IInv /\ [Next]_vars => [Tree!Next]_(Tree!treeVars)
<1> SUFFICES ASSUME IInv, [Next]_vars PROVE Tree!Next \/ UNCHANGED Tree!treeVars
  OBVIOUS
<1>0. Types /\ \A r \in Runs : Handshake(r) /\ Family(r)
  BY DEF IInv
<1> USE DEF Types
<1>1. ASSUME NEW r \in Runs, Submit(r) PROVE Tree!Begin(r, NoRun)
  <2>1. r \notin Active /\ parent[r] = NoRun /\ UNCHANGED parent
    BY <1>0, <1>1 DEF Submit, Active, Handshake
  <2>2. Active' = Active \cup {r}
    BY <1>0, <1>1 DEF Submit, Active
  <2> QED
    BY <2>1, <2>2, TreeBegins
<1>2. ASSUME NEW r \in Runs, Reject(r) PROVE UNCHANGED Tree!treeVars
  <2>1. Active' = Active /\ UNCHANGED parent
    BY <1>0, <1>2 DEF Reject, Active
  <2> QED
    BY <2>1, TreeSame
<1>3. ASSUME UNCHANGED <<host, parent>> PROVE UNCHANGED Tree!treeVars
  BY <1>3, TreeSame DEF Active
<1>4. ASSUME NEW r \in Runs,
             DeadlinePasses(r) \/ StartEngine(r) \/ Settle(r) \/ Exit(r)
               \/ ReadBack(r) \/ EngineDropped(r) \/ NestRefused(r) \/ WriteArtifact(r)
      PROVE  UNCHANGED Tree!treeVars
  BY <1>3, <1>4 DEF DeadlinePasses, StartEngine, Settle, Exit, ReadBack, EngineDropped,
                    NestRefused, WriteArtifact
<1>5. ASSUME NEW r \in Runs, NEW kind \in Kinds, Bridge(r, kind)
      PROVE  UNCHANGED Tree!treeVars
  BY <1>3, <1>5 DEF Bridge
<1>6. ASSUME NEW r \in Runs, Dispatch(r) \/ DispatchEnd(r) PROVE UNCHANGED Tree!treeVars
  <2>1. Active' = Active /\ UNCHANGED parent
    BY <1>0, <1>6 DEF Dispatch, DispatchEnd, Active
  <2> QED
    BY <2>1, TreeSame
<1>7. ASSUME NEW r \in Runs, NEW k \in Runs, Nest(r, k) PROVE Tree!Begin(k, r)
  <2>1. /\ r \in Scripts /\ k \in Snippets /\ host[k] = "none" /\ host[r] = "select"
        /\ parent' = [parent EXCEPT ![k] = r]
        /\ host' = [host EXCEPT ![r] = "nested", ![k] = "select"]
    BY <1>7 DEF Nest, MayNest, Fresh
  <2>2. k \notin Active /\ r \in Active /\ parent[r] = NoRun
    BY <1>0, <2>1 DEF Active, Family
  <2>3. Active' = Active \cup {k}
    BY <1>0, <2>1 DEF Active
  <2>4. parent'[k] = r /\ \A q \in Active : parent'[q] = parent[q]
    BY <1>0, <2>1, <2>2 DEF Active
  <2> QED
    BY <2>2, <2>3, <2>4, TreeBegins
<1>8. ASSUME NEW r \in Runs, NEW k \in Runs, NestEnd(r, k)
      PROVE  UNCHANGED Tree!treeVars
  <2>1. /\ host[r] = "nested" /\ host[k] = "answered"
        /\ host' = [[host EXCEPT ![k] = "none"] EXCEPT ![r] = "select"]
        /\ parent' = [parent EXCEPT ![k] = NoRun]
    BY <1>8 DEF NestEnd
  <2>2. Active' = Active
    BY <1>0, <2>1 DEF Active
  <2>3. \A q \in Active : parent'[q] = parent[q]
    BY <1>0, <2>1 DEF Active
  <2> QED
    BY <2>2, <2>3, TreeSame
<1>9. ASSUME NEW r \in Runs, Answer(r) PROVE Tree!End({r})
  <2>1. /\ host[r] = "select" /\ host' = [host EXCEPT ![r] = "answered"]
        /\ UNCHANGED parent
    BY <1>9 DEF Answer
  <2>2. r \in Active /\ Active' = Active \ {r}
    BY <1>0, <2>1 DEF Active
  <2>3. \A q \in Active : parent[q] # r
    BY <2>1, IdleChildless DEF Active
  <2> QED
    BY <2>1, <2>2, <2>3, TreeEnds
<1>10. ASSUME NEW r \in Runs, Drop(r)
       PROVE  \E gone \in SUBSET Runs : Tree!End(gone)
  <2> DEFINE gone == {r} \cup {k \in Children(r) : host[k] # "answered"}
             ended == Active \cap gone
  <2>1. /\ host' = [k \in Runs |-> IF k \in gone THEN "dropped" ELSE host[k]]
        /\ UNCHANGED parent
        /\ r \in Scripts /\ host[r] \in {"select", "dispatch", "nested"}
    BY <1>10 DEF Drop
  <2>2. r \in gone /\ \A k \in gone : k = r \/ parent[k] = r
    BY DEF Children
  <2>3. \A k \in Active : parent[k] = r => k \in gone
    BY DEF Children, Active
  <2>4. \A k \in Active : parent[k] \in gone => parent[k] = r
    <3> SUFFICES ASSUME NEW k \in Active, parent[k] \in gone, parent[k] # r PROVE FALSE
      OBVIOUS
    <3>1. parent[parent[k]] = r /\ k \in Runs /\ parent[k] # NoRun
      BY <2>1, <2>2 DEF Active, Children
    <3>2. parent[k] \in Scripts /\ parent[k] \in Snippets
      BY <1>0, <2>1, <3>1 DEF Family
    <3> QED
      BY <3>2
  <2> HIDE DEF gone
  <2>5. Active' = Active \ ended
    BY <2>1 DEF Active
  <2>6. r \in ended
    BY <2>1, <2>2 DEF Active
  <2>7. NoRun \notin ended /\ ended \subseteq Active /\ ended \in SUBSET Runs
    BY DEF Active
  <2>8. \A q \in Active : parent[q] \in ended => q \in ended
    BY <2>3, <2>4
  <2> QED
    BY <2>1, <2>5, <2>6, <2>7, <2>8, TreeEnds
<1>11. CASE UNCHANGED vars
  BY <1>3, <1>11 DEF vars
<1>12. \A r \in Runs : {r} \in SUBSET Runs
  OBVIOUS
<1> QED
  BY <1>1, <1>2, <1>4, <1>5, <1>6, <1>7, <1>8, <1>9, <1>10, <1>11, <1>12
  DEF Next, HostStep, Done, Tree!Next

\* However requests, answers and dropped tasks interleave, the loops of run_script
\* form a tree of two levels that comes down from the leaves, or all at once.
THEOREM RunsFormTree == Spec => ImplementsScriptTree
BY TreeInit, TreeStep, Inductive, PTL DEF Spec, ImplementsScriptTree, Tree!Spec
=============================================================================
