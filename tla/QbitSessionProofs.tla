------------------------- MODULE QbitSessionProofs --------------------------
(***************************************************************************)
(* Theorems about QbitSession for any number of calls, services and hosts. *)
(***************************************************************************)
EXTENDS QbitSession, TLAPS

USE ConfigAssumption DEF Attempts, Sids, Running, Outcomes, Replies, Requests

\* What the type invariant needs besides itself to be inductive: only a first
\* attempt is evicted, and replies wait only for calls that await one.
EvictOnce == \A c \in Calls : pc[c] = "evict" => attempt[c] = 1

TInv == TypeOK /\ EvictOnce

LEMMA TInvInit == Init => TInv
BY DEF Init, TInv, TypeOK, EvictOnce

LEMMA TInvStep == TInv /\ [Next]_vars => TInv'
<1> SUFFICES ASSUME TInv, [Next]_vars PROVE TInv'
  OBVIOUS
<1> USE DEF TInv, TypeOK, EvictOnce, Goto, cacheVars, webuiVars, callVars
<1>1. ASSUME NEW c \in Calls, Start(c) PROVE TInv'
  BY <1>1 DEF Start
<1>2. ASSUME NEW c \in Calls, LoginAccept(c) PROVE TInv'
  BY <1>2 DEF LoginAccept
<1>3. ASSUME NEW c \in Calls, EnsureFast(c) PROVE TInv'
  BY <1>3 DEF EnsureFast
<1>4. ASSUME NEW c \in Calls, EnsureLogin(c) PROVE TInv'
  BY <1>4 DEF EnsureLogin
<1>5. ASSUME NEW c \in Calls, LoginReceive(c) PROVE TInv'
  BY <1>5 DEF LoginReceive
<1>6. ASSUME NEW c \in Calls, LoginFail(c) PROVE TInv'
  <2>1. CASE UNCHANGED jar
    BY <1>6, <2>1 DEF LoginFail
  <2>2. CASE jar' = [jar EXCEPT ![HostOf[Target[c]]] = <<c, attempt[c]>>]
    <3>1. <<c, attempt[c]>> \in Sids
      OBVIOUS
    <3> QED
      BY <1>6, <2>2, <3>1 DEF LoginFail
  <2> QED
    BY <1>6, <2>1, <2>2 DEF LoginFail
<1>7. ASSUME NEW c \in Calls, Record(c) PROVE TInv'
  BY <1>7 DEF Record
<1>8. ASSUME NEW c \in Calls, Send(c) PROVE TInv'
  BY <1>8 DEF Send
<1>9. ASSUME NEW c \in Calls, Receive(c) PROVE TInv'
  BY <1>9 DEF Receive
<1>10. ASSUME NEW c \in Calls, TimeOut(c) PROVE TInv'
  BY <1>10 DEF TimeOut
<1>11. ASSUME NEW c \in Calls, Evict(c) PROVE TInv'
  BY <1>11 DEF Evict
<1>12. ASSUME NEW m \in wire, Serve(m) PROVE TInv'
  BY <1>12 DEF Serve
<1>13. ASSUME NEW b \in BaseUrls, TtlLapse(b) PROVE TInv'
  BY <1>13 DEF TtlLapse
<1>14. ASSUME NEW b \in BaseUrls, Expire(b) PROVE TInv'
  BY <1>14 DEF Expire
<1>15. CASE UNCHANGED vars
  BY <1>15 DEF vars
<1> QED
  BY <1>1, <1>2, <1>3, <1>4, <1>5, <1>6, <1>7, <1>8, <1>9, <1>10, <1>11,
     <1>12, <1>13, <1>14, <1>15 DEF Next, Progress, Quiescent

\* Every variable keeps its type.
THEOREM TypeCorrect == Spec => []TypeOK
<1>1. TInv => TypeOK
  BY DEF TInv
<1> QED
  BY <1>1, TInvInit, TInvStep, PTL DEF Spec
-----------------------------------------------------------------------------
(***************************************************************************)
(* At most one effect.  A call that has not sent its current attempt has   *)
(* nothing on the wire and no effect upstream; while it awaits an answer,  *)
(* or after it gave up, either its one request is on the wire and has no   *)
(* effect yet, or it is gone.                                              *)
(***************************************************************************)

Unsent == {"idle", "ensure", "login", "granted", "record", "send", "evict"}

OneRequest == \A m, n \in wire : m.call = n.call => m = n

EffectInv(c) ==
  /\ applied[c] \in 0..1
  /\ pc[c] \in Unsent => applied[c] = 0
  /\ pc[c] = "ok" => applied[c] = 1
  /\ pc[c] = "denied" => applied[c] = 0
  /\ reply[c] # "none" => pc[c] = "await"
  /\ reply[c] = "ok" => applied[c] = 1
  /\ reply[c] = "denied" => applied[c] = 0

WireInv ==
  \A m \in wire :
     /\ pc[m.call] \in {"await", "failed"}
     /\ reply[m.call] = "none"
     /\ applied[m.call] = 0
     /\ pc[m.call] = "await" => attempt[m.call] = m.attempt

AInv == TInv /\ OneRequest /\ WireInv /\ \A c \in Calls : EffectInv(c)

LEMMA AInvInit == Init => AInv
BY TInvInit DEF Init, AInv, OneRequest, WireInv, EffectInv, Unsent

LEMMA AInvStep == AInv /\ [Next]_vars => AInv'
<1> SUFFICES ASSUME AInv, [Next]_vars PROVE AInv'
  OBVIOUS
<1>0. TInv'
  BY TInvStep DEF AInv
<1> USE <1>0 DEF AInv, TInv, TypeOK, EvictOnce, Goto, cacheVars, webuiVars,
        callVars, OneRequest, WireInv, EffectInv, Unsent
<1>1. ASSUME NEW c \in Calls, Start(c) PROVE AInv'
  BY <1>1 DEF Start
<1>2. ASSUME NEW c \in Calls, LoginAccept(c) PROVE AInv'
  BY <1>2 DEF LoginAccept
<1>3. ASSUME NEW c \in Calls, EnsureFast(c) PROVE AInv'
  BY <1>3 DEF EnsureFast
<1>4. ASSUME NEW c \in Calls, EnsureLogin(c) PROVE AInv'
  BY <1>4 DEF EnsureLogin
<1>5. ASSUME NEW c \in Calls, LoginReceive(c) PROVE AInv'
  BY <1>5 DEF LoginReceive
<1>6. ASSUME NEW c \in Calls, LoginFail(c) PROVE AInv'
  BY <1>6 DEF LoginFail
<1>7. ASSUME NEW c \in Calls, Record(c) PROVE AInv'
  BY <1>7 DEF Record
<1>8. ASSUME NEW c \in Calls, Send(c) PROVE AInv'
  BY <1>8 DEF Send
<1>9. ASSUME NEW c \in Calls, Receive(c) PROVE AInv'
  BY <1>9 DEF Receive
<1>10. ASSUME NEW c \in Calls, TimeOut(c) PROVE AInv'
  BY <1>10 DEF TimeOut
<1>11. ASSUME NEW c \in Calls, Evict(c) PROVE AInv'
  BY <1>11 DEF Evict
<1>12. ASSUME NEW m \in wire, Serve(m) PROVE AInv'
  BY <1>12 DEF Serve
<1>13. ASSUME NEW b \in BaseUrls, TtlLapse(b) PROVE AInv'
  BY <1>13 DEF TtlLapse
<1>14. ASSUME NEW b \in BaseUrls, Expire(b) PROVE AInv'
  BY <1>14 DEF Expire
<1>15. CASE UNCHANGED vars
  BY <1>15 DEF vars
<1> QED
  BY <1>1, <1>2, <1>3, <1>4, <1>5, <1>6, <1>7, <1>8, <1>9, <1>10, <1>11,
     <1>12, <1>13, <1>14, <1>15 DEF Next, Progress, Quiescent

\* Whatever is retried, lost or answered late, a request has at most one effect
\* upstream.
THEOREM AtMostOnce == Spec => []EffectAtMostOnce
<1>1. AInv => EffectAtMostOnce
  BY DEF AInv, EffectInv, EffectAtMostOnce
<1> QED
  BY <1>1, AInvInit, AInvStep, PTL DEF Spec
-----------------------------------------------------------------------------
(***************************************************************************)
(* The client implements the abstract upstream call: Serve is Apply when   *)
(* it has an effect, Receive, TimeOut and LoginFail are End, the rest      *)
(* stutters.                                                               *)
(***************************************************************************)

LEMMA MapsInit == Init => Abstract!Init
BY DEF Init, Abstract!Init, Phase

LEMMA PhaseOfGoto ==
  ASSUME NEW c \in Calls, NEW label, TypeOK, Goto(c, label)
  PROVE  [d \in Calls |-> Phase(pc[d])]'
           = [[d \in Calls |-> Phase(pc[d])] EXCEPT ![c] = Phase(label)]
BY DEF TypeOK, Goto, Phase

LEMMA EndOfGoto ==
  ASSUME NEW c \in Calls, NEW outcome \in Outcomes, TypeOK, pc[c] \in Running,
         Goto(c, outcome), UNCHANGED applied,
         outcome = "ok" => applied[c] = 1, outcome = "denied" => applied[c] = 0
  PROVE  Abstract!End(c, outcome)
<1>1. Phase(outcome) = outcome /\ Phase(pc[c]) = "running"
  BY DEF Phase
<1> QED
  BY <1>1, PhaseOfGoto DEF Abstract!End

LEMMA MapsStep == AInv /\ [Next]_vars => [Abstract!Next]_Abstract!vars
<1> SUFFICES ASSUME AInv, [Next]_vars PROVE [Abstract!Next]_Abstract!vars
  OBVIOUS
<1> USE DEF AInv, TInv, TypeOK, Goto, OneRequest, WireInv, EffectInv, Unsent,
        Phase, cacheVars, webuiVars, callVars, Abstract!vars
<1>1. ASSUME NEW c \in Calls, Start(c) PROVE Abstract!Begin(c)
  <2>1. Goto(c, "ensure") /\ pc[c] = "idle" /\ UNCHANGED applied
    BY <1>1 DEF Start
  <2> QED
    BY <2>1, PhaseOfGoto DEF Abstract!Begin
<1>2. ASSUME NEW c \in Calls,
             LoginAccept(c) \/ EnsureFast(c) \/ EnsureLogin(c) \/ LoginReceive(c)
               \/ Record(c) \/ Send(c) \/ Evict(c)
      PROVE  UNCHANGED Abstract!vars
  BY <1>2 DEF LoginAccept, EnsureFast, EnsureLogin, LoginReceive, Record, Send,
              Evict
<1>3. ASSUME NEW c \in Calls, LoginFail(c) PROVE Abstract!End(c, "failed")
  <2>1. Goto(c, "failed") /\ pc[c] \in Running /\ UNCHANGED applied
    BY <1>3 DEF LoginFail
  <2> QED
    BY <2>1, EndOfGoto
<1>4. ASSUME NEW c \in Calls, TimeOut(c) PROVE Abstract!End(c, "failed")
  BY <1>4 DEF TimeOut, Abstract!End
<1>5. ASSUME NEW c \in Calls, Receive(c)
      PROVE  \/ UNCHANGED Abstract!vars
             \/ \E outcome \in {"ok", "denied", "failed"} : Abstract!End(c, outcome)
  <2>1. CASE reply[c] = "ok"
    <3>1. Goto(c, "ok") /\ pc[c] \in Running /\ UNCHANGED applied
      BY <1>5, <2>1 DEF Receive
    <3>2. applied[c] = 1
      BY <2>1
    <3> QED
      BY <3>1, <3>2, EndOfGoto
  <2>2. CASE reply[c] = "error"
    <3>1. Goto(c, "failed") /\ pc[c] \in Running /\ UNCHANGED applied
      BY <1>5, <2>2 DEF Receive
    <3> QED
      BY <3>1, EndOfGoto
  <2>3. CASE reply[c] = "denied" /\ attempt[c] = 1
    BY <1>5, <2>3 DEF Receive
  <2>4. CASE reply[c] = "denied" /\ attempt[c] # 1
    <3>1. Goto(c, "denied") /\ pc[c] \in Running /\ UNCHANGED applied
      BY <1>5, <2>4 DEF Receive
    <3>2. applied[c] = 0
      BY <2>4
    <3> QED
      BY <3>1, <3>2, EndOfGoto
  <2> QED
    BY <1>5, <2>1, <2>2, <2>3, <2>4 DEF Receive
<1>6. ASSUME NEW m \in wire, Serve(m)
      PROVE  Abstract!Apply(m.call) \/ UNCHANGED Abstract!vars
  BY <1>6 DEF Serve, Abstract!Apply
<1>7. ASSUME NEW b \in BaseUrls, TtlLapse(b) \/ Expire(b)
      PROVE  UNCHANGED Abstract!vars
  BY <1>7 DEF TtlLapse, Expire
<1>8. CASE UNCHANGED vars
  BY <1>8 DEF vars
<1> QED
  BY <1>1, <1>2, <1>3, <1>4, <1>5, <1>6, <1>7, <1>8
  DEF Next, Progress, Quiescent, Abstract!Next

\* The session cache, the concurrent logins and the retry refine UpstreamCall.
THEOREM Refinement == Spec => ImplementsUpstreamCall
<1>1. Spec => []AInv
  BY AInvInit, AInvStep, PTL DEF Spec
<1> QED
  BY <1>1, MapsInit, MapsStep, PTL
  DEF Spec, ImplementsUpstreamCall, Abstract!Spec
-----------------------------------------------------------------------------
(***************************************************************************)
(* No denial from a WebUI that kept its sessions.  As long as b has not    *)
(* expired, a fresh entry for b means that the jar holds a live SID of b,  *)
(* and so does every call to b that is past its login and every request on *)
(* the wire.  It needs one service per host: the jar has one SID for both. *)
(***************************************************************************)

LiveSidOf(b, s) == s \in live /\ IssuedBy(s) = b

HealthyInv(b) ==
  /\ b \in fresh => LiveSidOf(b, jar[HostOf[b]])
  /\ \A c \in Calls : Target[c] = b =>
       /\ pc[c] = "granted" => <<c, attempt[c]>> \in live
       /\ pc[c] \in {"record", "send"} => LiveSidOf(b, jar[HostOf[b]])
       /\ reply[c] # "denied"
  /\ \A m \in wire : Target[m.call] = b => LiveSidOf(b, m.sid)

HInv == \A b \in Credentialed \ expired : HealthyInv(b)

LEMMA HInvInit == Init => HInv
BY DEF Init, HInv, HealthyInv

LEMMA SidIssuer == ASSUME NEW c \in Calls, NEW a \in 1..2
                   PROVE  <<c, a>> \in Sids /\ IssuedBy(<<c, a>>) = Target[c]
BY DEF IssuedBy

\* A login changes the jar for its own service only, and to a SID it issued.
LEMMA JarOfLogin ==
  ASSUME HostsDistinct, TypeOK, NEW c \in Calls, NEW b \in BaseUrls,
         jar' = [jar EXCEPT ![HostOf[Target[c]]] = <<c, attempt[c]>>]
  PROVE  IF Target[c] = b
         THEN jar'[HostOf[b]] = <<c, attempt[c]>> /\ IssuedBy(jar'[HostOf[b]]) = b
         ELSE jar'[HostOf[b]] = jar[HostOf[b]]
BY DEF HostsDistinct, TypeOK, IssuedBy

LEMMA HInvStep ==
  ASSUME HostsDistinct PROVE TInv /\ HInv /\ [Next]_vars => HInv'
<1> SUFFICES ASSUME TInv, HInv, [Next]_vars PROVE HInv'
  OBVIOUS
<1> USE HostsDistinct, SidIssuer
    DEF HostsDistinct, TInv, TypeOK, HInv, HealthyInv, LiveSidOf, Goto,
        cacheVars, webuiVars, callVars
<1>1. ASSUME NEW c \in Calls, Start(c) PROVE HInv'
  BY <1>1 DEF Start
<1>2. ASSUME NEW c \in Calls, LoginAccept(c) PROVE HInv'
  BY <1>2 DEF LoginAccept
<1>3. ASSUME NEW c \in Calls, EnsureFast(c) PROVE HInv'
  BY <1>3 DEF EnsureFast
<1>4. ASSUME NEW c \in Calls, EnsureLogin(c) PROVE HInv'
  BY <1>4 DEF EnsureLogin
<1>5. ASSUME NEW c \in Calls, LoginReceive(c) PROVE HInv'
  <2>1. ASSUME NEW b \in Credentialed \ expired,
               b \in fresh \/ b = Target[c]
                 \/ \E d \in Calls : Target[d] = b /\ pc[d] \in {"record", "send"}
        PROVE  LiveSidOf(b, jar[HostOf[b]])'
    <3>1. UNCHANGED live /\ <<c, attempt[c]>> \in Sids
      BY <1>5 DEF LoginReceive
    <3>2. jar' = [jar EXCEPT ![HostOf[Target[c]]] = <<c, attempt[c]>>]
      BY <1>5 DEF LoginReceive
    <3>3. CASE Target[c] = b
      <4>1. <<c, attempt[c]>> \in live
        BY <1>5, <3>3 DEF LoginReceive
      <4> QED
        BY <3>1, <3>2, <3>3, <4>1, JarOfLogin DEF IssuedBy
    <3>4. CASE Target[c] # b
      <4>1. jar'[HostOf[b]] = jar[HostOf[b]]
        BY <3>2, <3>4, JarOfLogin
      <4>2. LiveSidOf(b, jar[HostOf[b]])
        BY <2>1, <3>4
      <4> QED
        BY <3>1, <4>1, <4>2 DEF IssuedBy
    <3> QED
      BY <3>3, <3>4
  <2>2. /\ pc' = [pc EXCEPT ![c] = "record"]
        /\ UNCHANGED <<fresh, live, expired, attempt, wire, reply>>
    BY <1>5 DEF LoginReceive
  <2> QED
    BY <2>1, <2>2 DEF IssuedBy
<1>6. ASSUME NEW c \in Calls, LoginFail(c) PROVE HInv'
  <2>1. ASSUME NEW b \in Credentialed \ expired,
               b \in fresh
                 \/ \E d \in Calls : Target[d] = b /\ pc[d] \in {"record", "send"}
        PROVE  LiveSidOf(b, jar[HostOf[b]])'
    <3>1. UNCHANGED live /\ <<c, attempt[c]>> \in Sids
      BY <1>6 DEF LoginFail
    <3>2. CASE UNCHANGED jar
      BY <2>1, <3>1, <3>2 DEF IssuedBy
    <3>3. CASE /\ pc[c] = "granted"
               /\ jar' = [jar EXCEPT ![HostOf[Target[c]]] = <<c, attempt[c]>>]
      <4>1. CASE Target[c] = b
        <5>1. <<c, attempt[c]>> \in live
          BY <3>3, <4>1
        <5> QED
          BY <3>1, <3>3, <4>1, <5>1, JarOfLogin DEF IssuedBy
      <4>2. CASE Target[c] # b
        <5>1. jar'[HostOf[b]] = jar[HostOf[b]]
          BY <3>3, <4>2, JarOfLogin
        <5> QED
          BY <2>1, <3>1, <5>1 DEF IssuedBy
      <4> QED
        BY <4>1, <4>2
    <3> QED
      BY <1>6, <3>2, <3>3 DEF LoginFail
  <2>2. /\ pc' = [pc EXCEPT ![c] = "failed"]
        /\ UNCHANGED <<fresh, live, expired, attempt, wire, reply>>
    BY <1>6 DEF LoginFail
  <2> QED
    BY <2>1, <2>2 DEF IssuedBy
<1>7. ASSUME NEW c \in Calls, Record(c) PROVE HInv'
  <2>1. ASSUME NEW b \in Credentialed \ expired, b \in fresh'
        PROVE  LiveSidOf(b, jar[HostOf[b]])'
    BY <1>7, <2>1 DEF Record
  <2> QED
    BY <1>7, <2>1 DEF Record
<1>8. ASSUME NEW c \in Calls, Send(c) PROVE HInv'
  <2>1. ASSUME NEW b \in Credentialed \ expired, NEW m \in wire', Target[m.call] = b
        PROVE  LiveSidOf(b, m.sid)'
    <3>1. m \in wire \/ (m.call = c /\ m.sid = jar[HostOf[b]])
      BY <1>8, <2>1 DEF Send
    <3> QED
      BY <1>8, <2>1, <3>1 DEF Send
  <2> QED
    BY <1>8, <2>1 DEF Send
<1>9. ASSUME NEW c \in Calls, Receive(c) PROVE HInv'
  BY <1>9 DEF Receive
<1>10. ASSUME NEW c \in Calls, TimeOut(c) PROVE HInv'
  BY <1>10 DEF TimeOut
<1>11. ASSUME NEW c \in Calls, Evict(c) PROVE HInv'
  BY <1>11 DEF Evict
<1>12. ASSUME NEW m \in wire, Serve(m) PROVE HInv'
  BY <1>12 DEF Serve, Admits, Denies
<1>13. ASSUME NEW b \in BaseUrls, TtlLapse(b) PROVE HInv'
  BY <1>13 DEF TtlLapse
<1>14. ASSUME NEW b \in BaseUrls, Expire(b) PROVE HInv'
  BY <1>14 DEF Expire
<1>15. CASE UNCHANGED vars
  BY <1>15 DEF vars
<1> QED
  BY <1>1, <1>2, <1>3, <1>4, <1>5, <1>6, <1>7, <1>8, <1>9, <1>10, <1>11,
     <1>12, <1>13, <1>14, <1>15 DEF Next, Progress, Quiescent

\* With one service per host, no interleaving of logins, records, evictions and
\* sends makes a WebUI that kept its sessions deny a request.
THEOREM HealthyNeverDenied ==
  ASSUME HostsDistinct PROVE Spec => []DenialNeedsExpiry
<1>1. Init => TInv /\ HInv
  BY TInvInit, HInvInit
<1>2. TInv /\ HInv /\ [Next]_vars => (TInv /\ HInv)'
  BY TInvStep, HInvStep
<1>3. TInv /\ HInv => DenialNeedsExpiry
  BY DEF HInv, HealthyInv, DenialNeedsExpiry, TInv, TypeOK
<1> QED
  BY <1>1, <1>2, <1>3, PTL DEF Spec
-----------------------------------------------------------------------------
(***************************************************************************)
(* The cache heals itself.  While a running call is undisturbed it is the  *)
(* only one at its host, so after its eviction nobody but itself can make  *)
(* the entry fresh or change the jar: its retry logs in, and the SID of    *)
(* that login is live, in the jar and on the wire until it is answered.    *)
(***************************************************************************)

Solo(c) == pc[c] \in Running /\ c \notin disturbed
Exclusive(c) ==
  Solo(c) => \A d \in Calls \ {c} : SameHost(c, d) => pc[d] \notin Running

RetryInv(c) ==
  LET sid == <<c, 2>> IN
  Solo(c) /\ attempt[c] = 2 /\ Target[c] \in Credentialed =>
     /\ pc[c] = "ensure" => Target[c] \notin fresh
     /\ pc[c] \in {"granted", "record", "send", "await"} => sid \in live
     /\ pc[c] \in {"record", "send"} => jar[HostOf[Target[c]]] = sid
     /\ pc[c] = "await" =>
          \A m \in wire : m.call = c /\ m.attempt = 2 => m.sid = sid
     /\ reply[c] # "denied"

SInv == \A c \in Calls :
          /\ Exclusive(c) /\ RetryInv(c)
          /\ pc[c] = "idle" => attempt[c] = 1
          /\ pc[c] = "denied" /\ Target[c] \in Credentialed => c \in disturbed

LEMMA SInvInit == Init => SInv
BY DEF Init, SInv, Exclusive, RetryInv, Solo

\* What a step of a running call must do to keep SInv: leave the others and
\* their hosts alone, and keep RetryInv for itself.
LEMMA SoloFrame ==
  ASSUME AInv, SInv, NEW c \in Calls, pc[c] \in Running, pc'[c] # "idle",
         UNCHANGED disturbed,
         \A d \in Calls \ {c} : /\ pc'[d] = pc[d] /\ attempt'[d] = attempt[d]
                                /\ reply'[d] = reply[d],
         live \subseteq live',
         \A b \in BaseUrls \ {Target[c]} : b \in fresh' <=> b \in fresh,
         \A h \in Hosts \ {HostOf[Target[c]]} : jar'[h] = jar[h],
         \A m \in wire' : m.call # c => m \in wire,
         RetryInv(c)',
         pc'[c] = "denied" /\ Target[c] \in Credentialed => c \in disturbed
  PROVE  SInv'
<1> USE DEF SInv
<1>1. ASSUME NEW e \in Calls PROVE Exclusive(e)'
  BY <1>1 DEF Exclusive, Solo
<1>2. ASSUME NEW e \in Calls PROVE RetryInv(e)'
  <2>1. CASE e = c
    BY <2>1
  <2>2. CASE e # c
    <3> SUFFICES ASSUME Solo(e), attempt[e] = 2, Target[e] \in Credentialed
                 PROVE  RetryInv(e)'
      BY <2>2 DEF RetryInv, Solo
    <3>1. HostOf[Target[e]] # HostOf[Target[c]] /\ Target[e] # Target[c]
      BY <2>2 DEF Exclusive, SameHost
    <3>2. HostOf[Target[e]] \in Hosts /\ Target[e] \in BaseUrls
      OBVIOUS
    <3>3. \A m \in wire' : m.call = e => m \in wire
      BY <2>2
    <3>4. RetryInv(e)
      OBVIOUS
    <3> QED
      BY <2>2, <3>1, <3>2, <3>3, <3>4 DEF RetryInv, Solo
  <2> QED
    BY <2>1, <2>2
<1>3. \A e \in Calls : pc'[e] = "denied" /\ Target[e] \in Credentialed
                         => e \in disturbed'
  OBVIOUS
<1>4. \A e \in Calls : pc'[e] = "idle" => attempt'[e] = 1
  OBVIOUS
<1> QED
  BY <1>1, <1>2, <1>3, <1>4

LEMMA SInvStep == AInv /\ SInv /\ [Next]_vars => SInv'
<1> SUFFICES ASSUME AInv, SInv, [Next]_vars PROVE SInv'
  OBVIOUS
<1> USE DEF AInv, TInv, TypeOK, Goto, cacheVars, webuiVars, callVars
<1>0. \A c \in Calls : /\ Exclusive(c) /\ RetryInv(c)
                       /\ pc[c] = "idle" => attempt[c] = 1
  BY DEF SInv
<1>1. ASSUME NEW c \in Calls, Start(c) PROVE SInv'
  <2>1. \A e \in Calls : Exclusive(e)'
    BY <1>0, <1>1 DEF Start, Exclusive, Solo, SameHost
  <2>2. \A e \in Calls : RetryInv(e)'
    <3>1. attempt[c] = 1
      BY <1>0, <1>1 DEF Start
    <3> QED
      BY <1>0, <1>1, <3>1 DEF Start, RetryInv, Solo
  <2> QED
    BY <1>0, <1>1, <2>1, <2>2 DEF Start, SInv
<1>2. ASSUME NEW c \in Calls, LoginAccept(c) PROVE SInv'
  <2>1. RetryInv(c)'
    BY <1>0, <1>2 DEF LoginAccept, RetryInv, Solo, WireInv
  <2> QED
    BY <1>2, <2>1, SoloFrame DEF LoginAccept
<1>3. ASSUME NEW c \in Calls, EnsureFast(c) PROVE SInv'
  <2>1. RetryInv(c)'
    BY <1>0, <1>3 DEF EnsureFast, RetryInv, Solo, WireInv
  <2> QED
    BY <1>3, <2>1, SoloFrame DEF EnsureFast
<1>4. ASSUME NEW c \in Calls, EnsureLogin(c) PROVE SInv'
  <2>1. RetryInv(c)'
    BY <1>0, <1>4 DEF EnsureLogin, RetryInv, Solo, WireInv
  <2> QED
    BY <1>4, <2>1, SoloFrame DEF EnsureLogin
<1>5. ASSUME NEW c \in Calls, LoginReceive(c) PROVE SInv'
  <2>1. RetryInv(c)'
    BY <1>0, <1>5 DEF LoginReceive, RetryInv, Solo, WireInv
  <2> QED
    BY <1>5, <2>1, SoloFrame DEF LoginReceive
<1>6. ASSUME NEW c \in Calls, LoginFail(c) PROVE SInv'
  <2>1. RetryInv(c)'
    BY <1>0, <1>6 DEF LoginFail, RetryInv, Solo, WireInv
  <2> QED
    BY <1>6, <2>1, SoloFrame DEF LoginFail
<1>7. ASSUME NEW c \in Calls, Record(c) PROVE SInv'
  <2>1. RetryInv(c)'
    BY <1>0, <1>7 DEF Record, RetryInv, Solo, WireInv
  <2> QED
    BY <1>7, <2>1, SoloFrame DEF Record
<1>8. ASSUME NEW c \in Calls, Send(c) PROVE SInv'
  <2>1. RetryInv(c)'
    BY <1>0, <1>8 DEF Send, RetryInv, Solo, WireInv
  <2> QED
    BY <1>8, <2>1, SoloFrame DEF Send
<1>9. ASSUME NEW c \in Calls, Receive(c) PROVE SInv'
  <2>1. RetryInv(c)'
    BY <1>0, <1>9 DEF Receive, RetryInv, Solo, WireInv
  <2>2. pc'[c] = "denied" /\ Target[c] \in Credentialed => c \in disturbed
    <3> SUFFICES ASSUME pc'[c] = "denied", Target[c] \in Credentialed,
                        c \notin disturbed
                 PROVE  FALSE
      OBVIOUS
    <3>1. reply[c] = "denied" /\ attempt[c] = 2 /\ pc[c] = "await"
      BY <1>9 DEF Receive
    <3> QED
      BY <1>0, <3>1 DEF RetryInv, Solo
  <2>3. pc' = [pc EXCEPT ![c] = pc'[c]] /\ pc'[c] # "idle" /\ pc[c] \in Running
    BY <1>9 DEF Receive
  <2> QED
    BY <1>9, <2>1, <2>2, <2>3, SoloFrame DEF Receive
<1>10. ASSUME NEW c \in Calls, TimeOut(c) PROVE SInv'
  <2>1. RetryInv(c)'
    BY <1>0, <1>10 DEF TimeOut, RetryInv, Solo, WireInv
  <2> QED
    BY <1>10, <2>1, SoloFrame DEF TimeOut
<1>11. ASSUME NEW c \in Calls, Evict(c) PROVE SInv'
  <2>1. RetryInv(c)'
    <3>1. attempt'[c] = 2 /\ pc'[c] = "ensure" /\ reply'[c] = "none"
      BY <1>11 DEF Evict, EvictOnce, EffectInv
    <3>2. Target[c] \notin fresh'
      BY <1>11 DEF Evict
    <3> QED
      BY <3>1, <3>2 DEF RetryInv
  <2> QED
    BY <1>11, <2>1, SoloFrame DEF Evict
<1>12. ASSUME NEW m \in wire, Serve(m) PROVE SInv'
  <2> DEFINE c == m.call
  <2>1. /\ c \in Calls /\ wire' \subseteq wire
        /\ UNCHANGED <<fresh, jar, live, pc, attempt, disturbed>>
        /\ \A d \in Calls \ {c} : reply'[d] = reply[d]
    BY <1>12 DEF Serve
  <2>2. \A e \in Calls : Exclusive(e)'
    BY <1>0, <2>1 DEF Exclusive, Solo
  <2>3. ASSUME NEW e \in Calls PROVE RetryInv(e)'
    <3>1. CASE e # c
      BY <1>0, <2>1, <3>1 DEF RetryInv, Solo
    <3>2. CASE e = c
      <4> SUFFICES ASSUME Solo(c), attempt[c] = 2, Target[c] \in Credentialed
                   PROVE  RetryInv(c)'
        BY <2>1, <3>2 DEF RetryInv, Solo
      <4>1. pc[c] = "await" /\ m.attempt = 2
        BY <1>12 DEF Solo, WireInv
      <4>2. m.sid = <<c, 2>> /\ <<c, 2>> \in live
        BY <1>0, <1>12, <2>1, <4>1 DEF RetryInv
      <4>3. Admits(Target[c], m.sid)
        BY <2>1, <4>2 DEF Admits, IssuedBy
      <4>4. reply'[c] # "denied"
        BY <1>0, <1>12, <2>1, <4>3 DEF Serve, Denies, RetryInv
      <4> QED
        BY <1>0, <2>1, <4>4 DEF RetryInv, Solo
    <3> QED
      BY <3>1, <3>2
  <2> QED
    BY <2>1, <2>2, <2>3 DEF SInv
<1>13. ASSUME NEW b \in BaseUrls, TtlLapse(b) PROVE SInv'
  BY <1>13 DEF TtlLapse, SInv, Exclusive, RetryInv, Solo
<1>14. ASSUME NEW b \in BaseUrls, Expire(b) PROVE SInv'
  <2>1. /\ UNCHANGED <<fresh, jar, pc, attempt, wire, reply>>
        /\ disturbed \subseteq disturbed'
        /\ \A e \in Calls : Solo(e)' => Solo(e) /\ Target[e] # b
    BY <1>14 DEF Expire, Solo
  <2>2. \A e \in Calls : Exclusive(e)'
    BY <1>0, <2>1 DEF Exclusive
  <2>3. \A e \in Calls : Target[e] # b /\ <<e, 2>> \in live => <<e, 2>> \in live'
    BY <1>14, SidIssuer DEF Expire
  <2>4. \A e \in Calls : RetryInv(e)'
    BY <1>0, <2>1, <2>3 DEF RetryInv
  <2> QED
    BY <2>1, <2>2, <2>4 DEF SInv
<1>15. CASE UNCHANGED vars
  BY <1>15 DEF vars, SInv, Exclusive, RetryInv, Solo
<1> QED
  BY <1>1, <1>2, <1>3, <1>4, <1>5, <1>6, <1>7, <1>8, <1>9, <1>10, <1>11,
     <1>12, <1>13, <1>14, <1>15 DEF Next, Progress, Quiescent

\* A call that no other call to its host and no expiry overlaps never ends in
\* 401/403, whatever the calls and expiries before it left behind.
THEOREM SoloAlwaysRecovers == Spec => []SoloRecovers
<1>1. Init => AInv /\ SInv
  BY AInvInit, SInvInit
<1>2. AInv /\ SInv /\ [Next]_vars => (AInv /\ SInv)'
  BY AInvStep, SInvStep
<1>3. SInv => SoloRecovers
  BY DEF SInv, SoloRecovers
<1> QED
  BY <1>1, <1>2, <1>3, PTL DEF Spec
-----------------------------------------------------------------------------
(***************************************************************************)
(* Freshness tracks the host when every service has one of its own: a      *)
(* recorded session, or one about to be, is the SID the jar sends.  The    *)
(* run of QbitSharedHost shows that the assumption cannot be dropped.      *)
(***************************************************************************)

Owns(b) == \E s \in Sids : jar[HostOf[b]] = s /\ IssuedBy(s) = b

FInv ==
  /\ \A b \in fresh : Owns(b)
  /\ \A c \in Calls : pc[c] = "record" => Owns(Target[c])

LEMMA FInvInit == Init => FInv
BY DEF Init, FInv

\* A login that reaches the jar leaves every service that had its own SID with
\* one, and gives one to the service it logged in to.
LEMMA LoginOwns ==
  ASSUME HostsDistinct, TypeOK, NEW c \in Calls, NEW b \in BaseUrls,
         jar' = [jar EXCEPT ![HostOf[Target[c]]] = <<c, attempt[c]>>],
         Owns(b) \/ Target[c] = b
  PROVE  Owns(b)'
<1>1. <<c, attempt[c]>> \in Sids
  BY DEF TypeOK
<1>2. CASE Target[c] = b
  BY <1>1, <1>2, JarOfLogin DEF Owns
<1>3. CASE Target[c] # b
  BY <1>3, JarOfLogin DEF Owns, IssuedBy
<1> QED
  BY <1>2, <1>3

LEMMA FInvStep ==
  ASSUME HostsDistinct PROVE TInv /\ FInv /\ [Next]_vars => FInv'
<1> SUFFICES ASSUME TInv, FInv, [Next]_vars PROVE FInv'
  OBVIOUS
<1> USE DEF TInv, Goto, cacheVars, webuiVars, callVars
<1>0. TypeOK
  OBVIOUS
<1>1. \A c \in Calls : Target[c] \in BaseUrls
  OBVIOUS
\* The steps that leave the jar alone and record nothing that was not on its way.
<1>2. ASSUME UNCHANGED jar,
             \A b \in fresh' : b \in fresh
                \/ \E c \in Calls : pc[c] = "record" /\ Target[c] = b,
             \A c \in Calls : pc'[c] = "record" => pc[c] = "record"
      PROVE  FInv'
  BY <1>2 DEF FInv, Owns, IssuedBy
\* The two that may change it.
<1>3. ASSUME NEW c \in Calls, UNCHANGED fresh,
             jar' = [jar EXCEPT ![HostOf[Target[c]]] = <<c, attempt[c]>>],
             \A d \in Calls \ {c} : pc'[d] = "record" => pc[d] = "record"
      PROVE  FInv'
  <2>1. \A b \in fresh' : Owns(b)'
    BY <1>0, <1>3, LoginOwns DEF FInv, TypeOK
  <2>2. ASSUME NEW d \in Calls, pc'[d] = "record" PROVE Owns(Target[d])'
    BY <1>0, <1>1, <1>3, <2>2, LoginOwns DEF FInv
  <2> QED
    BY <2>1, <2>2 DEF FInv
<1>4. ASSUME NEW c \in Calls, Start(c) \/ LoginAccept(c) PROVE FInv'
  BY <1>0, <1>2, <1>4 DEF Start, LoginAccept, TypeOK
<1>5. ASSUME NEW c \in Calls, EnsureFast(c) \/ EnsureLogin(c) \/ Send(c)
      PROVE  FInv'
  BY <1>0, <1>2, <1>5 DEF EnsureFast, EnsureLogin, Send, TypeOK
<1>6. ASSUME NEW c \in Calls, LoginReceive(c) PROVE FInv'
  BY <1>0, <1>3, <1>6 DEF LoginReceive, TypeOK
<1>7. ASSUME NEW c \in Calls, LoginFail(c) PROVE FInv'
  <2>1. CASE UNCHANGED jar
    BY <1>0, <1>2, <1>7, <2>1 DEF LoginFail, TypeOK
  <2>2. CASE jar' = [jar EXCEPT ![HostOf[Target[c]]] = <<c, attempt[c]>>]
    BY <1>0, <1>3, <1>7, <2>2 DEF LoginFail, TypeOK
  <2> QED
    BY <1>7, <2>1, <2>2 DEF LoginFail
<1>8. ASSUME NEW c \in Calls, Record(c) PROVE FInv'
  BY <1>0, <1>2, <1>8 DEF Record, TypeOK
<1>9. ASSUME NEW c \in Calls, Receive(c) \/ TimeOut(c) \/ Evict(c)
      PROVE  FInv'
  BY <1>0, <1>2, <1>9 DEF Receive, TimeOut, Evict, TypeOK
<1>10. ASSUME NEW m \in wire, Serve(m) PROVE FInv'
  BY <1>0, <1>2, <1>10 DEF Serve, TypeOK
<1>11. ASSUME NEW b \in BaseUrls, TtlLapse(b) \/ Expire(b) PROVE FInv'
  BY <1>0, <1>2, <1>11 DEF TtlLapse, Expire, TypeOK
<1>12. CASE UNCHANGED vars
  BY <1>2, <1>12 DEF vars
<1> QED
  BY <1>4, <1>5, <1>6, <1>7, <1>8, <1>9, <1>10, <1>11, <1>12
  DEF Next, Progress, Quiescent

\* With one service per host the comment in auth.rs holds: a fresh entry means
\* that the cookie sent to that service is one it issued.
THEOREM FreshnessTracked ==
  ASSUME HostsDistinct PROVE Spec => []FreshnessTracksHost
<1>1. Init => TInv /\ FInv
  BY TInvInit, FInvInit
<1>2. TInv /\ FInv /\ [Next]_vars => (TInv /\ FInv)'
  BY TInvStep, FInvStep
<1>3. TInv /\ FInv => FreshnessTracksHost
  BY DEF FInv, FreshnessTracksHost, Owns
<1> QED
  BY <1>1, <1>2, <1>3, PTL DEF Spec
-----------------------------------------------------------------------------
(***************************************************************************)
(* What CallsFinish rests on besides fairness: a call has at most fifteen  *)
(* steps to take.  Its rank counts those it may still need, seven for an   *)
(* attempt and seven more while the retry is unspent.                      *)
(***************************************************************************)

Left(label) ==
  CASE label = "ensure"  -> 7
    [] label = "login"   -> 6
    [] label = "granted" -> 5
    [] label = "record"  -> 4
    [] label = "send"    -> 3
    [] label = "await"   -> 2
    [] label = "evict"   -> 1
    [] OTHER             -> 0

Rank(c) ==
  CASE pc[c] = "idle"     -> 15
    [] pc[c] \in Outcomes -> 0
    [] OTHER              -> Left(pc[c]) + (IF attempt[c] = 1 THEN 7 ELSE 0)

\* A step leaves a call where it is or brings it nearer to its end.
RankFalls ==
  \A c \in Calls : \/ pc'[c] = pc[c] /\ attempt'[c] = attempt[c]
                   \/ Rank(c)' < Rank(c)

LEMMA RankInNat ==
  ASSUME TypeOK, NEW c \in Calls
  PROVE  Rank(c) \in 0..15 /\ (Rank(c) = 0 <=> pc[c] \in Outcomes)
BY DEF TypeOK, Rank, Left

LEMMA RankStep == TInv /\ [Next]_vars => RankFalls
<1> SUFFICES ASSUME TInv, [Next]_vars PROVE RankFalls
  OBVIOUS
<1> USE DEF TInv, TypeOK, Goto, RankFalls, cacheVars, webuiVars, callVars
<1>1. ASSUME NEW c \in Calls, NEW label, Goto(c, label), UNCHANGED attempt,
             Rank(c)' < Rank(c)
      PROVE  RankFalls
  BY <1>1
<1>2. ASSUME NEW c \in Calls, Start(c) \/ LoginAccept(c) PROVE RankFalls
  BY <1>1, <1>2 DEF Start, LoginAccept, Rank, Left
<1>3. ASSUME NEW c \in Calls, EnsureFast(c) \/ EnsureLogin(c) PROVE RankFalls
  BY <1>1, <1>3 DEF EnsureFast, EnsureLogin, Rank, Left
<1>4. ASSUME NEW c \in Calls, LoginReceive(c) \/ LoginFail(c) PROVE RankFalls
  BY <1>1, <1>4 DEF LoginReceive, LoginFail, Rank, Left
<1>5. ASSUME NEW c \in Calls, Record(c) \/ Send(c) \/ TimeOut(c)
      PROVE  RankFalls
  BY <1>1, <1>5 DEF Record, Send, TimeOut, Rank, Left
<1>6. ASSUME NEW c \in Calls, Receive(c) PROVE RankFalls
  <2>1. pc'[c] \in Outcomes \cup {"evict"}
    BY <1>6 DEF Receive
  <2>2. Rank(c)' < Rank(c)
    BY <1>6, <2>1 DEF Receive, Rank, Left
  <2> QED
    BY <1>6, <2>2 DEF Receive
\* The retry: evict with seven steps unspent becomes ensure with none.
<1>7. ASSUME NEW c \in Calls, Evict(c) PROVE RankFalls
  <2>1. attempt[c] = 1 /\ attempt'[c] = 2
    BY <1>7 DEF Evict, EvictOnce
  <2> QED
    BY <1>7, <2>1 DEF Evict, Rank, Left
<1>8. ASSUME NEW m \in wire, Serve(m) PROVE RankFalls
  BY <1>8 DEF Serve
<1>9. ASSUME NEW b \in BaseUrls, TtlLapse(b) \/ Expire(b) PROVE RankFalls
  BY <1>9 DEF TtlLapse, Expire
<1>10. CASE UNCHANGED vars
  BY <1>10 DEF vars
<1> QED
  BY <1>2, <1>3, <1>4, <1>5, <1>6, <1>7, <1>8, <1>9, <1>10
  DEF Next, Progress, Quiescent

\* No step of any call, WebUI or clock ever takes a call back: with the rank in
\* 0..15, a call takes at most fifteen steps from its start to its outcome.
THEOREM CallsAreBounded ==
  Spec => /\ [](\A c \in Calls : Rank(c) \in 0..15)
          /\ [][RankFalls]_vars
<1>1. TInv => \A c \in Calls : Rank(c) \in 0..15
  BY RankInNat DEF TInv
<1> QED
  BY <1>1, TInvInit, TInvStep, RankStep, PTL DEF Spec
=============================================================================
