---------------------------- MODULE QbitSession -----------------------------
(***************************************************************************)
(* The qBittorrent cookie session of RustarrClient: the freshness cache    *)
(* qbit_sessions, the cookie jar of the shared qbit_client, and the calls  *)
(* that run concurrently over both, each of which may log in, send its     *)
(* request, and on a 401/403 evict, log in again and retry once.           *)
(*                                                                         *)
(* Abstractions.  An Instant in qbit_sessions matters only through         *)
(* "elapsed < QBIT_SESSION_TTL", so the map is the set of base URLs whose  *)
(* entry is fresh and TtlLapse ages one out.  A SID is named by the call   *)
(* and the attempt that logged in for it.  The WebUI (which SIDs it        *)
(* honours, when it forgets them) and the jar (one SID per host) are       *)
(* external: reqwest and qBittorrent as the code relies on them.           *)
(***************************************************************************)
EXTENDS Naturals, FiniteSets

CONSTANTS
  Calls,         \* concurrent callers of request_json/request_url/send_*
  BaseUrls,      \* ServiceConfig.base_url of the qBittorrent services
  Hosts,         \* hosts, the scope of a cookie in the jar
  HostOf,        \* HostOf[b]: the host of base URL b
  Target,        \* Target[c]: the service call c addresses
  Credentialed,  \* the base URLs configured with a username and a password
  NoSid,         \* the jar holds no cookie for the host
  MaxExpiries    \* bound on how often the WebUI forgets its sessions

ASSUME ConfigAssumption ==
  /\ HostOf \in [BaseUrls -> Hosts]
  /\ Target \in [Calls -> BaseUrls]
  /\ Credentialed \subseteq BaseUrls
  /\ NoSid \notin Calls \X (1..2)
  /\ MaxExpiries \in Nat

VARIABLES
  fresh,      \* base URLs with a qbit_sessions entry younger than the TTL
  jar,        \* jar[h]: the SID qbit_client's jar sends to host h
  live,       \* the SIDs the WebUIs honour
  expiries,   \* how often a WebUI forgot its sessions so far
  expired,    \* the base URLs whose WebUI ever did
  pc,         \* pc[c]: where call c is
  attempt,    \* attempt[c]: 1 for the request, 2 for its retry
  wire,       \* requests the WebUI has not answered
  reply,      \* reply[c]: the response waiting for c, or "none"
  applied,    \* applied[c]: how often c's request took effect upstream
  disturbed   \* calls another call to the host, or an expiry, overlapped

cacheVars == <<fresh, jar>>
webuiVars == <<live, expiries, expired>>
callVars  == <<pc, attempt, wire, reply, applied, disturbed>>
vars == <<fresh, jar, live, expiries, expired, pc, attempt, wire,
          reply, applied, disturbed>>

Attempts == 1..2
Sids == Calls \X Attempts
\* The WebUI a SID was issued by.
IssuedBy(s) == Target[s[1]]
Outcomes == {"ok", "denied", "failed"}
Running == {"ensure", "login", "granted", "record", "send", "await", "evict"}
Replies == {"none", "ok", "denied", "error"}
Requests == [call : Calls, attempt : Attempts, sid : Sids \cup {NoSid}]

TypeOK ==
  /\ fresh \subseteq BaseUrls
  /\ jar \in [Hosts -> Sids \cup {NoSid}]
  /\ live \subseteq Sids
  /\ expiries \in 0..MaxExpiries
  /\ expired \subseteq BaseUrls
  /\ pc \in [Calls -> {"idle"} \cup Running \cup Outcomes]
  /\ attempt \in [Calls -> Attempts]
  /\ wire \subseteq Requests
  /\ reply \in [Calls -> Replies]
  /\ applied \in [Calls -> Nat]
  /\ disturbed \subseteq Calls

Init ==
  /\ fresh = {}
  /\ jar = [h \in Hosts |-> NoSid]
  /\ live = {}
  /\ expiries = 0
  /\ expired = {}
  /\ pc = [c \in Calls |-> "idle"]
  /\ attempt = [c \in Calls |-> 1]
  /\ wire = {}
  /\ reply = [c \in Calls |-> "none"]
  /\ applied = [c \in Calls |-> 0]
  /\ disturbed = {}

Goto(c, label) == pc' = [pc EXCEPT ![c] = label]
SameHost(c, d) == HostOf[Target[c]] = HostOf[Target[d]]
-----------------------------------------------------------------------------
(***************************************************************************)
(* The call: request_json and its siblings, up to the first send.          *)
(***************************************************************************)

\* A caller enters.  (disturbed only records who overlaps whom.)
Start(c) ==
  LET overlapped == {d \in Calls \ {c} : pc[d] \in Running /\ SameHost(c, d)}
  IN  /\ pc[c] = "idle"
      /\ Goto(c, "ensure")
      /\ disturbed' = disturbed \cup overlapped
                        \cup (IF overlapped = {} THEN {} ELSE {c})
      /\ UNCHANGED <<cacheVars, webuiVars, attempt, wire, reply,
                     applied>>

\* ensure_qbittorrent_session returns without a login: the service has no
\* credentials, or the entry is fresh under the lock.
EnsureFast(c) ==
  /\ pc[c] = "ensure"
  /\ Target[c] \in Credentialed => Target[c] \in fresh
  /\ Goto(c, "send")
  /\ UNCHANGED <<cacheVars, webuiVars, attempt, wire, reply,
                 applied, disturbed>>

\* Mutant: the session is recorded as fresh when the login is sent.
BugEnsureLoginRecords(c) ==
  /\ pc[c] = "ensure"
  /\ Target[c] \in Credentialed \ fresh
  /\ fresh' = fresh \cup {Target[c]}
  /\ Goto(c, "login")
  /\ UNCHANGED <<jar, webuiVars, attempt, wire, reply,
                 applied, disturbed>>
\* Stale or absent: the lock is released and the login POST is sent.
EnsureLogin(c) ==
  /\ pc[c] = "ensure"
  /\ Target[c] \in Credentialed \ fresh
  /\ Goto(c, "login")
  /\ UNCHANGED <<cacheVars, webuiVars, attempt, wire, reply,
                 applied, disturbed>>

\* The WebUI accepts the login and issues a SID; its response is on the way.
LoginAccept(c) ==
  /\ pc[c] = "login"
  /\ live' = live \cup {<<c, attempt[c]>>}
  /\ Goto(c, "granted")
  /\ UNCHANGED <<cacheVars, expiries, expired, attempt, wire, reply,
                 applied, disturbed>>

\* The response arrives: its Set-Cookie replaces the host's SID in the jar as
\* the headers are read, then the body is read and accepted ("Ok." or 204).
LoginReceive(c) ==
  /\ pc[c] = "granted"
  /\ jar' = [jar EXCEPT ![HostOf[Target[c]]] = <<c, attempt[c]>>]
  /\ Goto(c, "record")
  /\ UNCHANGED <<fresh, webuiVars, attempt, wire, reply, applied, disturbed>>

\* The login fails: rejected or refused (no session), the response is lost or
\* times out, or its body read fails after the jar took the cookie.  The error
\* ends the call; nothing is recorded as fresh.
LoginFail(c) ==
  /\ \/ pc[c] = "login" /\ UNCHANGED jar
     \/ /\ pc[c] = "granted"
        /\ jar' \in {jar, [jar EXCEPT ![HostOf[Target[c]]] = <<c, attempt[c]>>]}
  /\ Goto(c, "failed")
  /\ UNCHANGED <<fresh, webuiVars, attempt, wire, reply, applied, disturbed>>

\* The lock is taken again and the session recorded as fresh from now on,
\* whatever happened to it since the WebUI issued it.
Record(c) ==
  /\ pc[c] = "record"
  /\ fresh' = fresh \cup {Target[c]}
  /\ Goto(c, "send")
  /\ UNCHANGED <<jar, webuiVars, attempt, wire, reply, applied, disturbed>>
-----------------------------------------------------------------------------
(***************************************************************************)
(* finish_with_retry: send, and on a 401/403 evict, log in and send again. *)
(***************************************************************************)

\* RequestBuilder::send: the jar's SID is attached now, not when the session
\* was ensured.
Send(c) ==
  LET sid == jar[HostOf[Target[c]]] IN
  /\ pc[c] = "send"
  /\ wire' = wire \cup {[call |-> c, attempt |-> attempt[c], sid |-> sid]}
  /\ Goto(c, "await")
  /\ UNCHANGED <<cacheVars, webuiVars, attempt, reply, applied, disturbed>>

\* The WebUI honours the SIDs it issued and has not forgotten; one without
\* credentials in our configuration admits or denies as it is set up.
Admits(b, sid) == b \in Credentialed => sid \in live /\ IssuedBy(sid) = b
Denies(b, sid) == b \in Credentialed => ~Admits(b, sid)

\* The WebUI answers a request, possibly after its caller gave up on it.  A
\* denied request has no effect; a failing one may have had it.
Serve(m) ==
  LET b == Target[m.call]
      waiting == pc[m.call] = "await" /\ attempt[m.call] = m.attempt
      Answer(r, effect) ==
        /\ reply' = IF waiting THEN [reply EXCEPT ![m.call] = r] ELSE reply
        /\ applied' = [applied EXCEPT ![m.call] = @ + effect]
  IN  /\ m \in wire
      /\ wire' = wire \ {m}
      /\ \/ /\ Admits(b, m.sid)
            /\ \/ Answer("ok", 1)
               \/ Answer("error", 1)
               \/ Answer("error", 0)
         \/ Denies(b, m.sid) /\ Answer("denied", 0)
      /\ UNCHANGED <<cacheVars, webuiVars, pc, attempt, disturbed>>

\* Mutant: every error is retried, not only a 401/403.
BugReceiveRetriesErrors(c) ==
  /\ pc[c] = "await" /\ reply[c] # "none"
  /\ Goto(c, IF reply[c] = "ok" THEN "ok"
             ELSE IF attempt[c] = 1 THEN "evict" ELSE "failed")
  /\ reply' = [reply EXCEPT ![c] = "none"]
  /\ UNCHANGED <<cacheVars, webuiVars, attempt, wire, applied, disturbed>>
\* Mutant: a denied retry is retried again.
BugReceiveRetriesForever(c) ==
  /\ pc[c] = "await" /\ reply[c] # "none"
  /\ Goto(c, CASE reply[c] = "ok" -> "ok"
               [] reply[c] = "error" -> "failed"
               [] OTHER -> "evict")
  /\ reply' = [reply EXCEPT ![c] = "none"]
  /\ UNCHANGED <<cacheVars, webuiVars, attempt, wire, applied, disturbed>>
\* Mutant: finish forgets to check the status.
BugReceiveIgnoresStatus(c) ==
  /\ pc[c] = "await" /\ reply[c] # "none"
  /\ Goto(c, IF reply[c] # "denied" THEN "ok"
             ELSE IF attempt[c] = 1 THEN "evict" ELSE "denied")
  /\ reply' = [reply EXCEPT ![c] = "none"]
  /\ UNCHANGED <<cacheVars, webuiVars, attempt, wire, applied, disturbed>>
\* The response arrives and finish classifies it: is_auth_failure sends the
\* first attempt to the retry, every other result ends the call.
Receive(c) ==
  /\ pc[c] = "await" /\ reply[c] # "none"
  /\ Goto(c, CASE reply[c] = "ok" -> "ok"
               [] reply[c] = "error" -> "failed"
               [] OTHER -> IF attempt[c] = 1 THEN "evict" ELSE "denied")
  /\ reply' = [reply EXCEPT ![c] = "none"]
  /\ UNCHANGED <<cacheVars, webuiVars, attempt, wire, applied, disturbed>>

\* Mutant: the client is built without a timeout.
BugTimeoutNever(c) == FALSE /\ UNCHANGED vars
\* The client timeout (or a transport error) ends the call, whether the request
\* is still unanswered or its response is lost.  It is never retried.
TimeOut(c) ==
  /\ pc[c] = "await"
  /\ Goto(c, "failed")
  /\ reply' = [reply EXCEPT ![c] = "none"]
  /\ UNCHANGED <<cacheVars, webuiVars, attempt, wire, applied, disturbed>>

\* Mutant: the retry goes out without evicting the rejected session.
BugEvictKeeps(c) ==
  /\ pc[c] = "evict"
  /\ attempt' = [attempt EXCEPT ![c] = @ + 1]
  /\ Goto(c, "ensure")
  /\ UNCHANGED <<cacheVars, webuiVars, wire, reply, applied, disturbed>>
\* invalidate_qbittorrent_session removes the entry, whoever recorded it, and
\* ensure_qbittorrent_session runs again for the retry.
Evict(c) ==
  /\ pc[c] = "evict"
  /\ fresh' = fresh \ {Target[c]}
  /\ attempt' = [attempt EXCEPT ![c] = @ + 1]
  /\ Goto(c, "ensure")
  /\ UNCHANGED <<jar, webuiVars, wire, reply, applied, disturbed>>
-----------------------------------------------------------------------------
(***************************************************************************)
(* Around the calls.                                                       *)
(***************************************************************************)

\* An entry reaches QBIT_SESSION_TTL: elapsed < TTL no longer holds.
TtlLapse(b) ==
  /\ b \in fresh
  /\ fresh' = fresh \ {b}
  /\ UNCHANGED <<jar, webuiVars, callVars>>

\* The WebUI restarts, times its sessions out or bans the client: every SID it
\* issued is dead.  Bounded by MaxExpiries.
Expire(b) ==
  /\ expiries < MaxExpiries
  /\ \E s \in live : IssuedBy(s) = b
  /\ live' = {s \in live : IssuedBy(s) # b}
  /\ expiries' = expiries + 1
  /\ expired' = expired \cup {b}
  /\ disturbed' = disturbed \cup {c \in Calls : pc[c] \in Running /\ Target[c] = b}
  /\ UNCHANGED <<cacheVars, pc, attempt, wire, reply, applied>>

\* The steps the client itself takes for call c.  LoginFail and TimeOut stand
\* for the request timeout, so one of them is always possible.
Progress(c) ==
  \/ EnsureFast(c) \/ EnsureLogin(c)
  \/ LoginReceive(c) \/ LoginFail(c) \/ Record(c)
  \/ Send(c) \/ Receive(c) \/ TimeOut(c) \/ Evict(c)

\* Every call has ended and nothing is on the wire: the callers are content.
Quiescent ==
  /\ \A c \in Calls : pc[c] \in Outcomes
  /\ wire = {}
  /\ UNCHANGED vars

Next ==
  \/ \E c \in Calls : Start(c) \/ LoginAccept(c) \/ Progress(c)
  \/ \E m \in wire : Serve(m)
  \/ \E b \in BaseUrls : TtlLapse(b) \/ Expire(b)
  \/ Quiescent

Spec == Init /\ [][Next]_vars

\* tokio polls a ready task, and http_timeout bounds every await on the network.
Fairness == \A c \in Calls : WF_vars(Progress(c))
FairSpec == Spec /\ Fairness
-----------------------------------------------------------------------------
(***************************************************************************)
(* Properties.                                                             *)
(***************************************************************************)

\* A request takes effect upstream at most once, although finish_with_retry may
\* send it twice and a timed-out request may be served after its call failed:
\* only a 401/403, which has no effect, leads to the second send.
EffectAtMostOnce == \A c \in Calls : applied[c] <= 1

\* The cache by itself never makes a call fail with 401/403: a credentialed
\* WebUI that has not forgotten its sessions denies nobody, however logins,
\* records, evictions and sends of concurrent calls interleave.
DenialNeedsExpiry ==
  \A c \in Calls :
     reply[c] = "denied" /\ Target[c] \in Credentialed => Target[c] \in expired

\* The cache heals itself: a call that no other call to the host and no expiry
\* overlapped never ends in 401/403, in whatever state the calls and expiries
\* before it left the cache, the jar and the WebUI.
SoloRecovers ==
  \A c \in Calls :
     pc[c] = "denied" /\ Target[c] \in Credentialed => c \in disturbed

\* auth.rs says of the map's key: "Keyed by `base_url` (the upstream origin) ...
\* because the SID cookie lives in the shared `qbit_client` cookie jar scoped to
\* that host - so freshness must track the host": a fresh entry means that the
\* cookie sent to that service is one it issued.
FreshnessTracksHost ==
  \A b \in fresh : \E s \in Sids : jar[HostOf[b]] = s /\ IssuedBy(s) = b

\* Every qBittorrent service has a host of its own.
HostsDistinct == \A a, b \in BaseUrls : HostOf[a] = HostOf[b] => a = b

\* Every call ends: the timeouts and the single retry bound it whatever the
\* WebUI does.
CallsFinish == \A c \in Calls : pc[c] # "idle" ~> pc[c] \in Outcomes

\* The client implements the abstract upstream call.
Phase(label) == IF label \in Running THEN "running" ELSE label
Abstract == INSTANCE UpstreamCall
              WITH phase <- [c \in Calls |-> Phase(pc[c])]
ImplementsUpstreamCall == Abstract!Spec
=============================================================================
