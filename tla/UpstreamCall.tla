---------------------------- MODULE UpstreamCall ----------------------------
(***************************************************************************)
(* What RustarrClient promises the layers above it about one upstream      *)
(* request, whatever the session cache, the cookie jar and the retry do:   *)
(* the request takes effect upstream at most once, a success is reported   *)
(* only for a request that took effect, and an authentication rejection is *)
(* reported only for one that did not.  A failure says nothing: the effect *)
(* may precede it, and may even follow it, because a request the client    *)
(* has given up on can still be on the wire.                               *)
(***************************************************************************)
EXTENDS Naturals

CONSTANT Calls          \* the upstream requests the callers make

VARIABLES
  phase,                \* phase[c]: "idle", "running", "ok", "denied", "failed"
  applied               \* applied[c]: times the request took effect upstream

vars == <<phase, applied>>

Phases == {"idle", "running", "ok", "denied", "failed"}

Init ==
  /\ phase = [c \in Calls |-> "idle"]
  /\ applied = [c \in Calls |-> 0]

Begin(c) ==
  /\ phase[c] = "idle"
  /\ phase' = [phase EXCEPT ![c] = "running"]
  /\ UNCHANGED applied

\* The single point where the upstream acts on the request.
Apply(c) ==
  /\ phase[c] \in {"running", "failed"}
  /\ applied[c] = 0
  /\ applied' = [applied EXCEPT ![c] = 1]
  /\ UNCHANGED phase

End(c, outcome) ==
  /\ phase[c] = "running"
  /\ outcome = "ok" => applied[c] = 1
  /\ outcome = "denied" => applied[c] = 0
  /\ phase' = [phase EXCEPT ![c] = outcome]
  /\ UNCHANGED applied

Next ==
  \E c \in Calls :
     \/ Begin(c)
     \/ Apply(c)
     \/ \E outcome \in {"ok", "denied", "failed"} : End(c, outcome)

Spec == Init /\ [][Next]_vars
=============================================================================
