---------------------------- MODULE ResponseShape ----------------------------
(***************************************************************************)
(* What becomes of a Code Mode response on its way to the agent: the       *)
(* envelope is built from the run's result, calls, logs and artifacts,     *)
(* fit_response shapes it to RESPONSE_BUDGET, and serialize_with_limit     *)
(* cuts it at MAX_RESPONSE_BYTES.                                          *)
(*                                                                         *)
(* Abstractions.  Everything is its size in bytes: an array is the         *)
(* function k |-> bytes of its newest k entries, each with its comma.      *)
(* Which prefix a marker previews is left out.                             *)
(***************************************************************************)
EXTENDS ArtifactWrites

CONSTANTS
  Budget,      \* RESPONSE_BUDGET
  Cap,         \* MAX_RESPONSE_BYTES
  Wrapper,     \* bytes of the transport's own marker around the partial payload
  MaxEntries,  \* bound on the entries of an array
  Sentinel,    \* Sentinel[f][d]: bytes of the sentinel that says d entries were dropped
  Payloads     \* what runs produce

Fields == {"calls", "logs"}

\* A function from 0..n that gives the bytes of the newest k entries of an array.
IsTail(t, n) ==
  /\ t \in [0..n -> Nat] /\ t[0] = 0
  /\ \A i \in 0..n : \A j \in 0..n : i < j => t[j] - t[i] >= 2 * (j - i)

IsPayload(p) ==
  /\ {p.result, p.marker, p.rest} \subseteq Nat
  /\ p.count \in [Fields -> 0..MaxEntries]
  /\ DOMAIN p.tail = Fields
  /\ \A f \in Fields : IsTail(p.tail[f], p.count[f])

ASSUME ShapeAssumption ==
  /\ Budget \in Nat /\ Cap \in Nat /\ Budget < Cap
  /\ Wrapper \in 0..Cap
  /\ MaxEntries \in Nat
  /\ Sentinel \in [Fields -> [1..MaxEntries -> Nat]]
  /\ \A f \in Fields : \A d, e \in 1..MaxEntries :
        d < e => Sentinel[f][d] <= Sentinel[f][e]
                 /\ Sentinel[f][e] - Sentinel[f][d] <= e - d
  /\ \A p \in Payloads : IsPayload(p)

VARIABLES
  pc,        \* where fit_response and serialize_with_limit are
  payload,   \* what the run produced
  whole,     \* whether the result is still the script's
  kept,      \* kept[f]: the newest entries the array f holds
  aside,     \* the arrays taken out of the envelope
  field,     \* the array fit_newest works on
  lo, hi,    \* its search
  boundary,  \* the bytes serialize_with_limit would keep
  text       \* the bytes the agent receives

searchVars == <<field, lo, hi>>
transportVars == <<boundary, text>>
vars == <<artifactVars, pc, payload, whole, kept, aside, searchVars, transportVars>>

Init ==
  /\ ArtifactInit
  /\ pc = "collect"
  /\ payload \in Payloads
  /\ whole = TRUE
  /\ kept = payload.count
  /\ aside = {}
  /\ field = "logs" /\ lo = 0 /\ hi = 0
  /\ boundary = 0 /\ text = 0

(* Sizes *)

\* The array f with its newest k entries, the sentinel first when some are dropped.
Body(f, k) ==
  LET n == payload.count[f]
  IN CASE k < n           -> Sentinel[f][n - k] + payload.tail[f][k]
       [] k = n /\ n > 0  -> payload.tail[f][n] - 1
       [] OTHER           -> 0

Held(f) == IF f \in aside THEN 0 ELSE Body(f, kept[f])

Envelope(result, calls, logs) == payload.rest + bytes + result + calls + logs

Result == IF whole THEN payload.result ELSE payload.marker

Size == Envelope(Result, Held("calls"), Held("logs"))

\* The size with k entries in the array f, everything else as it is.
SizeWith(f, k) ==
  IF f = "calls" THEN Envelope(Result, Body(f, k), Held("logs"))
                 ELSE Envelope(Result, Held("calls"), Body(f, k))

WithinBudget == Size <= Budget

(* fit_response *)

\* The script goes on writing artifacts.
Collect ==
  /\ pc = "collect"
  /\ Attempt
  /\ UNCHANGED <<pc, payload, whole, kept, aside, searchVars, transportVars>>

\* The script ends and the envelope is built.
Build ==
  /\ pc = "collect"
  /\ pc' = "built"
  /\ UNCHANGED <<artifactVars, payload, whole, kept, aside, searchVars, transportVars>>

\* Mutant: the logs stay in while the rest is measured and trimmed.
BugMeasure ==
  /\ pc = "built"
  /\ pc' = IF WithinBudget THEN "shaped" ELSE "bare"
  /\ UNCHANGED <<artifactVars, payload, whole, kept, aside, searchVars, transportVars>>
\* The envelope is left untouched, or its logs are taken out.
Measure ==
  /\ pc = "built"
  /\ \/ WithinBudget /\ pc' = "shaped" /\ UNCHANGED aside
     \/ ~WithinBudget /\ pc' = "bare" /\ aside' = {"logs"}
  /\ UNCHANGED <<artifactVars, payload, whole, kept, searchVars, transportVars>>

\* marker_oversized_result, when the rest does not fit without the logs.
MarkResult ==
  /\ pc = "bare"
  /\ pc' = "marked"
  /\ whole' = (WithinBudget \/ payload.marker >= payload.result)
  /\ UNCHANGED <<artifactVars, payload, kept, aside, searchVars, transportVars>>

\* The calls are taken out to be fitted if the rest still does not fit; otherwise
\* the logs are fitted.
TakeCalls ==
  /\ pc = "marked"
  /\ pc' = "fit"
  /\ \/ WithinBudget /\ field' = "logs" /\ UNCHANGED aside
     \/ ~WithinBudget /\ field' = "calls" /\ aside' = Fields
  /\ UNCHANGED <<artifactVars, payload, whole, kept, lo, hi, transportVars>>

\* After the calls the logs, after the logs the transport.
AfterFit ==
  IF field = "calls" THEN pc' = "fit" /\ field' = "logs"
                     ELSE pc' = "shaped" /\ UNCHANGED field

\* fit_newest when there is nothing to put back, or when everything fits.
FitAll ==
  /\ pc = "fit"
  /\ payload.count[field] = 0 \/ SizeWith(field, payload.count[field]) <= Budget
  /\ aside' = aside \ {field}
  /\ AfterFit
  /\ UNCHANGED <<artifactVars, payload, whole, kept, lo, hi, transportVars>>

\* Not everything fits: the search for the largest suffix begins.
StartSearch ==
  /\ pc = "fit"
  /\ payload.count[field] > 0 /\ SizeWith(field, payload.count[field]) > Budget
  /\ pc' = "search"
  /\ aside' = aside \ {field}
  /\ lo' = 0 /\ hi' = payload.count[field]
  /\ UNCHANGED <<artifactVars, payload, whole, kept, field, transportVars>>

\* Mutant: the middle is rounded down.
BugMid == (lo + hi) \div 2
\* (lo + hi).div_ceil(2)
Mid == (lo + hi + 1) \div 2

Probe ==
  /\ pc = "search" /\ lo < hi
  /\ kept' = [kept EXCEPT ![field] = Mid]
  /\ \/ SizeWith(field, Mid) <= Budget /\ lo' = Mid /\ UNCHANGED hi
     \/ SizeWith(field, Mid) > Budget /\ hi' = Mid - 1 /\ UNCHANGED lo
  /\ UNCHANGED <<artifactVars, pc, payload, whole, aside, field, transportVars>>

\* Mutant: the search stops with two candidates left.
BugEarlySettle ==
  /\ pc = "search" /\ lo + 1 >= hi
  /\ kept' = [kept EXCEPT ![field] = lo]
  /\ AfterFit
  /\ UNCHANGED <<artifactVars, payload, whole, aside, lo, hi, transportVars>>
\* Mutant: the array keeps what the last probe put there.
BugSettle ==
  /\ pc = "search" /\ lo >= hi
  /\ AfterFit
  /\ UNCHANGED <<artifactVars, payload, whole, kept, aside, lo, hi, transportVars>>
Settle ==
  /\ pc = "search" /\ lo >= hi
  /\ kept' = [kept EXCEPT ![field] = lo]
  /\ AfterFit
  /\ UNCHANGED <<artifactVars, payload, whole, aside, lo, hi, transportVars>>

(* serialize_with_limit *)

SendWhole ==
  /\ pc = "shaped" /\ Size <= Cap
  /\ pc' = "sent"
  /\ text' = Size
  /\ UNCHANGED <<artifactVars, payload, whole, kept, aside, searchVars, boundary>>

Cut ==
  /\ pc = "shaped" /\ Size > Cap
  /\ pc' = "slice"
  /\ boundary' = Cap
  /\ UNCHANGED <<artifactVars, payload, whole, kept, aside, searchVars, text>>

\* The boundary after a step back to the start of a character.
Snapped == {b \in 0..boundary : boundary - b <= 3}

\* An eighth less, and at least a byte.
Shorter(b) == b - (IF b \div 8 > 1 THEN b \div 8 ELSE 1)

\* Mutant: the first slice is sent, as if escaping took no bytes.
BugSlice ==
  /\ pc = "slice"
  /\ \E b \in Snapped : \E escaped \in b..(2 * b) :
       pc' = "sent" /\ text' = Wrapper + escaped /\ boundary' = b
  /\ UNCHANGED <<artifactVars, payload, whole, kept, aside, searchVars>>
\* The head of the text becomes a string, in which a byte may take two; if that is
\* over the cap the next head is shorter.
Slice ==
  /\ pc = "slice"
  /\ \E b \in Snapped : \E escaped \in b..(2 * b) :
       \/ /\ Wrapper + escaped <= Cap \/ b = 0
          /\ pc' = "sent" /\ text' = Wrapper + escaped /\ boundary' = b
       \/ /\ Wrapper + escaped > Cap /\ b > 0
          /\ boundary' = Shorter(b) /\ UNCHANGED <<pc, text>>
  /\ UNCHANGED <<artifactVars, payload, whole, kept, aside, searchVars>>

Shape == Measure \/ MarkResult \/ TakeCalls \/ FitAll \/ StartSearch \/ Probe \/ Settle
Transport == SendWhole \/ Cut \/ Slice

Next == Collect \/ Build \/ Shape \/ Transport

Spec == Init /\ [][Next]_vars /\ WF_vars(Shape \/ Transport)
-----------------------------------------------------------------------------
TypeOK ==
  /\ pc \in {"collect", "built", "bare", "marked", "fit", "search", "shaped", "slice", "sent"}
  /\ payload \in Payloads
  /\ whole \in BOOLEAN
  /\ kept \in [Fields -> Nat] /\ \A f \in Fields : kept[f] <= payload.count[f]
  /\ aside \subseteq Fields
  /\ field \in Fields
  /\ lo \in Nat /\ hi \in Nat
  /\ bytes \in Nat
  /\ boundary \in 0..Cap /\ text \in 0..Cap

Shaped == pc \in {"shaped", "slice", "sent"}

\* The answer is replaced only when giving up every log line was not enough, and
\* only by something smaller (fit_response, marker_oversized_result).
AnswerOutlivesLogs ==
  Shaped /\ ~whole =>
    /\ payload.marker < payload.result
    /\ Envelope(payload.result, Body("calls", payload.count["calls"]), 0) > Budget

\* An array that lost entries holds the longest run of newest ones that fits beside
\* what was settled before it: one more would not have fitted, and neither would
\* any larger number (fit_newest's search finds what a scan would).
KeepsNewestThatFit ==
  Shaped =>
    /\ \A k \in (kept["calls"] + 1)..payload.count["calls"] :
          Envelope(Result, Body("calls", k), 0) > Budget
    /\ \A k \in (kept["logs"] + 1)..payload.count["logs"] : SizeWith("logs", k) > Budget

\* Where the envelope is still over the budget everything that may be given up is
\* gone: every log line, and, unless the sentinel that says so is all the excess,
\* every call and as much of the result as the marker saves (fit_response).
OverMeansSpent ==
  Shaped /\ Size > Budget =>
    /\ kept["logs"] = 0
    /\ \/ Size - Body("logs", 0) <= Budget
       \/ kept["calls"] = 0 /\ (whole => payload.result <= payload.marker)

\* What no shaping removes: the artifacts, the result or its marker, one sentinel.
Floor ==
  Envelope(IF payload.marker < payload.result THEN payload.marker ELSE payload.result,
           Body("calls", 0), 0)

\* The transport cuts the envelope only if what no shaping removes is itself over
\* the budget, as long as the gap between the two caps takes the last sentinel
\* (RESPONSE_BUDGET, serialize_with_limit).
SlicedOnlyForAudit ==
  Shaped /\ Floor <= Budget /\ Body("logs", 0) <= Cap - Budget => Size <= Cap

\* What the agent receives is within the cap, and is the envelope if that is
\* (serialize_with_limit).
CapHolds == pc = "sent" => text <= Cap /\ (Size <= Cap => text = Size)

\* A built envelope is sent: the search and the slicing end.
Finishes == pc = "built" ~> pc = "sent"

\* truncate.rs:29 says that the shaped envelope never trips the transport's cap.
NeverTripsTransport == Shaped => Size <= Cap
=============================================================================
