------------------------ MODULE ResponseShapeProofs ------------------------
(***************************************************************************)
(* Theorems about ResponseShape for any budgets, arrays, sentinels and     *)
(* artifacts: the search finds what a scan would find, and the envelope is *)
(* over the budget only when everything that may be given up is gone.      *)
(***************************************************************************)
EXTENDS ResponseShape, ArtifactWritesProofs

Phases == {"collect", "built", "bare", "marked", "fit", "search", "shaped", "slice", "sent"}
Total(f) == payload.count[f]
AllKept == \A f \in Fields : kept[f] = Total(f)

\* What the calls (k of them) and the result leave, without the logs.
Rest(k) == Envelope(Result, Body("calls", k), 0)

ResultSettled == ~whole =>
  payload.marker < payload.result
  /\ Envelope(payload.result, Body("calls", Total("calls")), 0) > Budget

\* The calls that are kept are the most that fit, and if they do not fit none is
\* kept and the result is as small as it gets.
CallsSettled ==
  /\ \A k \in (kept["calls"] + 1)..Total("calls") : Rest(k) > Budget
  /\ \/ Rest(kept["calls"]) <= Budget
     \/ kept["calls"] = 0 /\ (whole => payload.result <= payload.marker)

\* The size that fit_newest measures with k entries in the array f.
Fit(f, k) == IF f = "calls" THEN Rest(k) ELSE Rest(kept["calls"]) + Body("logs", k)

LogsSettled ==
  /\ \A k \in (kept["logs"] + 1)..Total("logs") : Fit("logs", k) > Budget
  /\ Fit("logs", kept["logs"]) <= Budget \/ kept["logs"] = 0

\* No larger number than hi fits, and lo fits if it was tried.
Searching ==
  /\ lo <= hi /\ hi <= Total(field) /\ Total(field) > 0
  /\ Fit(field, Total(field)) > Budget
  /\ \A k \in (hi + 1)..Total(field) : Fit(field, k) > Budget
  /\ lo = 0 \/ Fit(field, lo) <= Budget

\* What is settled while fit_newest works on an array.
Fitting ==
  \/ /\ field = "calls"
     /\ whole => payload.result <= payload.marker
     /\ Rest(Total("calls")) > Budget
     /\ kept["logs"] = Total("logs")
  \/ field = "logs" /\ CallsSettled

Phase ==
  /\ pc \in {"collect", "built"} => whole /\ AllKept /\ aside = {}
  /\ pc = "bare" => whole /\ AllKept /\ aside = {"logs"}
  /\ pc = "marked" =>
       /\ AllKept /\ aside = {"logs"}
       /\ whole => Rest(Total("calls")) <= Budget \/ payload.result <= payload.marker
  /\ pc = "fit" =>
       /\ Fitting /\ kept[field] = Total(field)
       /\ aside = IF field = "calls" THEN Fields ELSE {"logs"}
  /\ pc = "search" =>
       /\ Fitting /\ Searching
       /\ aside = IF field = "calls" THEN {"logs"} ELSE {}
  /\ Shaped => aside = {} /\ CallsSettled /\ LogsSettled
  /\ ResultSettled

Delivered ==
  /\ pc = "slice" => Size > Cap
  /\ pc = "sent" => Size > Cap \/ text = Size

IInv == TypeOK /\ Phase /\ Delivered

-----------------------------------------------------------------------------
LEMMA PayloadTyped ==
  ASSUME TypeOK
  PROVE  /\ payload.result \in Nat /\ payload.marker \in Nat /\ payload.rest \in Nat
         /\ \A f \in Fields : Total(f) \in 0..MaxEntries /\ kept[f] \in 0..Total(f)
         /\ \A f \in Fields : IsTail(payload.tail[f], Total(f))
<1>1. IsPayload(payload)
  BY ShapeAssumption DEF TypeOK
<1>2. QED
  BY <1>1, ShapeAssumption DEF IsPayload, TypeOK, Total, IsTail

\* The bytes of an array, and why more entries are more bytes until all are kept.
LEMMA BodyTyped ==
  ASSUME TypeOK, NEW f \in Fields, NEW k \in 0..Total(f)
  PROVE  Body(f, k) \in Nat
<1>1. /\ Total(f) \in 0..MaxEntries /\ MaxEntries \in Nat
      /\ IsTail(payload.tail[f], Total(f))
  BY PayloadTyped, ShapeAssumption
<1>2. payload.tail[f] \in [0..Total(f) -> Nat] /\ payload.tail[f][0] = 0
      /\ \A i \in 0..Total(f) : \A j \in 0..Total(f) :
            i < j => payload.tail[f][j] - payload.tail[f][i] >= 2 * (j - i)
  BY <1>1 DEF IsTail
<1>3. CASE k < Total(f)
  <2>1. Total(f) - k \in 1..MaxEntries
    BY <1>1, <1>3
  <2>2. Sentinel[f][Total(f) - k] \in Nat /\ payload.tail[f][k] \in Nat
    BY <2>1, <1>2, ShapeAssumption
  <2>3. Body(f, k) = Sentinel[f][Total(f) - k] + payload.tail[f][k]
    BY <1>1, <1>3 DEF Body, Total
  <2>4. QED
    BY <2>2, <2>3
<1>4. CASE k = Total(f) /\ Total(f) > 0
  <2>1. payload.tail[f][k] \in Nat /\ payload.tail[f][0] = 0
        /\ payload.tail[f][k] - payload.tail[f][0] >= 2 * (k - 0)
    BY <1>1, <1>2, <1>4
  <2>2. Body(f, k) = payload.tail[f][k] - 1
    BY <1>1, <1>4 DEF Body, Total
  <2>3. QED
    BY <2>1, <2>2, <1>1, <1>4
<1>5. CASE Total(f) = 0
  <2>1. Body(f, k) = 0
    BY <1>1, <1>5 DEF Body, Total
  <2>2. QED
    BY <2>1
<1>6. QED
  BY <1>1, <1>3, <1>4, <1>5

LEMMA BodyGrows ==
  ASSUME TypeOK, NEW f \in Fields, NEW i \in Nat, NEW j \in Nat, i <= j, j < Total(f)
  PROVE  Body(f, i) <= Body(f, j)
<1>1. /\ Total(f) \in 0..MaxEntries /\ MaxEntries \in Nat
      /\ payload.tail[f] \in [0..Total(f) -> Nat]
      /\ \A m \in 0..Total(f) : \A n \in 0..Total(f) :
            m < n => payload.tail[f][n] - payload.tail[f][m] >= 2 * (n - m)
  BY PayloadTyped, ShapeAssumption DEF IsTail
<1>2. /\ Body(f, i) = Sentinel[f][Total(f) - i] + payload.tail[f][i]
      /\ Body(f, j) = Sentinel[f][Total(f) - j] + payload.tail[f][j]
  BY <1>1 DEF Body, Total
<1>3. CASE i = j
  <2>1. i \in 0..Total(f)
    BY <1>1
  <2>2. Body(f, i) \in Nat
    BY <2>1, BodyTyped
  <2>3. QED
    BY <1>3, <2>2
<1>4. CASE i < j
  <2>1. /\ i \in 0..Total(f) /\ j \in 0..Total(f)
        /\ Total(f) - j \in 1..MaxEntries /\ Total(f) - i \in 1..MaxEntries
        /\ Total(f) - j < Total(f) - i
        /\ (Total(f) - i) - (Total(f) - j) = j - i
    BY <1>1, <1>4
  <2>2. payload.tail[f][j] - payload.tail[f][i] >= 2 * (j - i)
    BY <1>1, <1>4, <2>1
  <2>3. Sentinel[f][Total(f) - i] - Sentinel[f][Total(f) - j] <= j - i
    BY <2>1, ShapeAssumption
  <2>4. /\ Sentinel[f][Total(f) - i] \in Nat /\ Sentinel[f][Total(f) - j] \in Nat
        /\ payload.tail[f][i] \in Nat /\ payload.tail[f][j] \in Nat
    BY <1>1, <2>1, ShapeAssumption
  <2>5. /\ j - i \in Nat
        /\ payload.tail[f][j] - payload.tail[f][i] >= j - i
    BY <1>4, <2>2, <2>4
  <2>6. \A s, t, v, w, d \in Nat : t - s >= d /\ v - w <= d => v + s <= w + t
    OBVIOUS
  <2>7. Sentinel[f][Total(f) - i] + payload.tail[f][i]
          <= Sentinel[f][Total(f) - j] + payload.tail[f][j]
    BY <2>3, <2>4, <2>5, <2>6, Zenon
  <2>8. QED
    BY <1>2, <2>7
<1>5. QED
  BY <1>3, <1>4

\* Everything that is added up is a natural number.
LEMMA SizesTyped ==
  ASSUME TypeOK
  PROVE  /\ Result \in Nat
         /\ \A f \in Fields : \A k \in 0..Total(f) : Body(f, k) \in Nat
         /\ \A k \in 0..Total("calls") : Rest(k) \in Nat
         /\ \A f \in Fields : \A k \in 0..Total(f) : Fit(f, k) \in Nat
<1>1. /\ payload.result \in Nat /\ payload.marker \in Nat /\ payload.rest \in Nat
      /\ \A f \in Fields : kept[f] \in 0..Total(f)
      /\ bytes \in Nat
  BY PayloadTyped DEF TypeOK
<1>2. Result \in Nat
  BY <1>1 DEF Result, TypeOK
<1>3. \A f \in Fields : \A k \in 0..Total(f) : Body(f, k) \in Nat
  BY BodyTyped
<1>4. \A k \in 0..Total("calls") : Rest(k) \in Nat
  <2>1. \A k \in 0..Total("calls") : Body("calls", k) \in Nat
    BY <1>3 DEF Fields
  <2>2. QED
    BY <1>1, <1>2, <2>1 DEF Rest, Envelope
<1>5. Rest(kept["calls"]) \in Nat
  BY <1>1, <1>4 DEF Fields
<1>6. \A f \in Fields : \A k \in 0..Total(f) : Fit(f, k) \in Nat
  BY <1>3, <1>4, <1>5 DEF Fit, Fields
<1>7. QED
  BY <1>2, <1>3, <1>4, <1>6

\* Until all are kept more entries measure more.
LEMMA FitGrows ==
  ASSUME TypeOK, NEW f \in Fields, NEW i \in Nat, NEW j \in Nat, i <= j, j < Total(f)
  PROVE  Fit(f, i) <= Fit(f, j)
<1>1. Body(f, i) <= Body(f, j)
  BY BodyGrows
<1>2. /\ payload.rest \in Nat /\ bytes \in Nat /\ Result \in Nat
      /\ Total(f) \in Nat
      /\ kept["calls"] \in 0..Total("calls")
  BY PayloadTyped, SizesTyped, ShapeAssumption DEF TypeOK, Fields
<1>3. i \in 0..Total(f) /\ j \in 0..Total(f)
  BY <1>2
<1>4. Body(f, i) \in Nat /\ Body(f, j) \in Nat /\ Rest(kept["calls"]) \in Nat
  BY <1>2, <1>3, SizesTyped
<1>5. QED
  BY <1>1, <1>2, <1>4 DEF Fit, Rest, Envelope, Fields

\* What is measured, by which arrays are taken out.
LEMMA Measured ==
  ASSUME TypeOK
  PROVE  /\ aside = {"logs"} => Size = Rest(kept["calls"])
         /\ aside = {} => Size = Fit("logs", kept["logs"])
         /\ "logs" \in aside => \A k \in 0..Total("calls") : SizeWith("calls", k) = Fit("calls", k)
         /\ "calls" \notin aside =>
              \A k \in 0..Total("logs") : SizeWith("logs", k) = Fit("logs", k)
<1>1. /\ payload.rest \in Nat /\ bytes \in Nat /\ Result \in Nat
      /\ kept["calls"] \in 0..Total("calls") /\ kept["logs"] \in 0..Total("logs")
      /\ \A k \in 0..Total("calls") : Body("calls", k) \in Nat
      /\ \A k \in 0..Total("logs") : Body("logs", k) \in Nat
  BY PayloadTyped, SizesTyped DEF TypeOK, Fields
<1>2. QED
  BY <1>1 DEF Size, SizeWith, Held, Envelope, Fit, Rest

\* Steps that leave the payload, the artifacts and the result leave the measures.
LEMMA SameSizes ==
  ASSUME payload' = payload, bytes' = bytes, whole' = whole
  PROVE  /\ Result' = Result
         /\ \A f, k : Body(f, k)' = Body(f, k)
         /\ \A k : Rest(k)' = Rest(k)
         /\ \A f : Total(f)' = Total(f)
         /\ ResultSettled' <=> ResultSettled
<1>1. Result' = Result
  BY DEF Result
<1>2. \A f, k : Body(f, k)' = Body(f, k)
  BY DEF Body
<1>3. \A k : Rest(k)' = Rest(k)
  BY <1>1, <1>2 DEF Rest, Envelope
<1>4. \A f : Total(f)' = Total(f)
  BY DEF Total
<1>5. ResultSettled' <=> ResultSettled
  BY <1>2, <1>4 DEF ResultSettled, Envelope
<1>6. QED
  BY <1>1, <1>2, <1>3, <1>4, <1>5
-----------------------------------------------------------------------------
LEMMA InitHolds == Init => IInv
<1> SUFFICES ASSUME Init PROVE IInv
  OBVIOUS
<1>1. IsPayload(payload)
  BY ShapeAssumption DEF Init
<1>2. TypeOK
  BY <1>1, ShapeAssumption DEF Init, ArtifactInit, TypeOK, IsPayload, Fields
<1>3. Phase
  BY DEF Init, Phase, AllKept, Total, Shaped, ResultSettled
<1>4. Delivered
  BY DEF Init, Delivered
<1>5. QED
  BY <1>2, <1>3, <1>4 DEF IInv

LEMMA CollectStep == ASSUME IInv, Collect PROVE IInv'
<1>1. bytes' \in Nat
  <2>1. \E ok \in BOOLEAN : bytes' = bytes + EntryBytes[ok]
    BY DEF Collect, Attempt, Refuse, Write, Tear, Push
  <2>2. QED
    BY <2>1, ArtifactAssumption DEF IInv, TypeOK
<1>2. TypeOK'
  BY <1>1 DEF IInv, TypeOK, Collect, searchVars, transportVars
<1>3. pc' = "collect" /\ whole' /\ AllKept' /\ aside' = {}
  BY DEF IInv, Phase, Collect, AllKept, Total
<1>4. Phase'
  BY <1>3 DEF Phase, Shaped, ResultSettled
<1>5. Delivered'
  BY <1>3 DEF Delivered
<1>6. QED
  BY <1>2, <1>4, <1>5 DEF IInv

LEMMA BuildStep == ASSUME IInv, Build PROVE IInv'
<1>1. TypeOK'
  BY DEF IInv, TypeOK, Build, searchVars, transportVars, artifactVars
<1>2. pc' = "built" /\ whole' /\ AllKept' /\ aside' = {}
  BY DEF IInv, Phase, Build, AllKept, Total
<1>3. Phase' /\ Delivered'
  BY <1>2 DEF Phase, Shaped, ResultSettled, Delivered
<1>4. QED
  BY <1>1, <1>3 DEF IInv

LEMMA MeasureStep == ASSUME IInv, Measure PROVE IInv'
<1> USE DEF IInv
<1>1. TypeOK'
  BY DEF TypeOK, Measure, searchVars, transportVars, artifactVars, Fields
<1>2. whole /\ AllKept /\ aside = {}
  BY DEF Phase, Measure
<1>3. payload' = payload /\ bytes' = bytes /\ whole' = whole /\ kept' = kept
  BY DEF Measure, artifactVars
<1>4. whole' /\ AllKept'
  BY <1>2, <1>3 DEF AllKept, Total
<1>5. CASE pc' = "bare"
  <2>1. aside' = {"logs"}
    BY <1>5 DEF Measure
  <2>2. QED
    BY <1>1, <1>4, <1>5, <2>1 DEF Phase, Shaped, ResultSettled, Delivered
<1>6. CASE pc' = "shaped" /\ WithinBudget
  <2>1. aside' = {}
    BY <1>2, <1>6 DEF Measure
  <2>2. Fit("logs", kept["logs"]) <= Budget
    BY <1>2, <1>6, Measured DEF WithinBudget
  <2>3. kept["calls"] = Total("calls") /\ kept["logs"] = Total("logs")
        /\ Total("calls") \in Nat /\ Total("logs") \in Nat
    BY <1>2, PayloadTyped, ShapeAssumption DEF AllKept, Fields
  <2>4. Rest(kept["calls"]) <= Budget
    <3>1. Body("logs", kept["logs"]) \in Nat /\ Rest(kept["calls"]) \in Nat
      BY <2>3, SizesTyped DEF Fields
    <3>2. Fit("logs", kept["logs"]) = Rest(kept["calls"]) + Body("logs", kept["logs"])
      BY DEF Fit
    <3>3. QED
      BY <2>2, <3>1, <3>2, ShapeAssumption
  <2>5. CallsSettled /\ LogsSettled
    BY <2>2, <2>3, <2>4 DEF CallsSettled, LogsSettled
  <2>6. CallsSettled' /\ LogsSettled'
    BY <2>5, <1>3, SameSizes DEF CallsSettled, LogsSettled, Fit
  <2>7. Phase' /\ Delivered'
    BY <1>4, <1>6, <2>1, <2>6 DEF Phase, Delivered, ResultSettled, Shaped
  <2>8. QED
    BY <1>1, <2>7
<1>7. QED
  BY <1>5, <1>6 DEF Measure

LEMMA MarkResultStep == ASSUME IInv, MarkResult PROVE IInv'
<1> USE DEF IInv
<1>1. TypeOK'
  BY DEF TypeOK, MarkResult, searchVars, transportVars, artifactVars, Fields
<1>2. whole /\ AllKept /\ aside = {"logs"}
  BY DEF Phase, MarkResult
<1>3. /\ payload' = payload /\ bytes' = bytes /\ kept' = kept /\ aside' = aside
      /\ pc' = "marked" /\ whole' = (WithinBudget \/ payload.marker >= payload.result)
  BY DEF MarkResult, artifactVars
<1>4. AllKept' /\ aside' = {"logs"}
  BY <1>2, <1>3 DEF AllKept, Total
<1>5. Size = Rest(Total("calls")) /\ Size \in Nat
  BY <1>2, Measured, PayloadTyped, SizesTyped DEF AllKept, Fields
<1>6. payload.result \in Nat /\ payload.marker \in Nat
  BY PayloadTyped
<1>7. ResultSettled'
  <2>1. SUFFICES ASSUME ~whole'
                 PROVE  /\ payload.marker < payload.result
                        /\ Envelope(payload.result, Body("calls", Total("calls")), 0)' > Budget
    BY <1>3 DEF ResultSettled, Total
  <2>2. ~WithinBudget /\ ~(payload.marker >= payload.result)
    BY <1>3, <2>1, Zenon
  <2>3. payload.marker < payload.result /\ Size > Budget
    BY <1>5, <1>6, <2>2, ShapeAssumption DEF WithinBudget
  <2>4. Rest(Total("calls")) = Envelope(payload.result, Body("calls", Total("calls")), 0)
    BY <1>2 DEF Rest, Result
  <2>5. Envelope(payload.result, Body("calls", Total("calls")), 0)'
          = Envelope(payload.result, Body("calls", Total("calls")), 0)
    BY <1>3 DEF Envelope, Body, Total
  <2>6. QED
    BY <1>5, <2>3, <2>4, <2>5
<1>8. whole' => Rest(Total("calls"))' <= Budget \/ payload.result <= payload.marker
  <2>1. CASE ~whole'
    BY <2>1
  <2>2. CASE whole'
    <3>1. Rest(Total("calls"))' = Rest(Total("calls"))
      <4>1. whole' = whole
        BY <1>2, <2>2, <1>3 DEF TypeOK
      <4>2. QED
        BY <4>1, <1>3 DEF Rest, Envelope, Result, Body, Total
    <3>2. QED
      BY <1>3, <1>5, <1>6, <2>2, <3>1 DEF WithinBudget
  <2>3. QED
    BY <2>1, <2>2
<1>9. Phase' /\ Delivered'
  BY <1>3, <1>4, <1>7, <1>8 DEF Phase, Shaped, Delivered
<1>10. QED
  BY <1>1, <1>9

LEMMA TakeCallsStep == ASSUME IInv, TakeCalls PROVE IInv'
<1> USE DEF IInv
<1>1. TypeOK'
  BY DEF TypeOK, TakeCalls, searchVars, transportVars, artifactVars, Fields
<1>2. /\ AllKept /\ aside = {"logs"}
      /\ whole => Rest(Total("calls")) <= Budget \/ payload.result <= payload.marker
      /\ ResultSettled
  BY DEF Phase, TakeCalls
<1>3. /\ payload' = payload /\ bytes' = bytes /\ whole' = whole /\ kept' = kept
      /\ pc' = "fit"
  BY DEF TakeCalls, artifactVars
<1>4. Size = Rest(Total("calls")) /\ Size \in Nat
      /\ kept["calls"] = Total("calls") /\ kept["logs"] = Total("logs")
      /\ Total("calls") \in Nat
  BY <1>2, Measured, PayloadTyped, SizesTyped, ShapeAssumption DEF AllKept, Fields
<1>5. ResultSettled'
  BY <1>2, <1>3, SameSizes
<1>6. CASE WithinBudget /\ field' = "logs" /\ aside' = aside
  <2>1. CallsSettled
    BY <1>4, <1>6 DEF CallsSettled, WithinBudget
  <2>2. CallsSettled'
    BY <1>3, <2>1, SameSizes DEF CallsSettled
  <2>3. kept'[field'] = Total(field)' /\ aside' = {"logs"}
    BY <1>2, <1>3, <1>4, <1>6 DEF Total
  <2>4. QED
    BY <1>1, <1>3, <1>5, <1>6, <2>2, <2>3 DEF Phase, Shaped, Delivered, Fitting
<1>7. CASE ~WithinBudget /\ field' = "calls" /\ aside' = Fields
  <2>1. Rest(Total("calls")) > Budget
    BY <1>4, <1>7, ShapeAssumption DEF WithinBudget
  <2>2. Rest(Total("calls"))' > Budget
    BY <1>3, <2>1 DEF Rest, Envelope, Result, Body, Total
  <2>3. whole => payload.result <= payload.marker
    BY <1>2, <1>4, <1>7 DEF WithinBudget
  <2>4. kept'["calls"] = Total("calls")' /\ kept'["logs"] = Total("logs")'
    BY <1>3, <1>4 DEF Total
  <2>5. Fitting'
    BY <1>3, <1>7, <2>2, <2>3, <2>4 DEF Fitting
  <2>6. QED
    BY <1>1, <1>3, <1>5, <1>7, <2>4, <2>5 DEF Phase, Shaped, Delivered
<1>8. QED
  BY <1>6, <1>7 DEF TakeCalls

\* A step of fit_newest that leaves the counts: what is settled stays so.
LEMMA SameSettled ==
  ASSUME payload' = payload, bytes' = bytes, whole' = whole, kept' = kept
  PROVE  /\ \A f, k : Fit(f, k)' = Fit(f, k)
         /\ CallsSettled' <=> CallsSettled
         /\ LogsSettled' <=> LogsSettled
<1>1. \A f, k : Fit(f, k)' = Fit(f, k)
  BY SameSizes DEF Fit
<1>2. CallsSettled' <=> CallsSettled
  BY SameSizes DEF CallsSettled
<1>3. LogsSettled' <=> LogsSettled
  BY <1>1, SameSizes DEF LogsSettled
<1>4. QED
  BY <1>1, <1>2, <1>3

\* In fit_newest the size that is measured is the one that is reasoned about.
LEMMA FieldMeasured ==
  ASSUME IInv, pc \in {"fit", "search"}
  PROVE  \A k \in 0..Total(field) : SizeWith(field, k) = Fit(field, k) /\ Fit(field, k) \in Nat
<1>1. field \in Fields /\ (field = "calls" => "logs" \in aside) /\ (field = "logs" => "calls" \notin aside)
  BY DEF IInv, TypeOK, Phase, Fields
<1>2. \A k \in 0..Total(field) : SizeWith(field, k) = Fit(field, k)
  BY <1>1, Measured DEF IInv, Fields
<1>3. \A k \in 0..Total(field) : Fit(field, k) \in Nat
  BY <1>1, SizesTyped DEF IInv
<1>4. QED
  BY <1>2, <1>3

LEMMA FitAllStep == ASSUME IInv, FitAll PROVE IInv'
<1> USE DEF IInv
<1>1. TypeOK'
  BY DEF TypeOK, FitAll, AfterFit, transportVars, artifactVars, Fields
<1>2. /\ Fitting /\ kept[field] = Total(field) /\ ResultSettled
      /\ aside = IF field = "calls" THEN Fields ELSE {"logs"}
  BY DEF Phase, FitAll
<1>3. /\ payload' = payload /\ bytes' = bytes /\ whole' = whole /\ kept' = kept
      /\ aside' = aside \ {field}
  BY DEF FitAll, artifactVars
<1>4. Total(field) \in Nat /\ (Total(field) = 0 \/ Fit(field, Total(field)) <= Budget)
  <2>1. Total(field) \in Nat
    BY PayloadTyped, ShapeAssumption DEF TypeOK
  <2>2. Total(field) = 0 \/ SizeWith(field, Total(field)) <= Budget
    BY DEF FitAll, Total
  <2>3. pc = "fit"
    BY DEF FitAll
  <2>4. QED
    BY <2>1, <2>2, <2>3, FieldMeasured
<1>5. ResultSettled'
  BY <1>2, <1>3, SameSizes
<1>6. CASE field = "calls"
  <2>1. pc' = "fit" /\ field' = "logs" /\ aside' = {"logs"}
    BY <1>2, <1>3, <1>6 DEF FitAll, AfterFit, Fields
  <2>2. Total("calls") = 0 /\ kept["calls"] = 0
    <3>1. Fit("calls", Total("calls")) > Budget /\ Fit("calls", Total("calls")) \in Nat
      BY <1>2, <1>4, <1>6, SizesTyped DEF Fitting, Fit, Fields
    <3>2. QED
      BY <1>2, <1>4, <1>6, <3>1, ShapeAssumption
  <2>3. CallsSettled
    BY <1>2, <1>6, <2>2 DEF CallsSettled, Fitting
  <2>4. CallsSettled' /\ kept'["logs"] = Total("logs")'
    BY <1>2, <1>3, <1>6, <2>3, SameSettled DEF Fitting, Total
  <2>5. QED
    BY <1>1, <1>5, <2>1, <2>4 DEF Phase, Shaped, Delivered, Fitting
<1>7. CASE field = "logs"
  <2>1. pc' = "shaped" /\ aside' = {}
    BY <1>2, <1>3, <1>7 DEF FitAll, AfterFit
  <2>2. CallsSettled /\ LogsSettled
    BY <1>2, <1>4, <1>7 DEF Fitting, LogsSettled
  <2>3. CallsSettled' /\ LogsSettled'
    BY <1>3, <2>2, SameSettled
  <2>4. QED
    BY <1>1, <1>5, <2>1, <2>3 DEF Phase, Shaped, Delivered
<1>8. QED
  BY <1>6, <1>7 DEF TypeOK, Fields

LEMMA StartSearchStep == ASSUME IInv, StartSearch PROVE IInv'
<1> USE DEF IInv
<1>1. Total(field) \in Nat /\ Total(field) > 0
  BY PayloadTyped, ShapeAssumption DEF TypeOK, StartSearch, Total
<1>2. TypeOK'
  BY <1>1 DEF TypeOK, StartSearch, transportVars, artifactVars, Total
<1>3. /\ Fitting /\ ResultSettled
      /\ aside = IF field = "calls" THEN Fields ELSE {"logs"}
  BY DEF Phase, StartSearch
<1>4. /\ payload' = payload /\ bytes' = bytes /\ whole' = whole /\ kept' = kept
      /\ field' = field /\ lo' = 0 /\ hi' = Total(field) /\ pc' = "search"
      /\ aside' = IF field = "calls" THEN {"logs"} ELSE {}
  BY <1>3 DEF StartSearch, artifactVars, Total, Fields, TypeOK
<1>5. Fit(field, Total(field)) > Budget
  <2>1. SizeWith(field, Total(field)) > Budget /\ pc = "fit"
    BY DEF StartSearch, Total
  <2>2. QED
    BY <1>1, <2>1, FieldMeasured
<1>6. Total(field)' = Total(field) /\ Fit(field, Total(field))' = Fit(field, Total(field))
  BY <1>4, SameSizes DEF Fit, Total, Rest, Envelope, Body, Result
<1>7. Searching'
  BY <1>1, <1>4, <1>5, <1>6 DEF Searching
<1>8. Fitting'
  BY <1>3, <1>4, SameSizes, SameSettled DEF Fitting
<1>9. ResultSettled'
  BY <1>3, <1>4, SameSizes
<1>10. QED
  BY <1>2, <1>4, <1>7, <1>8, <1>9 DEF Phase, Shaped, Delivered

\* What a number put into the array at work leaves.
LEMMA SetKept ==
  ASSUME IInv, NEW m \in Nat, pc = "search",
         payload' = payload, bytes' = bytes, whole' = whole, field' = field,
         kept' = [kept EXCEPT ![field] = m]
  PROVE  /\ \A k : Fit(field, k)' = Fit(field, k)
         /\ Fitting'
         /\ kept'[field] = m
<1>1. field \in Fields /\ kept \in [Fields -> Nat] /\ Fitting
  BY DEF IInv, TypeOK, Phase
<1>2. kept'[field] = m /\ \A f \in Fields : f # field => kept'[f] = kept[f]
  BY <1>1
<1>3. \A k : Fit(field, k)' = Fit(field, k)
  <2>1. CASE field = "calls"
    BY <2>1, SameSizes DEF Fit
  <2>2. CASE field = "logs"
    <3>1. kept'["calls"] = kept["calls"]
      BY <1>2, <2>2 DEF Fields
    <3>2. QED
      BY <2>2, <3>1, SameSizes DEF Fit
  <2>3. QED
    BY <1>1, <2>1, <2>2 DEF Fields
<1>4. CASE field = "calls"
  <2>1. kept'["logs"] = kept["logs"]
    BY <1>2, <1>4 DEF Fields
  <2>2. Fitting'
    BY <1>1, <1>4, <2>1, SameSizes DEF Fitting
  <2>3. QED
    BY <1>2, <1>3, <2>2
<1>5. CASE field = "logs"
  <2>1. kept'["calls"] = kept["calls"]
    BY <1>2, <1>5 DEF Fields
  <2>2. CallsSettled' <=> CallsSettled
    BY <2>1, SameSizes DEF CallsSettled
  <2>3. Fitting'
    BY <1>1, <1>5, <2>2 DEF Fitting
  <2>4. QED
    BY <1>2, <1>3, <2>3
<1>6. QED
  BY <1>1, <1>4, <1>5 DEF Fields

LEMMA ProbeStep == ASSUME IInv, Probe PROVE IInv'
<1> USE DEF IInv
<1>1. /\ field \in Fields /\ lo \in Nat /\ hi \in Nat /\ lo < hi
      /\ Total(field) \in Nat /\ hi <= Total(field) /\ Total(field) > 0
      /\ Budget \in Nat
  BY PayloadTyped, ShapeAssumption DEF TypeOK, Phase, Searching, Probe
<1>2. Mid \in Nat /\ lo < Mid /\ Mid <= hi
  BY <1>1 DEF Mid
<1>3. /\ Searching /\ Fitting /\ ResultSettled
      /\ aside = IF field = "calls" THEN {"logs"} ELSE {}
  BY DEF Phase, Probe
<1>4. /\ payload' = payload /\ bytes' = bytes /\ whole' = whole /\ field' = field
      /\ aside' = aside /\ pc' = "search" /\ pc = "search"
      /\ kept' = [kept EXCEPT ![field] = Mid]
  BY DEF Probe, artifactVars
<1>5. SizeWith(field, Mid) = Fit(field, Mid) /\ Fit(field, Mid) \in Nat
  BY <1>1, <1>2, <1>4, FieldMeasured
<1>6. TypeOK'
  <2>1. lo' \in Nat /\ hi' \in Nat
    BY <1>1, <1>2 DEF Probe
  <2>2. kept' \in [Fields -> Nat] /\ \A f \in Fields : kept'[f] <= payload.count[f]
    BY <1>1, <1>2, <1>4 DEF TypeOK, Total
  <2>3. QED
    BY <2>1, <2>2 DEF TypeOK, Probe, artifactVars, transportVars
<1>7. (\A k : Fit(field, k)' = Fit(field, k)) /\ Fitting'
  BY <1>2, <1>4, SetKept
<1>8. ResultSettled' /\ Total(field)' = Total(field)
  BY <1>3, <1>4, SameSizes DEF Total
<1>9. Searching'
  <2>1. CASE SizeWith(field, Mid) <= Budget /\ lo' = Mid /\ hi' = hi
    BY <1>1, <1>2, <1>3, <1>4, <1>5, <1>7, <1>8, <2>1 DEF Searching
  <2>2. CASE SizeWith(field, Mid) > Budget /\ hi' = Mid - 1 /\ lo' = lo
    <3>1. \A k \in Mid..Total(field) : Fit(field, k) > Budget
      <4>1. SUFFICES ASSUME NEW k \in Mid..Total(field) PROVE Fit(field, k) > Budget
        OBVIOUS
      <4>2. CASE k = Total(field)
        BY <1>3, <4>2 DEF Searching
      <4>3. CASE k < Total(field)
        <5>1. k \in Nat /\ Mid <= k /\ k \in 0..Total(field)
          BY <1>1, <1>2
        <5>2. Fit(field, Mid) <= Fit(field, k) /\ Fit(field, k) \in Nat
          BY <1>1, <1>2, <4>3, <5>1, FitGrows, SizesTyped
        <5>3. QED
          BY <1>1, <1>5, <2>2, <5>2
      <4>4. QED
        BY <1>1, <1>2, <4>2, <4>3
    <3>2. Mid - 1 \in Nat /\ lo <= Mid - 1 /\ (Mid - 1) + 1 = Mid
      BY <1>1, <1>2
    <3>3. \A k \in (hi' + 1)..Total(field) : Fit(field, k) > Budget
      BY <2>2, <3>1, <3>2
    <3>4. hi' <= Total(field)
      BY <1>1, <1>2, <2>2, <3>2
    <3>5. lo' <= hi' /\ (lo' = 0 \/ Fit(field, lo') <= Budget)
      BY <1>3, <2>2, <3>2 DEF Searching
    <3>6. Fit(field, Total(field)) > Budget
      BY <1>3 DEF Searching
    <3>7. QED
      BY <1>1, <1>4, <1>7, <1>8, <3>3, <3>4, <3>5, <3>6 DEF Searching
  <2>3. QED
    BY <2>1, <2>2 DEF Probe
<1>10. Phase' /\ Delivered'
  BY <1>3, <1>4, <1>7, <1>8, <1>9 DEF Phase, Shaped, Delivered
<1>11. QED
  BY <1>6, <1>10

LEMMA SettleStep == ASSUME IInv, Settle PROVE IInv'
<1> USE DEF IInv
<1>1. /\ field \in Fields /\ lo \in Nat /\ lo = hi /\ lo <= Total(field)
      /\ Searching /\ Fitting /\ ResultSettled
      /\ aside = IF field = "calls" THEN {"logs"} ELSE {}
  BY PayloadTyped DEF TypeOK, Phase, Searching, Settle
<1>2. /\ payload' = payload /\ bytes' = bytes /\ whole' = whole /\ aside' = aside
      /\ kept' = [kept EXCEPT ![field] = lo] /\ AfterFit
  BY DEF Settle, artifactVars
<1>3. TypeOK'
  <2>1. kept' \in [Fields -> Nat] /\ \A f \in Fields : kept'[f] <= payload.count[f]
    BY <1>1, <1>2 DEF TypeOK, Total
  <2>2. pc' \in {"fit", "shaped"} /\ field' \in Fields
    BY <1>1, <1>2 DEF AfterFit, Fields
  <2>3. QED
    BY <2>1, <2>2 DEF TypeOK, Settle, artifactVars, transportVars
<1>4. kept'[field] = lo /\ \A f \in Fields : f # field => kept'[f] = kept[f]
  BY <1>1, <1>2 DEF TypeOK
<1>5. ResultSettled'
  BY <1>1, <1>2, SameSizes
<1>6. /\ \A k \in (lo + 1)..Total(field) : Fit(field, k) > Budget
      /\ lo = 0 \/ Fit(field, lo) <= Budget
  BY <1>1 DEF Searching
<1>7. CASE field = "calls"
  <2>1. pc' = "fit" /\ field' = "logs" /\ aside' = {"logs"}
    BY <1>1, <1>2, <1>7 DEF AfterFit
  <2>2. kept'["calls"] = lo /\ kept'["logs"] = Total("logs")
    BY <1>1, <1>4, <1>7 DEF Fitting, Fields
  <2>3. \A k \in (lo + 1)..Total("calls") : Rest(k) > Budget
    BY <1>6, <1>7 DEF Fit
  <2>4. Rest(lo) <= Budget \/ (lo = 0 /\ (whole => payload.result <= payload.marker))
    BY <1>1, <1>6, <1>7 DEF Fit, Fitting
  <2>5. CallsSettled'
    BY <1>2, <2>2, <2>3, <2>4, SameSizes DEF CallsSettled
  <2>6. kept'["logs"] = Total("logs")'
    BY <1>2, <2>2 DEF Total
  <2>7. QED
    BY <1>3, <1>5, <2>1, <2>5, <2>6 DEF Phase, Shaped, Delivered, Fitting
<1>8. CASE field = "logs"
  <2>1. pc' = "shaped" /\ aside' = {}
    BY <1>1, <1>2, <1>8 DEF AfterFit
  <2>2. kept'["calls"] = kept["calls"] /\ kept'["logs"] = lo
    BY <1>4, <1>8 DEF Fields
  <2>3. CallsSettled'
    BY <1>1, <1>2, <1>8, <2>2, SameSizes DEF CallsSettled, Fitting
  <2>4. \A k : Fit("logs", k)' = Fit("logs", k)
    BY <1>2, <2>2, SameSizes DEF Fit
  <2>5. LogsSettled'
    BY <1>2, <1>6, <1>8, <2>2, <2>4, SameSizes DEF LogsSettled
  <2>6. QED
    BY <1>3, <1>5, <2>1, <2>3, <2>5 DEF Phase, Shaped, Delivered
<1>9. QED
  BY <1>1, <1>7, <1>8 DEF Fields

\* The steps of serialize_with_limit leave the envelope.
LEMMA TransportStep == ASSUME IInv, Transport PROVE IInv'
<1> USE DEF IInv
<1>1. /\ payload' = payload /\ bytes' = bytes /\ whole' = whole /\ kept' = kept
      /\ aside' = aside /\ field' = field /\ lo' = lo /\ hi' = hi
  BY DEF Transport, SendWhole, Cut, Slice, artifactVars, searchVars
<1>2. Shaped /\ Shaped' /\ pc' \in {"slice", "sent"}
  BY DEF Transport, SendWhole, Cut, Slice, Shaped
<1>3. Phase'
  <2>1. aside = {} /\ CallsSettled /\ LogsSettled /\ ResultSettled
    BY <1>2 DEF Phase
  <2>2. aside' = {} /\ CallsSettled' /\ LogsSettled' /\ ResultSettled'
    BY <1>1, <2>1, SameSettled, SameSizes
  <2>3. QED
    BY <1>2, <2>2 DEF Phase, Shaped
<1>4. Size' = Size /\ Size \in Nat
  <2>1. Size' = Size
    BY <1>1, SameSizes DEF Size, Held, Envelope
  <2>2. Size = Fit("logs", kept["logs"])
    BY <1>2, Measured DEF Phase
  <2>3. kept["logs"] \in 0..Total("logs")
    BY PayloadTyped DEF Fields
  <2>4. QED
    BY <2>1, <2>2, <2>3, SizesTyped DEF Fields
<1>5. Budget \in Nat /\ Cap \in Nat /\ Wrapper \in 0..Cap
  BY ShapeAssumption
<1>6. TypeOK' /\ Delivered'
  <2>1. CASE SendWhole
    BY <1>1, <1>4, <1>5, <2>1 DEF SendWhole, TypeOK, Delivered
  <2>2. CASE Cut
    BY <1>1, <1>4, <1>5, <2>2 DEF Cut, TypeOK, Delivered
  <2>3. CASE Slice
    <3>1. Size > Cap /\ boundary \in 0..Cap /\ text \in 0..Cap
      BY <2>3 DEF Delivered, Slice, TypeOK
    <3>2. PICK b \in Snapped : \E escaped \in b..(2 * b) :
            \/ /\ Wrapper + escaped <= Cap \/ b = 0
               /\ pc' = "sent" /\ text' = Wrapper + escaped /\ boundary' = b
            \/ /\ Wrapper + escaped > Cap /\ b > 0
               /\ boundary' = Shorter(b) /\ UNCHANGED <<pc, text>>
      BY <2>3 DEF Slice
    <3>3. b \in 0..Cap /\ b \in Nat
      BY <1>5, <3>1, <3>2 DEF Snapped
    <3>4. b > 0 => Shorter(b) \in 0..Cap
      BY <1>5, <3>3 DEF Shorter
    <3>5. text' \in 0..Cap /\ boundary' \in 0..Cap
      <4>1. PICK escaped \in b..(2 * b) :
              \/ /\ Wrapper + escaped <= Cap \/ b = 0
                 /\ pc' = "sent" /\ text' = Wrapper + escaped /\ boundary' = b
              \/ /\ Wrapper + escaped > Cap /\ b > 0
                 /\ boundary' = Shorter(b) /\ UNCHANGED <<pc, text>>
        BY <3>2
      <4>2. escaped \in Nat /\ (b = 0 => escaped = 0)
        BY <3>3, <4>1
      <4>3. QED
        BY <1>5, <3>1, <3>3, <3>4, <4>1, <4>2
    <3>6. QED
      BY <1>1, <1>2, <1>4, <3>1, <3>5 DEF TypeOK, Delivered
  <2>4. QED
    BY <2>1, <2>2, <2>3 DEF Transport
<1>7. QED
  BY <1>3, <1>6

LEMMA StutterStep == ASSUME IInv, UNCHANGED vars PROVE IInv'
<1>1. /\ payload' = payload /\ bytes' = bytes /\ whole' = whole /\ kept' = kept
      /\ aside' = aside /\ field' = field /\ lo' = lo /\ hi' = hi /\ pc' = pc
      /\ boundary' = boundary /\ text' = text
  BY DEF vars, artifactVars, searchVars, transportVars
<1>2. TypeOK'
  BY <1>1 DEF IInv, TypeOK
<1>3. Phase'
  <2>1. Fitting' <=> Fitting
    BY <1>1, SameSizes, SameSettled DEF Fitting
  <2>2. Searching' <=> Searching
    BY <1>1, SameSizes, SameSettled DEF Searching
  <2>3. \A f \in Fields : Total(f)' = Total(f)
    BY <1>1, SameSizes
  <2>4. (AllKept' <=> AllKept) /\ (Shaped' <=> Shaped)
    BY <1>1 DEF AllKept, Total, Shaped
  <2>5. Rest(Total("calls"))' = Rest(Total("calls"))
    BY <1>1 DEF Rest, Envelope, Result, Body, Total
  <2>6. Total(field)' = Total(field)
    BY <1>1 DEF Total
  <2>7. QED
    BY <1>1, <2>1, <2>2, <2>4, <2>5, <2>6, SameSizes, SameSettled DEF IInv, Phase
<1>4. Delivered'
  <2>1. Size' = Size
    BY <1>1, SameSizes DEF Size, Held, Envelope
  <2>2. QED
    BY <1>1, <2>1 DEF IInv, Delivered
<1>5. QED
  BY <1>2, <1>3, <1>4 DEF IInv

LEMMA Step == IInv /\ [Next]_vars => IInv'
BY CollectStep, BuildStep, MeasureStep, MarkResultStep, TakeCallsStep, FitAllStep,
   StartSearchStep, ProbeStep, SettleStep, TransportStep, StutterStep
   DEF Next, Shape

LEMMA Invariant == Spec => []IInv
BY InitHolds, Step, PTL DEF Spec
-----------------------------------------------------------------------------
\* Every variable has its type in every reachable state (fit_response,
\* serialize_with_limit).
THEOREM TypeCorrect == Spec => []TypeOK
BY Invariant, PTL DEF IInv

\* The answer is given up only when giving up every log line was not enough.
THEOREM AnswerOutlives == Spec => []AnswerOutlivesLogs
<1>1. IInv => AnswerOutlivesLogs
  BY DEF IInv, Phase, ResultSettled, AnswerOutlivesLogs, Total
<1>2. QED
  BY <1>1, Invariant, PTL

\* fit_newest's binary search keeps what a scan for the longest suffix would keep,
\* for any entries and any budget.
THEOREM SearchIsExact == Spec => []KeepsNewestThatFit
<1>1. IInv => KeepsNewestThatFit
  <2>1. SUFFICES ASSUME IInv, Shaped PROVE KeepsNewestThatFit
    BY DEF KeepsNewestThatFit
  <2>2. aside = {} /\ CallsSettled /\ LogsSettled
    BY <2>1 DEF Phase, IInv
  <2>3. \A k \in (kept["calls"] + 1)..payload.count["calls"] :
           Envelope(Result, Body("calls", k), 0) > Budget
    BY <2>2 DEF CallsSettled, Rest, Total
  <2>4. SUFFICES ASSUME NEW k \in (kept["logs"] + 1)..Total("logs")
                 PROVE  SizeWith("logs", k) > Budget
    BY <2>3 DEF KeepsNewestThatFit, Total
  <2>5. Fit("logs", k) > Budget
    BY <2>2 DEF LogsSettled
  <2>6. k \in 0..Total("logs")
    BY <2>1, PayloadTyped DEF IInv, Fields
  <2>7. QED
    BY <2>1, <2>2, <2>5, <2>6, Measured DEF IInv
<1>2. QED
  BY <1>1, Invariant, PTL

\* What is spent when the shaped envelope is over the budget.
LEMMA Spent ==
  ASSUME IInv, Shaped, Size > Budget
  PROVE  /\ kept["logs"] = 0
         /\ Size = Rest(kept["calls"]) + Body("logs", 0)
         /\ Rest(kept["calls"]) \in Nat /\ Body("logs", 0) \in Nat /\ Body("calls", 0) \in Nat
         /\ \/ Rest(kept["calls"]) <= Budget
            \/ kept["calls"] = 0 /\ (whole => payload.result <= payload.marker)
<1>1. aside = {} /\ CallsSettled /\ LogsSettled
  BY DEF IInv, Phase
<1>2. /\ kept["calls"] \in 0..Total("calls") /\ kept["logs"] \in 0..Total("logs")
      /\ 0 \in 0..Total("calls") /\ 0 \in 0..Total("logs")
  BY PayloadTyped, ShapeAssumption DEF IInv, Fields
<1>3. /\ Rest(kept["calls"]) \in Nat
      /\ Body("logs", 0) \in Nat /\ Body("calls", 0) \in Nat
      /\ Fit("logs", kept["logs"]) \in Nat
  BY <1>2, SizesTyped DEF IInv, Fields
<1>4. Size = Fit("logs", kept["logs"])
  BY <1>1, Measured DEF IInv
<1>5. kept["logs"] = 0
  BY <1>1, <1>3, <1>4, ShapeAssumption DEF LogsSettled
<1>6. QED
  BY <1>1, <1>3, <1>4, <1>5 DEF Fit, CallsSettled

\* Whatever the budget and the payload, an envelope over the budget has nothing
\* left to give up but the sentinel of its logs.
THEOREM OverBudgetIsSpent == Spec => []OverMeansSpent
<1>1. IInv => OverMeansSpent
  <2>1. SUFFICES ASSUME IInv, Shaped, Size > Budget PROVE OverMeansSpent
    BY DEF OverMeansSpent
  <2>2. QED
    BY <2>1, Spent DEF OverMeansSpent
<1>2. QED
  BY <1>1, Invariant, PTL

\* The transport cuts a shaped envelope only where the artifacts, the result's
\* marker and the calls' sentinel alone are over the budget.
THEOREM NotSliced == Spec => []SlicedOnlyForAudit
<1>1. IInv => SlicedOnlyForAudit
  <2>1. SUFFICES ASSUME IInv, Shaped, Floor <= Budget, Body("logs", 0) <= Cap - Budget
                 PROVE  Size <= Cap
    BY DEF SlicedOnlyForAudit
  <2>2. Budget \in Nat /\ Cap \in Nat /\ Budget < Cap
    BY ShapeAssumption
  <2>3. Size \in Nat
    <3>1. kept["logs"] \in 0..Total("logs") /\ aside = {}
      BY <2>1, PayloadTyped DEF IInv, Phase, Fields
    <3>2. QED
      BY <2>1, <3>1, Measured, SizesTyped DEF IInv, Fields
  <2>4. CASE Size <= Budget
    BY <2>2, <2>3, <2>4
  <2>5. CASE Size > Budget
    <3>1. Rest(kept["calls"]) <= Budget
      <4>1. CASE kept["calls"] = 0 /\ (whole => payload.result <= payload.marker)
        <5>1. /\ payload.result \in Nat /\ payload.marker \in Nat
              /\ (~whole => payload.marker < payload.result)
          BY <2>1, PayloadTyped DEF IInv, Phase, ResultSettled
        <5>2. Result = IF payload.marker < payload.result THEN payload.marker
                                                          ELSE payload.result
          BY <4>1, <5>1 DEF Result
        <5>3. Rest(0) = Floor
          BY <5>2 DEF Rest, Floor
        <5>4. QED
          BY <2>1, <4>1, <5>3
      <4>2. QED
        BY <2>1, <2>5, <4>1, Spent
    <3>2. QED
      BY <2>1, <2>2, <2>5, <3>1, Spent
  <2>6. QED
    BY <2>2, <2>3, <2>4, <2>5
<1>2. QED
  BY <1>1, Invariant, PTL

\* However much the escaping adds, what the agent receives is within the cap.
THEOREM CapIsHard == Spec => []CapHolds
<1>1. IInv => CapHolds
  <2>1. SUFFICES ASSUME IInv, pc = "sent" PROVE CapHolds
    BY DEF CapHolds
  <2>2. text \in 0..Cap /\ Cap \in Nat /\ (Size > Cap \/ text = Size)
    BY <2>1, ShapeAssumption DEF IInv, TypeOK, Delivered
  <2>3. Size \in Nat
    <3>1. kept["logs"] \in 0..Total("logs") /\ aside = {}
      BY <2>1, PayloadTyped DEF IInv, Phase, Fields, Shaped
    <3>2. QED
      BY <2>1, <3>1, Measured, SizesTyped DEF IInv, Fields
  <2>4. QED
    BY <2>2, <2>3 DEF CapHolds
<1>2. QED
  BY <1>1, Invariant, PTL
-----------------------------------------------------------------------------
LEMMA ArtifactsInvariant == Spec => []AInv
<1>1. Init => AInv
  BY ArtifactStarts DEF Init
<1>2. ASSUME AInv, [Next]_vars PROVE AInv'
  <2>1. Attempt \/ UNCHANGED artifactVars
    BY <1>2 DEF Next, Collect, Build, Shape, Transport, Measure, MarkResult, TakeCalls, FitAll,
                StartSearch, Probe, Settle, SendWhole, Cut, Slice, vars
  <2>2. CASE UNCHANGED artifactVars
    BY <1>2, <2>2 DEF artifactVars, AInv, Records, Tree, ReceiptsTrue, Receipts
  <2>3. QED
    BY <1>2, <2>1, <2>2, AttemptKeeps
<1>3. QED
  BY <1>1, <1>2, PTL DEF Spec

\* Whatever paths a script asks for, in whatever order and with whatever failures in
\* between, an entry that says a file was written is right about it.
THEOREM ReceiptsHold == Spec => []ReceiptsTrue
<1>1. AInv => ReceiptsTrue
  BY DEF AInv
<1>2. QED
  BY <1>1, ArtifactsInvariant, PTL

\* Every file and every directory a run makes is below its own directory, under names
\* alone, and they form a tree (validate_artifact_path, resolve_under_root).
THEOREM WritesStayInside == Spec => []Tree
<1>1. AInv => Tree
  BY DEF AInv
<1>2. QED
  BY <1>1, ArtifactsInvariant, PTL
-----------------------------------------------------------------------------
\* The bytes of the largest entry, and of the sentinel of an array that lost everything.
Largest == IF EntryBytes[TRUE] > EntryBytes[FALSE] THEN EntryBytes[TRUE] ELSE EntryBytes[FALSE]
Lost(p, f) == IF p.count[f] = 0 THEN 0 ELSE Sentinel[f][p.count[f]]

\* What no shaping removes has room: the entries of as many attempts as a run makes,
\* the smaller of the result and its marker, and the two sentinels.
RoomForAudit ==
  \A p \in Payloads :
     /\ p.rest + MaxAttempts * Largest
          + (IF p.marker < p.result THEN p.marker ELSE p.result) + Lost(p, "calls") <= Budget
     /\ Lost(p, "logs") <= Cap - Budget

BInv ==
  /\ Records /\ Len(entries) <= MaxAttempts
  /\ bytes \in Nat /\ bytes <= Len(entries) * Largest

LEMMA LargestTyped == Largest \in Nat /\ \A ok \in BOOLEAN : EntryBytes[ok] \in 0..Largest
<1>1. \A x, y \in Nat : LET l == IF x > y THEN x ELSE y IN l \in Nat /\ x \in 0..l /\ y \in 0..l
  OBVIOUS
<1>2. EntryBytes[TRUE] \in Nat /\ EntryBytes[FALSE] \in Nat
  BY ArtifactAssumption
<1>3. Largest \in Nat /\ EntryBytes[TRUE] \in 0..Largest /\ EntryBytes[FALSE] \in 0..Largest
  BY <1>1, <1>2 DEF Largest
<1>4. QED
  BY <1>3

LEMMA BytesBounded == Spec => []BInv
<1>1. Init => BInv
  BY LargestTyped, ArtifactAssumption DEF Init, ArtifactInit, BInv, Records
<1>2. ASSUME BInv, [Next]_vars PROVE BInv'
  <2>1. Attempt \/ UNCHANGED artifactVars
    BY <1>2 DEF Next, Collect, Build, Shape, Transport, Measure, MarkResult, TakeCalls, FitAll,
                StartSearch, Probe, Settle, SendWhole, Cut, Slice, vars
  <2>2. CASE UNCHANGED artifactVars
    BY <1>2, <2>2 DEF artifactVars, BInv, Records
  <2>3. CASE Attempt
    <3>1. PICK path \in Paths, ok \in BOOLEAN : Push(path, ok)
      BY <2>3 DEF Attempt, Refuse, Write, Tear
    <3>2. /\ Records' /\ Len(entries)' = Len(entries) + 1 /\ Len(entries) \in Nat
          /\ Len(entries) < MaxAttempts
      BY <1>2, <3>1 DEF Push, BInv, Records
    <3>3. bytes' = bytes + EntryBytes[ok] /\ EntryBytes[ok] \in 0..Largest /\ Largest \in Nat
      BY <3>1, LargestTyped DEF Push
    <3>4. \A n, l \in Nat : (n + 1) * l = n * l + l /\ n * l \in Nat
      OBVIOUS
    <3>5. bytes' \in Nat /\ bytes' <= Len(entries)' * Largest
      BY <1>2, <3>2, <3>3, <3>4 DEF BInv
    <3>6. QED
      BY <3>2, <3>5, ArtifactAssumption DEF BInv
  <2>4. QED
    BY <2>1, <2>2, <2>3
<1>3. QED
  BY <1>1, <1>2, PTL DEF Spec

\* With room for the audit the shaped envelope never trips the transport's cap, which
\* is what truncate.rs:29 says of every envelope: nothing but the entries of a run's
\* attempts, its marker and its sentinels can break it.
THEOREM NeverTripsWithRoom ==
  ASSUME RoomForAudit
  PROVE  Spec => []NeverTripsTransport
<1>1. ASSUME IInv, BInv, SlicedOnlyForAudit PROVE NeverTripsTransport
  <2>1. SUFFICES ASSUME Shaped PROVE Size <= Cap
    BY DEF NeverTripsTransport
  <2>2. payload \in Payloads /\ payload.result \in Nat /\ payload.marker \in Nat /\ payload.rest \in Nat
    BY <1>1, PayloadTyped DEF IInv, TypeOK
  <2>3. \A f \in Fields : Body(f, 0) = Lost(payload, f) /\ Body(f, 0) \in Nat
    <3>1. TAKE f \in Fields
    <3>2. Total(f) \in 0..MaxEntries /\ MaxEntries \in Nat /\ IsTail(payload.tail[f], Total(f))
      BY <1>1, PayloadTyped, ShapeAssumption DEF IInv
    <3>3. 0 \in 0..Total(f) /\ payload.tail[f][0] = 0
      BY <3>2 DEF IsTail
    <3>4. Body(f, 0) \in Nat
      BY <1>1, <3>3, BodyTyped DEF IInv
    <3>5. Total(f) > 0 => Sentinel[f][Total(f)] \in Nat /\ Total(f) - 0 = Total(f)
      BY <3>2, ShapeAssumption
    <3>6. QED
      BY <3>2, <3>3, <3>4, <3>5 DEF Body, Lost, Total
  <2>4. bytes \in Nat /\ bytes <= MaxAttempts * Largest
    <3>1. \A m, n, l \in Nat : n <= m => n * l <= m * l
      OBVIOUS
    <3>2. Len(entries) \in Nat /\ MaxAttempts \in Nat /\ Largest \in Nat
      BY <1>1, ArtifactAssumption, LargestTyped DEF BInv, Records
    <3>3. QED
      BY <1>1, <3>1, <3>2 DEF BInv
  <2>5. Floor <= Budget
    <3>1. MaxAttempts * Largest \in Nat /\ Budget \in Nat
      BY ArtifactAssumption, ShapeAssumption, LargestTyped
    <3>2. QED
      BY <2>2, <2>3, <2>4, <3>1 DEF RoomForAudit, Floor, Envelope, Fields
  <2>6. Body("logs", 0) <= Cap - Budget
    BY <2>2, <2>3 DEF RoomForAudit, Fields
  <2>7. QED
    BY <1>1, <2>1, <2>5, <2>6 DEF SlicedOnlyForAudit
<1>2. QED
  BY <1>1, Invariant, BytesBounded, NotSliced, PTL
-----------------------------------------------------------------------------
(***************************************************************************)
(* What Finishes rests on besides fairness: the bytes the slicing may      *)
(* still take, the candidates of the searches and the stages to come are   *)
(* a number that every step of the shaping and the sending lowers.         *)
(***************************************************************************)
StepsLeft ==
  CASE pc = "sent"   -> 0
    [] pc = "slice"  -> 1 + boundary
    [] pc = "shaped" -> Cap + 2
    [] pc = "search" -> Cap + 3 + (hi - lo) + (IF field = "calls" THEN MaxEntries + 2 ELSE 0)
    [] pc = "fit"    -> Cap + 4 + MaxEntries + (IF field = "calls" THEN MaxEntries + 2 ELSE 0)
    [] pc = "marked" -> Cap + 2 * MaxEntries + 7
    [] pc = "bare"   -> Cap + 2 * MaxEntries + 8
    [] pc = "built"  -> Cap + 2 * MaxEntries + 9
    [] OTHER         -> Cap + 2 * MaxEntries + 10

\* Each step but the script's own brings the response nearer to the agent, and a
\* probe at least halves the search.
Nearer ==
  /\ Collect \/ StepsLeft' < StepsLeft
  /\ Probe => 2 * (hi' - lo') <= hi - lo

\* The numbers the measure is made of.
Measurable ==
  /\ Cap \in Nat /\ MaxEntries \in Nat /\ pc \in Phases /\ field \in Fields
  /\ lo \in Nat /\ hi \in Nat /\ boundary \in 0..Cap
  /\ pc = "search" => lo <= hi /\ hi <= MaxEntries

LEMMA IsMeasurable == IInv => Measurable
<1> SUFFICES ASSUME IInv PROVE Measurable
  OBVIOUS
<1>1. \A f \in Fields : Total(f) \in 0..MaxEntries
  BY PayloadTyped DEF IInv
<1>2. pc = "search" => lo <= hi /\ hi <= Total(field)
  BY DEF IInv, Phase, Searching
<1>3. QED
  BY <1>1, <1>2, ShapeAssumption DEF IInv, TypeOK, Measurable, Phases

LEMMA StepsBounded == Measurable => StepsLeft \in 0..(Cap + 2 * MaxEntries + 10)
BY DEF Measurable, StepsLeft, Phases, Fields

LEMMA StepNearer == ASSUME IInv, IInv', Next PROVE Nearer
<1>1. Measurable /\ Measurable'
  <2>1. IInv' => Measurable'
    BY IsMeasurable, PTL
  <2>2. QED
    BY <2>1, IsMeasurable
<1> USE <1>1 DEF Measurable
<1>2. CASE Collect
  BY <1>2 DEF Nearer, Collect, Probe
<1>3. CASE Build
  BY <1>3 DEF Nearer, Build, Probe, StepsLeft
<1>4. CASE Measure \/ MarkResult \/ TakeCalls
  BY <1>4 DEF Nearer, Measure, MarkResult, TakeCalls, Probe, StepsLeft, searchVars, Fields
<1>5. CASE FitAll
  BY <1>5 DEF Nearer, FitAll, AfterFit, Probe, StepsLeft, Fields
<1>6. CASE StartSearch
  <2>1. hi' - lo' <= MaxEntries /\ pc' = "search" /\ pc = "fit" /\ field' = field
    BY <1>6 DEF StartSearch
  <2>2. QED
    BY <2>1 DEF Nearer, Probe, StepsLeft, Fields
<1>7. CASE Probe
  <2>1. lo < hi /\ pc = "search" /\ pc' = pc /\ field' = field
    BY <1>7 DEF Probe
  <2>2. 2 * Mid \in {lo + hi, lo + hi + 1} /\ Mid \in Nat
    <3>1. \A n \in Nat : 2 * ((n + 1) \div 2) \in {n, n + 1} /\ (n + 1) \div 2 \in Nat
      OBVIOUS
    <3>2. QED
      BY <3>1 DEF Mid
  <2>3. (lo' = Mid /\ hi' = hi) \/ (hi' = Mid - 1 /\ lo' = lo)
    BY <1>7 DEF Probe
  <2>4. 2 * (hi' - lo') <= hi - lo /\ hi' - lo' < hi - lo
    <3>1. \A l, h, m \in Nat :
            l < h /\ 2 * m \in {l + h, l + h + 1} =>
              /\ 2 * (h - m) <= h - l /\ h - m < h - l
              /\ 2 * ((m - 1) - l) <= h - l /\ (m - 1) - l < h - l
      OBVIOUS
    <3>2. /\ 2 * (hi - Mid) <= hi - lo /\ hi - Mid < hi - lo
          /\ 2 * ((Mid - 1) - lo) <= hi - lo /\ (Mid - 1) - lo < hi - lo
      BY <2>1, <2>2, <3>1
    <3>3. QED
      BY <2>3, <3>2
  <2>5. StepsLeft' < StepsLeft
    <3> DEFINE After == Cap + 3 + (IF field = "calls" THEN MaxEntries + 2 ELSE 0)
    <3>1. StepsLeft = After + (hi - lo) /\ StepsLeft' = After + (hi' - lo')
      BY <2>1, <2>2, <2>3 DEF StepsLeft
    <3>2. After \in Nat
      OBVIOUS
    <3>3. \A a \in Nat : \A i, j \in Int : i < j => a + i < a + j
      OBVIOUS
    <3>4. hi - lo \in Int /\ hi' - lo' \in Int
      OBVIOUS
    <3> HIDE DEF After
    <3>5. QED
      BY <2>4, <3>1, <3>2, <3>3, <3>4
  <2>6. QED
    BY <2>4, <2>5 DEF Nearer
<1>8. CASE Settle
  BY <1>8 DEF Nearer, Settle, AfterFit, Probe, StepsLeft, Fields
<1>9. CASE SendWhole \/ Cut
  BY <1>9 DEF Nearer, SendWhole, Cut, Probe, StepsLeft
<1>10. CASE Slice
  <2>1. pc = "slice" /\ ~Probe
    BY <1>10 DEF Slice, Probe
  <2>2. CASE pc' = "sent"
    BY <2>1, <2>2 DEF Nearer, StepsLeft
  <2>3. CASE pc' # "sent"
    <3>1. PICK b \in Snapped : b > 0 /\ boundary' = Shorter(b) /\ pc' = pc
      BY <1>10, <2>3 DEF Slice
    <3>2. b \in 0..boundary
      BY <3>1 DEF Snapped
    <3>3. boundary' < boundary
      BY <3>1, <3>2 DEF Shorter
    <3>4. QED
      BY <2>1, <3>1, <3>3 DEF Nearer, StepsLeft
  <2>4. QED
    BY <2>2, <2>3
<1>11. QED
  BY <1>2, <1>3, <1>4, <1>5, <1>6, <1>7, <1>8, <1>9, <1>10 DEF Next, Shape, Transport

\* A built response is sent after at most Cap + 2 * MaxEntries + 9 steps, however the
\* searches probe, the text is snapped and the escaping swells the slices.
THEOREM ShapingIsBounded ==
  Spec => /\ [](StepsLeft \in 0..(Cap + 2 * MaxEntries + 10))
          /\ [][Nearer]_vars
<1>1. IInv => StepsLeft \in 0..(Cap + 2 * MaxEntries + 10)
  BY IsMeasurable, StepsBounded
<1>2. IInv /\ [Next]_vars => [Nearer]_vars
  BY Step, StepNearer
<1>3. QED
  BY <1>1, <1>2, Invariant, PTL DEF Spec
=============================================================================
