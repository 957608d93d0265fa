---------------------------- MODULE PipelineProofs ----------------------------
(***************************************************************************)
(* The pipeline for any alerts, verdicts, slots, attempts and calls of     *)
(* stop. That an alert is in one place needs that the queue repeats none   *)
(* (NoRepeats) and that the two ways in never meet (WaysApart); that cases *)
(* are bounded needs that no attempt was made before the stage (Untried),  *)
(* since a triage replaces the severity that the attempts were made for.   *)
(***************************************************************************)
EXTENDS Pipeline, FiniteSetTheorems, SequenceTheorems, TLAPS

Waiting == {a \in Queued : stage[a] = "queued"}
Lost == {a \in Alerts : stage[a] = "lost"}

NoRepeats == \A i, j \in 1..Len(queue) : queue[i] = queue[j] => i = j

\* Only the alerts of the batch wait for a slot, and they do so together.
WaysApart ==
  /\ \A a \in Queued : stage[a] # "awaiting slot"
  /\ \A a, b \in Batch : stage[a] = "new" => stage[b] = "new"

Untried ==
  \A a \in Alerts :
    /\ stage[a] \in {"new", "queued", "awaiting slot", "detection", "triage", "enrichment"} =>
         attempts[a] = 0
    /\ stage[a] = "case" => ShouldCreateCase(a) /\ attempts[a] < MaxAttempts

PInv == TypeOK /\ StopLosesOne /\ NoRepeats /\ WaysApart /\ Untried /\ CasesBounded

\* What is about where the alerts are, and what is about their cases.
Placed == StopLosesOne /\ NoRepeats /\ WaysApart
Charged == Untried /\ CasesBounded

Places == InProcess \cup {"new", "queued", "awaiting slot", "finished", "lost"}

LEMMA AlertsFinite ==
  /\ IsFiniteSet(Waiting) /\ IsFiniteSet(Lost)
  /\ Cardinality(Waiting) \in Nat /\ Cardinality(Lost) \in Nat
<1>1. Waiting \in SUBSET Alerts /\ Lost \in SUBSET Alerts
  BY DEF Waiting, Lost, Alerts
<1> QED
  BY <1>1, PipelineAssumption, FS_Subset, FS_CardinalityType

LEMMA PipelineStarts == Init => PInv
<1> SUFFICES ASSUME Init PROVE PInv
  OBVIOUS
<1>1. TypeOK
  <2>1. <<>> \in Seq(Queued) /\ 0 \in 0..MaxStops
    BY PipelineAssumption, EmptySeq
  <2> QED
    BY <2>1 DEF Init, TypeOK
<1>2. StopLosesOne
  <2>1. Waiting = {} /\ Lost = {}
    BY DEF Init, Waiting, Lost, Alerts
  <2>2. \A a \in Queued : ~Contains(queue, a)
    BY EmptySeq DEF Init, Contains
  <2>3. \A a \in Queued : stage[a] = "new" /\ worker # a
    BY PipelineAssumption DEF Init, Alerts
  <2>4. Cardinality(Waiting) = 0 /\ Cardinality(Lost) = 0 /\ Len(queue) = 0 /\ stops = 0
    BY <2>1, FS_EmptySet DEF Init
  <2> QED
    BY <2>2, <2>3, <2>4 DEF StopLosesOne, Waiting, Lost, InProcess
<1>3. NoRepeats /\ WaysApart
  BY DEF Init, NoRepeats, WaysApart, Alerts
<1>4. Untried /\ CasesBounded
  BY PipelineAssumption DEF Init, Untried, CasesBounded
<1> QED
  BY <1>1, <1>2, <1>3, <1>4 DEF PInv

\* The steps that leave all cases alone.
LEMMA CasesStay ==
  ASSUME Charged, UNCHANGED <<triaged, attempts, cases, late, caseId>>,
         \A a \in Alerts :
           /\ stage'[a] \in {"new", "queued", "awaiting slot", "detection", "triage", "enrichment"} =>
                stage[a] \in {"new", "queued", "awaiting slot", "detection", "triage", "enrichment"}
           /\ stage'[a] = "case" => ShouldCreateCase(a) /\ attempts[a] < MaxAttempts
  PROVE  Charged'
BY DEF Charged, Untried, CasesBounded, ShouldCreateCase

(***************************************************************************)
(* The queue, the worker and the batch.                                    *)
(***************************************************************************)
LEMMA StartKeeps ==
  ASSUME PInv, Start
  PROVE  PInv'
<1>1. UNCHANGED <<queue, worker, stops, stage, triaged, attempts, cases, late, caseId, tier>>
      /\ running' = TRUE
  BY DEF Start, caseVars
<1> QED
  BY <1>1 DEF PInv, TypeOK, StopLosesOne, NoRepeats, WaysApart, Untried, CasesBounded,
              ShouldCreateCase

LEMMA EnqueueKeeps ==
  ASSUME PInv, NEW a \in Alerts, Enqueue(a)
  PROVE  PInv'
<1>1. /\ a \in Queued /\ stage[a] = "new" /\ queue' = Append(queue, a)
      /\ stage' = [stage EXCEPT ![a] = "queued"]
      /\ UNCHANGED <<running, worker, stops, triaged, attempts, cases, late, caseId, tier>>
  BY DEF Enqueue, caseVars
<1>2. /\ stage \in [Alerts -> Places] /\ queue \in Seq(Queued)
      /\ stage' \in [Alerts -> Places]
      /\ stage'[a] = "queued" /\ \A b \in Alerts \ {a} : stage'[b] = stage[b]
  BY <1>1 DEF PInv, TypeOK, Places
<1>3. /\ queue' \in Seq(Queued) /\ Len(queue') = Len(queue) + 1 /\ Len(queue) \in Nat
      /\ queue'[Len(queue) + 1] = a
      /\ \A i \in 1..Len(queue) : queue'[i] = queue[i]
  BY <1>1, <1>2, AppendProperties, LenProperties
<1>4. 1..Len(queue') = 1..Len(queue) \cup {Len(queue) + 1}
  BY <1>3
<1>5. ~Contains(queue, a)
  BY <1>1 DEF PInv, StopLosesOne
<1>6. TypeOK'
  BY <1>1, <1>2, <1>3 DEF PInv, TypeOK, Places
<1>7. Waiting' = Waiting \cup {a} /\ a \notin Waiting /\ Lost' = Lost
  BY <1>1, <1>2 DEF Waiting, Lost, Alerts
<1>8. Cardinality(Waiting') = Cardinality(Waiting) + 1
  BY <1>7, AlertsFinite, FS_AddElement
<1>9. ASSUME NEW b \in Queued
      PROVE  Contains(queue', b) <=> Contains(queue, b) \/ b = a
  BY <1>3, <1>4 DEF Contains
<1>10. StopLosesOne'
  <2>1. \A b \in Queued : /\ stage'[b] = "queued" <=> Contains(queue', b)
                          /\ stage'[b] \in InProcess <=> worker' = b
    BY <1>1, <1>2, <1>9 DEF PInv, StopLosesOne, Alerts, InProcess
  <2>2. Len(queue') = Cardinality(Waiting')
    BY <1>3, <1>8 DEF PInv, StopLosesOne, Waiting
  <2>3. Cardinality(Lost') <= stops'
    BY <1>1, <1>7 DEF PInv, StopLosesOne, Lost
  <2> QED
    BY <2>1, <2>2, <2>3 DEF StopLosesOne, Waiting, Lost
<1>11. NoRepeats'
  BY <1>3, <1>4, <1>5 DEF PInv, NoRepeats, Contains
<1>12. WaysApart'
  BY <1>1, <1>2, PipelineAssumption DEF PInv, WaysApart, Alerts
<1>13. Charged'
  BY <1>1, <1>2, CasesStay DEF PInv, Charged, Untried
<1> QED
  BY <1>6, <1>10, <1>11, <1>12, <1>13 DEF PInv, Charged

LEMMA TakeKeeps ==
  ASSUME PInv, Take
  PROVE  PInv'
<1> DEFINE a == Head(queue)
<1>1. /\ worker = None /\ queue # <<>> /\ worker' = a /\ queue' = Tail(queue)
      /\ stage' = [stage EXCEPT ![a] = "detection"]
      /\ UNCHANGED <<running, stops, triaged, attempts, cases, late, caseId, tier>>
  BY DEF Take, caseVars
<1>2. /\ queue \in Seq(Queued) /\ stage \in [Alerts -> Places]
  BY DEF PInv, TypeOK, Places
<1>3. /\ a \in Queued /\ queue' \in Seq(Queued) /\ Len(queue') = Len(queue) - 1
      /\ Len(queue) \in Nat \ {0} /\ queue[1] = a
      /\ \A i \in 1..Len(queue') : queue'[i] = queue[i + 1]
  BY <1>1, <1>2, HeadTailProperties, EmptySeq
<1>4. /\ a \in Alerts /\ stage' \in [Alerts -> Places]
      /\ stage'[a] = "detection" /\ \A b \in Alerts \ {a} : stage'[b] = stage[b]
  BY <1>1, <1>2, <1>3 DEF Alerts, Places, InProcess
<1>5. stage[a] = "queued"
  <2>1. 1 \in 1..Len(queue) /\ StopLosesOne
    BY <1>3 DEF PInv
  <2> QED
    BY <1>3, <2>1 DEF StopLosesOne, Contains
<1>6. TypeOK'
  BY <1>1, <1>3, <1>4 DEF PInv, TypeOK, Places
<1>7. Waiting' = Waiting \ {a} /\ a \in Waiting /\ Lost' = Lost
  BY <1>3, <1>4, <1>5 DEF Waiting, Lost, Alerts
<1>8. Cardinality(Waiting') = Cardinality(Waiting) - 1
  BY <1>7, AlertsFinite, FS_RemoveElement
<1>9. ASSUME NEW b \in Queued
      PROVE  Contains(queue', b) <=> Contains(queue, b) /\ b # a
  <2>1. ASSUME NEW i \in 1..Len(queue'), queue'[i] = b
        PROVE  Contains(queue, b) /\ b # a
    <3>1. i + 1 \in 1..Len(queue) /\ 1 \in 1..Len(queue) /\ i + 1 # 1 /\ queue[i + 1] = b
      BY <1>3, <2>1
    <3> QED
      BY <1>3, <3>1 DEF PInv, NoRepeats, Contains
  <2>2. ASSUME NEW i \in 1..Len(queue), queue[i] = b, b # a
        PROVE  Contains(queue', b)
    <3>1. i - 1 \in 1..Len(queue') /\ queue'[i - 1] = b
      BY <1>3, <2>2
    <3> QED
      BY <3>1 DEF Contains
  <2> QED
    BY <2>1, <2>2 DEF Contains
<1>10. \A b \in Queued : stage[b] \notin InProcess
  BY <1>1, PipelineAssumption DEF PInv, StopLosesOne, Alerts
<1>11. StopLosesOne'
  <2>1. \A b \in Queued : /\ stage'[b] = "queued" <=> Contains(queue', b)
                          /\ stage'[b] \in InProcess <=> worker' = b
    BY <1>1, <1>4, <1>9, <1>10 DEF PInv, StopLosesOne, Alerts, InProcess
  <2>2. Len(queue') = Cardinality(Waiting')
    BY <1>3, <1>8 DEF PInv, StopLosesOne, Waiting
  <2>3. Cardinality(Lost') <= stops'
    BY <1>1, <1>7 DEF PInv, StopLosesOne, Lost
  <2> QED
    BY <2>1, <2>2, <2>3 DEF StopLosesOne, Waiting, Lost
<1>12. NoRepeats'
  <2> SUFFICES ASSUME NEW i \in 1..Len(queue'), NEW j \in 1..Len(queue'), queue'[i] = queue'[j]
               PROVE  i = j
    BY DEF NoRepeats
  <2>1. i + 1 \in 1..Len(queue) /\ j + 1 \in 1..Len(queue) /\ queue[i + 1] = queue[j + 1]
    BY <1>3
  <2>2. i + 1 = j + 1
    BY <2>1 DEF PInv, NoRepeats
  <2> QED
    BY <2>2
<1>13. WaysApart'
  <2>1. WaysApart /\ a \notin Batch
    BY <1>3, PipelineAssumption DEF PInv
  <2> QED
    BY <1>4, <2>1 DEF WaysApart, Alerts
<1>14. Charged'
  BY <1>1, <1>4, <1>5, CasesStay DEF PInv, Charged, Untried
<1> QED
  BY <1>6, <1>11, <1>12, <1>13, <1>14 DEF PInv, Charged

\* A stop takes the alert in the worker's hands and no other.
LEMMA StopKeeps ==
  ASSUME PInv, Stop
  PROVE  PInv'
<1>1. /\ stops < MaxStops /\ running' = FALSE /\ stops' = stops + 1 /\ worker' = None
      /\ stage' = IF worker = None THEN stage ELSE [stage EXCEPT ![worker] = "lost"]
      /\ UNCHANGED <<queue, triaged, attempts, cases, late, caseId, tier>>
  BY DEF Stop, caseVars
<1>2. /\ stage \in [Alerts -> Places] /\ worker \in Queued \cup {None} /\ stops \in Nat
      /\ queue \in Seq(Queued)
  <2>1. TypeOK /\ MaxStops \in Nat
    BY PipelineAssumption DEF PInv
  <2>2. /\ stage \in [Alerts -> Places] /\ worker \in Queued \cup {None} /\ stops \in 0..MaxStops
        /\ queue \in Seq(Queued)
    BY <2>1 DEF TypeOK, Places
  <2> QED
    BY <2>1, <2>2
<1>3. /\ stage' \in [Alerts -> Places]
      /\ \A b \in Alerts : stage'[b] = IF b = worker THEN "lost" ELSE stage[b]
  BY <1>1, <1>2, PipelineAssumption DEF Alerts, Places
<1>4. TypeOK'
  <2>1. TypeOK /\ MaxStops \in Nat
    BY PipelineAssumption DEF PInv
  <2>2. stops < MaxStops /\ stops \in Nat /\ MaxStops \in Nat /\ stops' = stops + 1
    BY <1>1, <1>2, <2>1
  <2>3. stops' \in 0..MaxStops
    BY <2>2
  <2> QED
    BY <1>1, <1>3, <2>1, <2>3 DEF TypeOK, Places
<1>5. \A b \in Queued : stage[b] \in InProcess <=> worker = b
  BY DEF PInv, StopLosesOne
<1>6. Waiting' = Waiting /\ Lost' \subseteq Lost \cup {worker}
  BY <1>3, <1>5 DEF Waiting, Lost, Alerts, InProcess
<1>7. Cardinality(Lost') <= stops'
  <2>1. IsFiniteSet(Lost \cup {worker}) /\ Cardinality(Lost \cup {worker}) <= Cardinality(Lost) + 1
    <3>1. Cardinality(Lost \cup {worker}) = IF worker \in Lost THEN Cardinality(Lost)
                                           ELSE Cardinality(Lost) + 1
      BY AlertsFinite, FS_AddElement
    <3>2. Cardinality(Lost) \in Nat /\ IsFiniteSet(Lost \cup {worker})
      BY AlertsFinite, FS_AddElement
    <3> QED
      BY <3>1, <3>2
  <2>2. Cardinality(Lost') <= Cardinality(Lost \cup {worker})
    BY <1>6, <2>1, FS_Subset
  <2>3. IsFiniteSet(Lost') /\ Cardinality(Lost') \in Nat /\ Cardinality(Lost \cup {worker}) \in Nat
    BY <1>6, <2>1, FS_Subset, FS_CardinalityType
  <2>4. Cardinality(Lost) <= stops
    BY DEF PInv, StopLosesOne, Lost
  <2> QED
    BY <1>1, <1>2, <2>1, <2>2, <2>3, <2>4, AlertsFinite
<1>8. StopLosesOne'
  <2>1. \A b \in Queued : /\ stage'[b] = "queued" <=> Contains(queue', b)
                          /\ stage'[b] \in InProcess <=> worker' = b
    BY <1>1, <1>3, <1>5, PipelineAssumption DEF PInv, StopLosesOne, Alerts, InProcess
  <2>2. Len(queue') = Cardinality(Waiting')
    BY <1>1, <1>6 DEF PInv, StopLosesOne, Waiting
  <2> QED
    BY <1>7, <2>1, <2>2 DEF StopLosesOne, Waiting, Lost
<1>9. NoRepeats'
  BY <1>1 DEF PInv, NoRepeats
<1>10. WaysApart'
  BY <1>2, <1>3, PipelineAssumption DEF PInv, WaysApart, Alerts
<1>11. Charged'
  BY <1>1, <1>3, CasesStay DEF PInv, Charged, Untried
<1> QED
  BY <1>4, <1>8, <1>9, <1>10, <1>11 DEF PInv, Charged

LEMMA CallBatchKeeps ==
  ASSUME PInv, CallBatch
  PROVE  PInv'
<1>1. /\ stage' = [a \in Alerts |-> IF a \in Batch THEN "awaiting slot" ELSE stage[a]]
      /\ UNCHANGED <<queue, running, worker, stops, triaged, attempts, cases, late, caseId, tier>>
  BY DEF CallBatch, caseVars, managerVars
<1>2. \A b \in Batch : stage[b] = "new"
  BY DEF CallBatch, PInv, WaysApart
<1>3. TypeOK'
  BY <1>1 DEF PInv, TypeOK
<1>4. /\ \A b \in Queued : stage'[b] = stage[b]
      /\ \A b \in Batch : stage'[b] = "awaiting slot"
  BY <1>1, PipelineAssumption DEF Alerts
<1>5. Waiting' = Waiting /\ Lost' = Lost
  BY <1>2, <1>4 DEF Waiting, Lost, Alerts
<1>6. StopLosesOne'
  BY <1>1, <1>4, <1>5 DEF PInv, StopLosesOne, Waiting, Lost
<1>7. NoRepeats' /\ WaysApart'
  BY <1>1, <1>4 DEF PInv, NoRepeats, WaysApart
<1>8. Charged'
  BY <1>1, <1>2, CasesStay DEF PInv, Charged, Untried, Alerts
<1> QED
  BY <1>3, <1>6, <1>7, <1>8 DEF PInv, Charged

LEMMA SlotKeeps ==
  ASSUME PInv, NEW a \in Alerts, Slot(a)
  PROVE  PInv'
<1>1. /\ stage[a] = "awaiting slot" /\ stage' = [stage EXCEPT ![a] = "detection"]
      /\ UNCHANGED <<queue, running, worker, stops, triaged, attempts, cases, late, caseId, tier>>
  BY DEF Slot, caseVars, managerVars
<1>2. /\ stage' \in [Alerts -> Places] /\ stage'[a] = "detection"
      /\ \A b \in Alerts \ {a} : stage'[b] = stage[b]
  BY <1>1 DEF PInv, TypeOK, Places, InProcess
<1>3. a \notin Queued
  BY <1>1 DEF PInv, WaysApart
<1>4. TypeOK'
  BY <1>1, <1>2 DEF PInv, TypeOK, Places
<1>5. Waiting' = Waiting /\ Lost' = Lost
  BY <1>1, <1>2, <1>3 DEF Waiting, Lost, Alerts
<1>6. \A b \in Queued : stage'[b] = stage[b]
  BY <1>2, <1>3 DEF Alerts
<1>7. StopLosesOne'
  BY <1>1, <1>5, <1>6 DEF PInv, StopLosesOne, Waiting, Lost
<1>8. NoRepeats' /\ WaysApart'
  BY <1>1, <1>2, <1>6 DEF PInv, NoRepeats, WaysApart, Alerts
<1>9. Charged'
  BY <1>1, <1>2, CasesStay DEF PInv, Charged, Untried
<1> QED
  BY <1>4, <1>7, <1>8, <1>9 DEF PInv, Charged

(***************************************************************************)
(* process_alert.                                                          *)
(***************************************************************************)
Moved(a, next) ==
  /\ stage' \in [Alerts -> Places] /\ stage'[a] = next
  /\ \A b \in Alerts \ {a} : stage'[b] = stage[b]
  /\ worker' \in Queued \cup {None} /\ UNCHANGED <<queue, running, stops>>

LEMMA ProceedKeeps ==
  ASSUME TypeOK, Placed, NEW a \in Alerts, stage[a] \in InProcess,
         NEW next \in InProcess \cup {"finished"}, Proceed(a, next)
  PROVE  Moved(a, next) /\ Placed'
<1>1. /\ stage' = [stage EXCEPT ![a] = next]
      /\ worker' = IF next = "finished" /\ worker = a THEN None ELSE worker
      /\ UNCHANGED <<queue, running, stops>>
  BY DEF Proceed
<1>2. stage \in [Alerts -> Places] /\ worker \in Queued \cup {None}
  BY DEF TypeOK, Places
<1>3. /\ stage' \in [Alerts -> Places] /\ stage'[a] = next
      /\ \A b \in Alerts \ {a} : stage'[b] = stage[b]
  BY <1>1, <1>2 DEF Places
<1>4. Moved(a, next)
  BY <1>1, <1>2, <1>3 DEF Moved
<1>5. next \notin {"queued", "lost", "new", "awaiting slot"} /\ stage[a] \notin {"queued", "lost", "new"}
  BY DEF InProcess
<1>6. Waiting' = Waiting /\ Lost' = Lost
  BY <1>3, <1>5 DEF Waiting, Lost, Alerts
<1>7. ASSUME NEW b \in Queued
      PROVE  stage'[b] \in InProcess <=> worker' = b
  <2>1. b \in Alerts /\ b # None /\ (stage[b] \in InProcess <=> worker = b)
    BY PipelineAssumption DEF Placed, StopLosesOne, Alerts
  <2>2. CASE b = a
    BY <1>1, <1>3, <2>1, <2>2 DEF InProcess
  <2>3. CASE b # a
    BY <1>1, <1>3, <2>1, <2>3
  <2> QED
    BY <2>2, <2>3
<1>8. StopLosesOne'
  <2>1. \A b \in Queued : stage'[b] = "queued" <=> stage[b] = "queued"
    BY <1>3, <1>5 DEF Alerts
  <2>2. /\ \A b \in Queued : stage'[b] = "queued" <=> Contains(queue', b)
        /\ Len(queue') = Cardinality(Waiting') /\ Cardinality(Lost') <= stops'
    BY <1>1, <1>6, <2>1 DEF Placed, StopLosesOne, Waiting, Lost
  <2> QED
    BY <1>7, <2>2 DEF StopLosesOne, Waiting, Lost
<1>9. NoRepeats'
  BY <1>1 DEF Placed, NoRepeats
<1>10. WaysApart'
  BY <1>3, <1>5 DEF Placed, WaysApart, Alerts
<1> QED
  BY <1>4, <1>8, <1>9, <1>10 DEF Placed

LEMMA DetectKeeps ==
  ASSUME PInv, NEW a \in Alerts, Detect(a)
  PROVE  PInv'
<1>1. /\ stage[a] = "detection" /\ Proceed(a, "triage")
      /\ UNCHANGED <<triaged, attempts, cases, late, caseId, tier>>
  BY DEF Detect, caseVars
<1>2. Moved(a, "triage") /\ Placed'
  BY <1>1, ProceedKeeps DEF PInv, Placed, InProcess
<1>3. TypeOK'
  BY <1>1, <1>2 DEF PInv, TypeOK, Moved, Places
<1>4. Charged'
  BY <1>1, <1>2, CasesStay DEF PInv, Charged, Untried, Moved
<1> QED
  BY <1>2, <1>3, <1>4 DEF PInv, Placed, Charged

LEMMA TriageKeeps ==
  ASSUME PInv, NEW a \in Alerts, Triage(a)
  PROVE  PInv'
<1>1. /\ stage[a] = "triage" /\ Proceed(a, "enrichment")
      /\ UNCHANGED <<attempts, cases, late, caseId, tier>>
  BY DEF Triage, caseVars
<1>2. PICK t \in Triaged : triaged' = [triaged EXCEPT ![a] = t]
  <2>1. ASSUME NEW v \in Verdicts, NEW p \in BOOLEAN
        PROVE  Result(v.severity, v.confidence, p) \in Triaged
    BY PipelineAssumption DEF Result, Triaged
  <2>2. Result("medium", "below 0.7", FALSE) \in Triaged
    <3>1. 3 \in DOMAIN Ranked /\ Ranked[3] = "medium"
      BY DEF Ranked
    <3>2. "medium" \in Severities
      BY <3>1 DEF Severities
    <3> QED
      BY <3>2 DEF Result, Triaged, Confidences
  <2> QED
    BY <2>1, <2>2 DEF Triage
<1>3. Moved(a, "enrichment") /\ Placed'
  BY <1>1, ProceedKeeps DEF PInv, Placed, InProcess
<1>4. /\ triaged' \in [Alerts -> {None} \cup Triaged]
      /\ \A b \in Alerts \ {a} : triaged'[b] = triaged[b]
  BY <1>2 DEF PInv, TypeOK
<1>5. TypeOK'
  BY <1>1, <1>3, <1>4 DEF PInv, TypeOK, Moved, Places
<1>6. attempts[a] = 0
  BY <1>1 DEF PInv, Untried
<1>7. Untried'
  BY <1>1, <1>3, <1>4, <1>6 DEF PInv, Untried, ShouldCreateCase, Moved
<1>8. CasesBounded'
  BY <1>1, <1>4, <1>6 DEF PInv, CasesBounded
<1> QED
  BY <1>3, <1>5, <1>7, <1>8 DEF PInv, Placed

LEMMA AfterCaseIs == \A a \in Alerts : AfterCase(a) \in {"response", "finished"}
BY DEF AfterCase

LEMMA EnrichKeeps ==
  ASSUME PInv, NEW a \in Alerts, Enrich(a)
  PROVE  PInv'
<1> DEFINE next == IF ShouldCreateCase(a) THEN "case" ELSE AfterCase(a)
<1>1. /\ stage[a] = "enrichment" /\ Proceed(a, next)
      /\ UNCHANGED <<triaged, attempts, cases, late, caseId, tier>>
  BY DEF Enrich, caseVars
<1>2. next \in {"case", "response", "finished"} /\ (next = "case" => ShouldCreateCase(a))
  BY AfterCaseIs
<1> HIDE DEF next
<1>3. Moved(a, next) /\ Placed'
  BY <1>1, <1>2, ProceedKeeps DEF PInv, Placed, InProcess
<1>4. TypeOK'
  BY <1>1, <1>3 DEF PInv, TypeOK, Moved, Places
<1>5. attempts[a] = 0 /\ 0 < MaxAttempts
  <2>1. stage[a] = "enrichment" /\ Untried
    BY <1>1 DEF PInv
  <2>2. attempts[a] = 0
    BY <2>1 DEF Untried
  <2>3. MaxAttempts \in Nat \ {0}
    BY PipelineAssumption
  <2> QED
    BY <2>2, <2>3
<1>6. Charged'
  BY <1>1, <1>2, <1>3, <1>5, CasesStay DEF PInv, Charged, Untried, Moved
<1> QED
  BY <1>3, <1>4, <1>6 DEF PInv, Placed, Charged

\* One attempt adds at most one case, now or later.
LEMMA PostCaseKeeps ==
  ASSUME PInv, NEW a \in Alerts, PostCase(a)
  PROVE  PInv'
<1> DEFINE again == IF attempts[a] + 1 = MaxAttempts THEN AfterCase(a) ELSE "case"
<1>1. /\ stage[a] = "case" /\ attempts' = [attempts EXCEPT ![a] = @ + 1]
      /\ UNCHANGED <<triaged, tier>>
  BY DEF PostCase
<1>2. /\ attempts \in [Alerts -> Nat] /\ cases \in [Alerts -> Nat] /\ late \in [Alerts -> Nat]
      /\ caseId \in [Alerts -> BOOLEAN] /\ MaxAttempts \in Nat
  BY PipelineAssumption DEF PInv, TypeOK
<1>3. /\ attempts[a] \in Nat /\ cases[a] \in Nat /\ late[a] \in Nat
      /\ cases[a] + late[a] <= attempts[a] /\ attempts[a] < MaxAttempts /\ ShouldCreateCase(a)
      /\ (caseId[a] => cases[a] > 0)
  <2>1. attempts[a] \in Nat /\ cases[a] \in Nat /\ late[a] \in Nat
    BY <1>2
  <2>2. cases[a] + late[a] <= attempts[a] /\ (caseId[a] => cases[a] > 0)
    BY DEF PInv, CasesBounded
  <2>3. ShouldCreateCase(a) /\ attempts[a] < MaxAttempts
    BY <1>1 DEF PInv, Untried
  <2> QED
    BY <2>1, <2>2, <2>3
<1>4. PICK next \in {"case", "response", "finished"} :
        Proceed(a, next) /\ (next = "case" => attempts[a] + 1 # MaxAttempts)
  <2>1. again \in {"case", "response", "finished"} /\ (again = "case" => attempts[a] + 1 # MaxAttempts)
    BY AfterCaseIs
  <2>2. AfterCase(a) \in {"response", "finished"}
    BY AfterCaseIs
  <2>3. Proceed(a, AfterCase(a)) \/ Proceed(a, again)
    BY DEF PostCase, Retry
  <2> QED
    BY <2>1, <2>2, <2>3
<1>5. Moved(a, next) /\ Placed'
  BY <1>1, <1>4, ProceedKeeps DEF PInv, Placed, InProcess
<1>6. /\ attempts' \in [Alerts -> Nat] /\ attempts'[a] = attempts[a] + 1
      /\ \A b \in Alerts \ {a} : attempts'[b] = attempts[b]
  BY <1>1, <1>2, <1>3
<1>7. /\ cases' \in [Alerts -> Nat] /\ late' \in [Alerts -> Nat] /\ caseId' \in [Alerts -> BOOLEAN]
      /\ \A b \in Alerts \ {a} : cases'[b] = cases[b] /\ late'[b] = late[b] /\ caseId'[b] = caseId[b]
      /\ cases'[a] + late'[a] <= attempts[a] + 1 /\ (caseId'[a] => cases'[a] > 0)
  <2>1. CASE cases' = [cases EXCEPT ![a] = @ + 1] /\ caseId' = [caseId EXCEPT ![a] = TRUE]
             /\ UNCHANGED late
    BY <1>2, <1>3, <2>1
  <2>2. CASE UNCHANGED <<cases, late, caseId>>
    BY <1>2, <1>3, <2>2
  <2>3. CASE cases' = [cases EXCEPT ![a] = @ + 1] /\ UNCHANGED <<late, caseId>>
    BY <1>2, <1>3, <2>3
  <2>4. CASE late' = [late EXCEPT ![a] = @ + 1] /\ UNCHANGED <<cases, caseId>>
    BY <1>2, <1>3, <2>4
  <2> QED
    BY <2>1, <2>2, <2>3, <2>4 DEF PostCase
<1>8. TypeOK'
  BY <1>1, <1>5, <1>6, <1>7 DEF PInv, TypeOK, Moved, Places
<1>9. Untried'
  <2> SUFFICES ASSUME NEW b \in Alerts
               PROVE  /\ stage'[b] \in {"new", "queued", "awaiting slot", "detection", "triage",
                                        "enrichment"} => attempts'[b] = 0
                      /\ stage'[b] = "case" => ShouldCreateCase(b) /\ attempts'[b] < MaxAttempts
    BY <1>1 DEF Untried, ShouldCreateCase
  <2>1. CASE b = a
    <3>1. stage'[a] = next /\ (next = "case" => attempts[a] + 1 < MaxAttempts)
      BY <1>2, <1>3, <1>4, <1>5 DEF Moved
    <3> QED
      BY <1>3, <1>4, <1>6, <2>1, <3>1
  <2>2. CASE b # a
    BY <1>5, <1>6, <2>2 DEF PInv, Untried, Moved
  <2> QED
    BY <2>1, <2>2
<1>10. CasesBounded'
  <2> SUFFICES ASSUME NEW b \in Alerts
               PROVE  /\ cases'[b] + late'[b] <= attempts'[b] /\ attempts'[b] <= MaxAttempts
                      /\ caseId'[b] => cases'[b] > 0
                      /\ attempts'[b] > 0 => ShouldCreateCase(b)
    BY <1>1 DEF CasesBounded, ShouldCreateCase
  <2>1. CASE b = a
    BY <1>2, <1>3, <1>6, <1>7, <2>1
  <2>2. CASE b # a
    BY <1>6, <1>7, <2>2 DEF PInv, CasesBounded, ShouldCreateCase
  <2> QED
    BY <2>1, <2>2
<1> QED
  BY <1>5, <1>8, <1>9, <1>10 DEF PInv, Placed

LEMMA LateCaseKeeps ==
  ASSUME PInv, NEW a \in Alerts, LateCase(a)
  PROVE  PInv'
<1>1. /\ late[a] > 0 /\ late' = [late EXCEPT ![a] = @ - 1] /\ cases' = [cases EXCEPT ![a] = @ + 1]
      /\ UNCHANGED <<queue, running, worker, stops, stage, triaged, attempts, caseId, tier>>
  BY DEF LateCase, managerVars
<1>2. /\ cases \in [Alerts -> Nat] /\ late \in [Alerts -> Nat]
      /\ late[a] \in Nat /\ cases[a] \in Nat /\ attempts[a] \in Nat
  BY DEF PInv, TypeOK
<1>3. /\ cases' \in [Alerts -> Nat] /\ late' \in [Alerts -> Nat]
      /\ cases'[a] = cases[a] + 1 /\ late'[a] = late[a] - 1
      /\ \A b \in Alerts \ {a} : cases'[b] = cases[b] /\ late'[b] = late[b]
  BY <1>1, <1>2
<1>4. TypeOK'
  BY <1>1, <1>3 DEF PInv, TypeOK
<1>5. Placed' /\ Untried'
  BY <1>1 DEF PInv, Placed, StopLosesOne, NoRepeats, WaysApart, Untried, ShouldCreateCase
<1>6. CasesBounded'
  <2> SUFFICES ASSUME NEW b \in Alerts
               PROVE  cases'[b] + late'[b] <= attempts[b] /\ (caseId[b] => cases'[b] > 0)
    BY <1>1 DEF PInv, CasesBounded
  <2>1. cases[b] + late[b] <= attempts[b] /\ (caseId[b] => cases[b] > 0)
    BY DEF PInv, CasesBounded
  <2>2. CASE b = a
    BY <1>1, <1>2, <1>3, <2>1, <2>2
  <2>3. CASE b # a
    BY <1>3, <2>1, <2>3
  <2> QED
    BY <2>2, <2>3
<1> QED
  BY <1>4, <1>5, <1>6 DEF PInv, Placed

LEMMA RespondKeeps ==
  ASSUME PInv, NEW a \in Alerts, Respond(a)
  PROVE  PInv'
<1>1. /\ stage[a] = "response" /\ Proceed(a, "finished")
      /\ tier' = [tier EXCEPT ![a] = Tier(triaged[a])]
      /\ UNCHANGED <<triaged, attempts, cases, late, caseId>>
  BY DEF Respond, caseVars
<1>2. Moved(a, "finished") /\ Placed'
  BY <1>1, ProceedKeeps DEF PInv, Placed, InProcess
<1>3. Tier(triaged[a]) \in {"recommend_only", "auto_case", "auto_execute"}
  BY DEF Tier
<1>4. tier' \in [Alerts -> {None, "recommend_only", "auto_case", "auto_execute"}]
  BY <1>1, <1>3 DEF PInv, TypeOK
<1>5. TypeOK'
  BY <1>1, <1>2, <1>4 DEF PInv, TypeOK, Moved, Places
<1>6. Charged'
  BY <1>1, <1>2, CasesStay DEF PInv, Charged, Untried, Moved
<1> QED
  BY <1>2, <1>5, <1>6 DEF PInv, Placed, Charged

\* The strengthened invariant is inductive.
THEOREM PipelineInductive ==
  ASSUME PInv, [Next]_vars
  PROVE  PInv'
<1>1. CASE UNCHANGED vars
  BY <1>1 DEF PInv, TypeOK, StopLosesOne, NoRepeats, WaysApart, Untried, CasesBounded,
              ShouldCreateCase, vars, managerVars, caseVars
<1>2. ASSUME NEW a \in Alerts, Enqueue(a) \/ Slot(a) \/ Process(a) \/ LateCase(a)
      PROVE  PInv'
  BY <1>2, EnqueueKeeps, SlotKeeps, DetectKeeps, TriageKeeps, EnrichKeeps, PostCaseKeeps,
     RespondKeeps, LateCaseKeeps DEF Process
<1> QED
  BY <1>1, <1>2, StartKeeps, StopKeeps, TakeKeeps, CallBatchKeeps DEF Next

LEMMA PipelineInvariant == Spec => []PInv
<1>1. PInv /\ [Next]_vars => PInv'
  BY PipelineInductive
<1> QED
  BY PipelineStarts, <1>1, PTL DEF Spec

\* However answers are lost and requests late, an alert never has more cases than
\* attempts, nor more attempts than the client is given.
THEOREM CasesBoundedHolds == Spec => []CasesBounded
<1>1. PInv => CasesBounded
  BY DEF PInv
<1> QED
  BY PipelineInvariant, <1>1, PTL

\* Every alert is in one place, and each stop loses at most the one in hand.
THEOREM AlertsAccountedHolds == Spec => []AlertsAccounted
<1>1. PInv => AlertsAccounted
  BY DEF PInv, AlertsAccounted
<1> QED
  BY PipelineInvariant, <1>1, PTL
=============================================================================
