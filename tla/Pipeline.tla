------------------------------- MODULE Pipeline -------------------------------
(***************************************************************************)
(* common/pipeline.py and the retrying client of common/integration.py:    *)
(* alerts from a queue, one at a time by a worker that can be stopped, or   *)
(* by batches with a bounded number at a time, through detection, triage,   *)
(* enrichment, a case in TheHive and a response.                           *)
(***************************************************************************)
EXTENDS Naturals, Sequences, SequencesExt

CONSTANTS
  Queued,      \* the alerts that are enqueued
  Batch,       \* the alerts of one call of batch_process
  Slots,       \* its semaphore
  MaxAttempts, \* max_attempts of async_retry
  Threshold,   \* thehive_threshold
  Verdicts,    \* what the triage service may find: severity, confidence
  MaxStops,    \* bound: calls of stop
  None

Alerts == Queued \cup Batch
Ranked == <<"informational", "low", "medium", "high", "critical">>
Severities == {Ranked[i] : i \in DOMAIN Ranked}
Confidences == {"below 0.7", "below 0.9", "0.9 and above"}

ASSUME PipelineAssumption ==
  /\ IsFiniteSet(Alerts) /\ Queued \cap Batch = {} /\ None \notin Alerts
  /\ Slots \in Nat \ {0} /\ MaxAttempts \in Nat \ {0} /\ MaxStops \in Nat
  /\ Threshold \in Severities
  /\ Verdicts \subseteq [severity : Severities, confidence : Confidences]

VARIABLES
  queue,    \* processing_queue
  running,  \* the worker is to go on
  worker,   \* the alert in its hands, or None
  stops,    \* calls of stop
  stage,    \* how far each alert is
  triaged,  \* the result of the triage stage of an alert, or None
  attempts, \* at POST /api/case for an alert
  cases,    \* the cases TheHive has for it
  late,     \* the requests for it that timed out and may still arrive
  caseId,   \* whether the result names a case
  tier      \* automation_tier in the result, or None

managerVars == <<queue, running, worker, stops>>
caseVars == <<attempts, cases, late, caseId>>
vars == <<managerVars, stage, triaged, caseVars, tier>>

InProcess == {"detection", "triage", "enrichment", "case", "response"}

Init ==
  /\ queue = <<>> /\ running = FALSE /\ worker = None /\ stops = 0
  /\ stage = [a \in Alerts |-> "new"] /\ triaged = [a \in Alerts |-> None]
  /\ attempts = [a \in Alerts |-> 0] /\ cases = [a \in Alerts |-> 0]
  /\ late = [a \in Alerts |-> 0] /\ caseId = [a \in Alerts |-> FALSE]
  /\ tier = [a \in Alerts |-> None]

(***************************************************************************)
(* PipelineManager and batch_process.                                      *)
(***************************************************************************)
Start ==
  /\ ~running /\ running' = TRUE
  /\ UNCHANGED <<queue, worker, stops, stage, triaged, caseVars, tier>>

Enqueue(a) ==
  /\ stage[a] = "new" /\ a \in Queued
  /\ queue' = Append(queue, a) /\ stage' = [stage EXCEPT ![a] = "queued"]
  /\ UNCHANGED <<running, worker, stops, triaged, caseVars, tier>>

Take ==
  /\ running /\ worker = None /\ queue # <<>>
  /\ worker' = Head(queue) /\ queue' = Tail(queue)
  /\ stage' = [stage EXCEPT ![Head(queue)] = "detection"]
  /\ UNCHANGED <<running, stops, triaged, caseVars, tier>>

\* Mutant: the queue is emptied as well.
StopMutant ==
  /\ running /\ stops < MaxStops
  /\ running' = FALSE /\ stops' = stops + 1 /\ worker' = None /\ queue' = <<>>
  /\ stage' = [a \in Alerts |->
                 IF a = worker \/ stage[a] = "queued" THEN "lost" ELSE stage[a]]
  /\ UNCHANGED <<triaged, caseVars, tier>>

\* The worker is cancelled at the await it is in; no handler of process_alert
\* catches that.
Stop ==
  /\ running /\ stops < MaxStops
  /\ running' = FALSE /\ stops' = stops + 1 /\ worker' = None
  /\ stage' = IF worker = None THEN stage ELSE [stage EXCEPT ![worker] = "lost"]
  /\ UNCHANGED <<queue, triaged, caseVars, tier>>

CallBatch ==
  /\ \E a \in Batch : stage[a] = "new"
  /\ stage' = [a \in Alerts |-> IF a \in Batch THEN "awaiting slot" ELSE stage[a]]
  /\ UNCHANGED <<managerVars, triaged, caseVars, tier>>

Slot(a) ==
  /\ stage[a] = "awaiting slot"
  /\ Cardinality({b \in Batch : stage[b] \in InProcess}) < Slots
  /\ stage' = [stage EXCEPT ![a] = "detection"]
  /\ UNCHANGED <<managerVars, triaged, caseVars, tier>>

(***************************************************************************)
(* process_alert. What can go wrong in a stage is caught there.            *)
(***************************************************************************)

\* Gives the alert the next stage, or ends its processing.
Proceed(a, next) ==
  /\ stage' = [stage EXCEPT ![a] = next]
  /\ worker' = IF next = "finished" /\ worker = a THEN None ELSE worker
  /\ UNCHANGED <<queue, running, stops>>

\* _ml_detection_stage: skipped, a prediction, or the fallback's; it informs the
\* triage only.
Detect(a) ==
  /\ stage[a] = "detection" /\ Proceed(a, "triage")
  /\ UNCHANGED <<triaged, caseVars, tier>>

\* The triage stage's own result: it has no is_true_positive, which the response
\* stage takes for false.
Result(s, c, truePositive) == [severity |-> s, confidence |-> c, truePositive |-> FALSE]

\* _triage_stage and llm_fallback.
Triage(a) ==
  /\ stage[a] = "triage" /\ Proceed(a, "enrichment")
  /\ \/ \E v \in Verdicts, truePositive \in BOOLEAN :
          triaged' = [triaged EXCEPT ![a] = Result(v.severity, v.confidence, truePositive)]
     \/ triaged' = [triaged EXCEPT ![a] = Result("medium", "below 0.7", FALSE)]
  /\ UNCHANGED <<caseVars, tier>>

Rank(s) == IF Contains(Ranked, s) THEN SelectInSeq(Ranked, LAMBDA r : r = s) ELSE 3

ShouldCreateCase(a) == Rank(triaged[a].severity) >= Rank(Threshold)

AfterCase(a) == IF triaged[a].severity \in {"critical", "high"} THEN "response" ELSE "finished"

\* _enrichment_stage, which cannot fail either.
Enrich(a) ==
  /\ stage[a] = "enrichment"
  /\ Proceed(a, IF ShouldCreateCase(a) THEN "case" ELSE AfterCase(a))
  /\ UNCHANGED <<triaged, caseVars, tier>>

\* Mutant: the exception of the last attempt is not caught by the stage.
RetryUncaughtMutant(a) == Proceed(a, IF attempts[a] + 1 = MaxAttempts THEN "failed" ELSE "case")

\* Mutant: one attempt too many.
RetryOnceMoreMutant(a) == Proceed(a, IF attempts[a] = MaxAttempts THEN AfterCase(a) ELSE "case")

\* An exception ends the attempt: the next one, or the stage's error.
Retry(a) == Proceed(a, IF attempts[a] + 1 = MaxAttempts THEN AfterCase(a) ELSE "case")

\* One attempt of create_case: answered, refused, its answer lost, or timed out
\* on the way.
PostCase(a) ==
  /\ stage[a] = "case"
  /\ attempts' = [attempts EXCEPT ![a] = @ + 1]
  /\ \/ /\ cases' = [cases EXCEPT ![a] = @ + 1] /\ caseId' = [caseId EXCEPT ![a] = TRUE]
        /\ Proceed(a, AfterCase(a)) /\ UNCHANGED late
     \/ Retry(a) /\ UNCHANGED <<cases, late, caseId>>
     \/ cases' = [cases EXCEPT ![a] = @ + 1] /\ Retry(a) /\ UNCHANGED <<late, caseId>>
     \/ late' = [late EXCEPT ![a] = @ + 1] /\ Retry(a) /\ UNCHANGED <<cases, caseId>>
  /\ UNCHANGED <<triaged, tier>>

LateCase(a) ==
  /\ late[a] > 0
  /\ late' = [late EXCEPT ![a] = @ - 1] /\ cases' = [cases EXCEPT ![a] = @ + 1]
  /\ UNCHANGED <<managerVars, stage, triaged, attempts, caseId, tier>>

\* _response_stage names a tier and actions; nothing carries them out.
Tier(t) ==
  IF t.confidence = "below 0.7" \/ ~t.truePositive THEN "recommend_only"
  ELSE IF t.confidence = "below 0.9" THEN "auto_case" ELSE "auto_execute"

Respond(a) ==
  /\ stage[a] = "response" /\ Proceed(a, "finished")
  /\ tier' = [tier EXCEPT ![a] = Tier(triaged[a])]
  /\ UNCHANGED <<triaged, caseVars>>

Process(a) == Detect(a) \/ Triage(a) \/ Enrich(a) \/ PostCase(a) \/ Respond(a)

Next ==
  \/ Start \/ Stop \/ Take \/ CallBatch
  \/ \E a \in Alerts : Enqueue(a) \/ Slot(a) \/ Process(a) \/ LateCase(a)

\* The event loop runs what is ready; every call of a service has a timeout.
Spec ==
  /\ Init /\ [][Next]_vars
  /\ WF_vars(Take) /\ \A a \in Alerts : WF_vars(Process(a)) /\ WF_vars(Slot(a))

(***************************************************************************)
(* Properties.                                                             *)
(***************************************************************************)

Triaged == [severity : Severities, confidence : Confidences, truePositive : BOOLEAN]

\* Types of the queue, the worker and the alerts' results.
TypeOK ==
  /\ queue \in Seq(Queued) /\ running \in BOOLEAN
  /\ worker \in Queued \cup {None} /\ stops \in 0..MaxStops
  /\ stage \in [Alerts -> InProcess \cup {"new", "queued", "awaiting slot", "finished", "lost"}]
  /\ triaged \in [Alerts -> {None} \cup Triaged]
  /\ attempts \in [Alerts -> Nat] /\ cases \in [Alerts -> Nat] /\ late \in [Alerts -> Nat]
  /\ caseId \in [Alerts -> BOOLEAN]
  /\ tier \in [Alerts -> {None, "recommend_only", "auto_case", "auto_execute"}]

\* Retrying a POST whose answer is lost opens a case twice. There are never more
\* cases than attempts, whenever the requests arrive, an alert has one attempt
\* unless one failed, and a case the result names is there.
CasesBounded ==
  \A a \in Alerts :
    /\ cases[a] + late[a] <= attempts[a] /\ attempts[a] <= MaxAttempts
    /\ caseId[a] => cases[a] > 0
    /\ attempts[a] > 0 => Rank(triaged[a].severity) >= Rank(Threshold)

\* An alert is in one place at a time, and each call of stop loses at most the
\* one in the worker's hands: the others stay in the queue for the next start.
StopLosesOne ==
  /\ \A a \in Queued :
       /\ stage[a] = "queued" <=> Contains(queue, a)
       /\ stage[a] \in InProcess <=> worker = a
  /\ Len(queue) = Cardinality({a \in Queued : stage[a] = "queued"})
  /\ Cardinality({a \in Alerts : stage[a] = "lost"}) <= stops

\* Alerts and cases are accounted for at any moment.
AlertsAccounted == TypeOK /\ StopLosesOne

\* An alert in process is done with although all services fail, or is lost to a stop.
EveryAlertEnds ==
  \A a \in Alerts : stage[a] \in InProcess \cup {"awaiting slot"} ~> stage[a] \in {"finished", "lost"}

\* While the worker is not stopped the queue drains.
QueueDrains == \A a \in Queued : stage[a] = "queued" ~> stage[a] # "queued" \/ ~running

\* Every alert that enters comes out while the worker runs, by whichever way.
AlertsMoveOn == EveryAlertEnds /\ QueueDrains
=============================================================================
