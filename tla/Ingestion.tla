------------------------------ MODULE Ingestion ------------------------------
(***************************************************************************)
(* From Wazuh to an incident: the webhook and the poll of the Wazuh        *)
(* integration, the analysis in alert-triage with its models and the       *)
(* context it reads from the feedback service, the enrichment and the      *)
(* correlation. The services run side by side: a caller that gives up does *)
(* not stop what it called.                                                *)
(*                                                                         *)
(* A delivery is one alert handed to the integration; each leads to at     *)
(* most one analysis, and so deliveries are the Analyses of FeedbackStore. *)
(***************************************************************************)
EXTENDS FeedbackStore, Sequences

CONSTANTS
  LevelOf,      \* LevelOf[a]: the rule level of an alert
  SourceOf,     \* SourceOf[a]: its source address, or None
  Polled,       \* the deliveries of one GET /alerts in order; all others are by webhook
  MinSeverity,  \* min_severity of the webhook
  RagThreshold, \* rag_severity_threshold
  HistoryLimit, \* context_history_limit
  MaxRestarts   \* bound: restarts of alert-triage

ByPoll == {Polled[i] : i \in DOMAIN Polled}

ASSUME IngestionAssumption ==
  /\ LevelOf \in [Alerts -> 0..15] /\ DOMAIN SourceOf = Alerts
  /\ Polled \in Seq(Analyses) /\ \A i, j \in DOMAIN Polled : Polled[i] = Polled[j] => i = j
  /\ MinSeverity \in 0..15 /\ RagThreshold \in 0..15
  /\ HistoryLimit \in Nat /\ MaxRestarts \in Nat

VARIABLES
  caller,     \* each delivery in the integration: where it is, or its answer
  triage,     \* each delivery in alert-triage
  prompt,     \* what the prompt of an analysis in progress is made of
  correlated, \* each delivery in the correlation engine: "none", "asked", "taken", "refused"
  triageRestarts

vars == <<storeVars, caller, triage, prompt, correlated, triageRestarts>>

Waiting == {"triage", "enrich", "correlate"}
\* 400, 500, 200 with and without an incident, an entry in or an omission from the poll's list.
Answers == {"rejected", "failed", "incident", "no incident", "listed", "skipped"}
Analysing == {"ml", "history", "patterns", "primary", "fallback"}

Alert(n) == AnalysisOf[n]
BlankPrompt == [history |-> {}, reviewed |-> {}, answered |-> FALSE]

Init ==
  /\ StoreInit
  /\ caller = [n \in Analyses |-> "idle"] /\ triage = [n \in Analyses |-> "idle"]
  /\ prompt = [n \in Analyses |-> BlankPrompt]
  /\ correlated = [n \in Analyses |-> "none"] /\ triageRestarts = 0

(***************************************************************************)
(* alert-triage: POST /analyze.                                            *)
(***************************************************************************)
TriageOnly == <<storeVars, caller, correlated, triageRestarts>>

\* predict_with_fallback: any of three models, or none (WithMl).
Predict(n) ==
  /\ triage[n] = "ml"
  /\ triage' = [triage EXCEPT ![n] = IF SourceOf[Alert(n)] = None THEN "primary" ELSE "history"]
  /\ UNCHANGED <<prompt, TriageOnly>>

OfSource(n) ==
  {a \in Alerts : rows[a] # None /\ SourceOf[a] = SourceOf[Alert(n)]}

\* The most recent alerts of an address. When a row was created is not
\* modelled: any of them may be the most recent ones.
MostRecent(found, limit) ==
  {h \in SUBSET found : Cardinality(h) = limit \/ (h = found /\ Cardinality(h) < limit)}

\* _get_alert_history, or nothing if the feedback service does not answer.
FetchHistory(n) ==
  /\ triage[n] = "history"
  /\ \E h \in {{}} \cup MostRecent(OfSource(n), HistoryLimit) :
       prompt' = [prompt EXCEPT ![n].history = h]
  /\ triage' = [triage EXCEPT ![n] = "patterns"]
  /\ UNCHANGED TriageOnly

\* The keys of an alert in the answer of GET /alerts that bear on feedback, and
\* those by which context_manager.py recognises an alert that was reviewed.
ListedKeys == {"feedback_count"}
ReviewKeys == {"analyst_verdict", "feedback", "analyst_notes"}

Reviewed(found) == IF ListedKeys \cap ReviewKeys = {} THEN {} ELSE found

\* _get_feedback_patterns
FetchPatterns(n) ==
  /\ triage[n] = "patterns"
  /\ \E answered \in BOOLEAN :
       prompt' = [prompt EXCEPT ![n] =
                    [history |-> prompt[n].history, answered |-> answered,
                     reviewed |-> IF answered THEN Reviewed({a \in OfSource(n) : HasFeedback(a)})
                                  ELSE {}]]
  /\ triage' = [triage EXCEPT ![n] = "primary"]
  /\ UNCHANGED TriageOnly

Finish(n, outcome) ==
  /\ triage' = [triage EXCEPT ![n] = outcome]
  /\ prompt' = [prompt EXCEPT ![n] = BlankPrompt]

\* A model's answer is parsed, or it has none, or none that can be parsed.
AskPrimary(n) ==
  /\ triage[n] = "primary"
  /\ \E parsed \in BOOLEAN :
       IF parsed THEN Finish(n, "done")
       ELSE triage' = [triage EXCEPT ![n] = "fallback"] /\ UNCHANGED prompt
  /\ UNCHANGED TriageOnly

AskFallback(n) ==
  /\ triage[n] = "fallback"
  /\ \E outcome \in {"done", "failed"} : Finish(n, outcome)
  /\ UNCHANGED TriageOnly

\* Mutant: the result is stored before the answer is built ...
PersistEarlyMutant(n) ==
  /\ triage[n] \in Analysing \cup {"done"}
  /\ PersistLost(n) \/ PersistSelect(n) \/ PersistInsert(n) \/ PersistUpdate(n)
  /\ UNCHANGED <<caller, triage, prompt, correlated, triageRestarts>>

\* ... or only while somebody waits for the answer.
PersistAttendedMutant(n) ==
  /\ triage[n] = "done" /\ caller[n] = "triage"
  /\ PersistLost(n) \/ PersistSelect(n) \/ PersistInsert(n) \/ PersistUpdate(n)
  /\ UNCHANGED <<caller, triage, prompt, correlated, triageRestarts>>

\* _persist_alert runs beside the answer and is the first to touch the store.
Persist(n) ==
  /\ triage[n] = "done"
  /\ PersistLost(n) \/ PersistSelect(n) \/ PersistInsert(n) \/ PersistUpdate(n)
  /\ UNCHANGED <<caller, triage, prompt, correlated, triageRestarts>>

\* alert-triage restarts: analyses end without an answer, and those whose
\* result has not been sent to the feedback service yet are forgotten.
RestartTriage ==
  /\ triageRestarts < MaxRestarts /\ triageRestarts' = triageRestarts + 1
  /\ triage' = [n \in Analyses |-> IF triage[n] \in Analysing THEN "failed" ELSE triage[n]]
  /\ prompt' = [n \in Analyses |-> BlankPrompt]
  /\ persist' = [n \in Analyses |->
                   IF triage[n] = "done" /\ persist[n] = "analysing" THEN "lost" ELSE persist[n]]
  /\ UNCHANGED <<rows, feedback, submit, readCount, caller, correlated>>

(***************************************************************************)
(* The Wazuh integration. Each of its requests has a timeout.              *)
(***************************************************************************)
CallerOnly == <<storeVars, prompt, triageRestarts>>

\* The webhook turns down what is below the minimum; the poll takes what it is
\* given, one alert after the other.
Receive(n) ==
  /\ caller[n] = "idle"
  /\ \A i, j \in DOMAIN Polled :
       i < j /\ Polled[j] = n => caller[Polled[i]] \in Answers
  /\ IF n \notin ByPoll /\ LevelOf[Alert(n)] < MinSeverity
     THEN caller' = [caller EXCEPT ![n] = "rejected"] /\ UNCHANGED triage
     ELSE /\ caller' = [caller EXCEPT ![n] = "triage"]
          /\ triage' = [triage EXCEPT ![n] = "ml"]
  /\ UNCHANGED <<correlated, CallerOnly>>

Failed(n) == IF n \in ByPoll THEN "skipped" ELSE "failed"
\* The poll shows its analyses; it correlates nothing.
Judged(n) == IF n \in ByPoll THEN "listed" ELSE "correlate"

\* analyze_alert: the analysis, 503, no connection, or the timeout, at which the
\* analysis may go on.
TriageAnswers(n) ==
  /\ caller[n] = "triage"
  /\ \/ /\ triage[n] = "done"
        /\ caller' = [caller EXCEPT ![n] =
                        IF LevelOf[Alert(n)] >= RagThreshold THEN "enrich" ELSE Judged(n)]
     \/ caller' = [caller EXCEPT ![n] = Failed(n)]
  /\ UNCHANGED <<triage, correlated, CallerOnly>>

\* Mutant: the alert is correlated before it is enriched.
EnrichMutant(n) ==
  /\ caller[n] = "enrich"
  /\ \E next \in {Judged(n), Failed(n)} : caller' = [caller EXCEPT ![n] = next]
  /\ correlated' = [correlated EXCEPT ![n] = IF n \in ByPoll THEN "none" ELSE "asked"]
  /\ UNCHANGED <<triage, CallerOnly>>

\* enrich_with_rag: its failures are no failure, but an answer that is not JSON is.
Enrich(n) ==
  /\ caller[n] = "enrich"
  /\ \E next \in {Judged(n), Failed(n)} : caller' = [caller EXCEPT ![n] = next]
  /\ UNCHANGED <<triage, correlated, CallerOnly>>

\* correlate_alert sends the alert ...
Correlate(n) ==
  /\ caller[n] = "correlate" /\ correlated[n] = "none"
  /\ \E sent \in BOOLEAN :
       /\ correlated' = IF sent THEN [correlated EXCEPT ![n] = "asked"] ELSE correlated
       /\ caller' = IF sent THEN caller ELSE [caller EXCEPT ![n] = "no incident"]
  /\ UNCHANGED <<triage, CallerOnly>>

\* ... the correlation engine takes it or fails, whoever waits for it ...
Engine(n) ==
  /\ correlated[n] = "asked"
  /\ correlated' \in {[correlated EXCEPT ![n] = c] : c \in {"taken", "refused"}}
  /\ UNCHANGED <<caller, triage, CallerOnly>>

\* ... and its incident comes back, or nothing within the timeout.
EngineAnswers(n) ==
  /\ caller[n] = "correlate" /\ correlated[n] # "none"
  /\ \/ correlated[n] = "taken" /\ caller' = [caller EXCEPT ![n] = "incident"]
     \/ caller' = [caller EXCEPT ![n] = "no incident"]
  /\ UNCHANGED <<triage, correlated, CallerOnly>>

(***************************************************************************)
(* The specification.                                                      *)
(***************************************************************************)
Analyse(n) == Predict(n) \/ FetchHistory(n) \/ FetchPatterns(n) \/ AskPrimary(n) \/ AskFallback(n)

Handle(n) == TriageAnswers(n) \/ Enrich(n) \/ Correlate(n) \/ EngineAnswers(n)

Review ==
  /\ \E s \in Submissions : SubmitSelect(s) \/ SubmitCommit(s)
  /\ UNCHANGED <<caller, triage, prompt, correlated, triageRestarts>>

Next ==
  \/ \E n \in Analyses : Receive(n) \/ Analyse(n) \/ Persist(n) \/ Handle(n) \/ Engine(n)
  \/ RestartTriage \/ Review

\* Every await of the analysis, of the background task and of the handler ends,
\* by its timeout if not before. Nothing is assumed of the other services.
Fairness ==
  \A n \in Analyses : WF_vars(Analyse(n)) /\ WF_vars(Persist(n)) /\ WF_vars(Handle(n))

Spec == Init /\ [][Next]_vars /\ Fairness

(***************************************************************************)
(* Properties.                                                             *)
(***************************************************************************)

\* Types of the deliveries' progress in the four services.
TypeOK ==
  /\ StoreTypeOK
  /\ caller \in [Analyses -> {"idle"} \cup Waiting \cup Answers]
  /\ triage \in [Analyses -> {"idle", "done", "failed"} \cup Analysing]
  /\ prompt \in [Analyses -> [history : SUBSET Alerts, reviewed : SUBSET Alerts,
                              answered : BOOLEAN]]
  /\ correlated \in [Analyses -> {"none", "asked", "taken", "refused"}]
  /\ triageRestarts \in 0..MaxRestarts

\* A delivery answered with an error has left nothing in the incidents, and never
\* will: it can be sent again without being counted twice. Correlation is the
\* last step that can fail, and its own failures answer 200.
ErrorsLeaveNoTrace ==
  \A n \in Analyses :
    caller[n] \in {"rejected", "failed", "listed", "skipped"} => correlated[n] = "none"

\* Nothing reaches the incidents, and with them the automatic defense, that was
\* not judged by a model or is below the webhook's minimum, whatever restarts
\* and whoever gives up.
CorrelatedWereJudged ==
  \A n \in Analyses :
    correlated[n] # "none" => triage[n] = "done" /\ LevelOf[Alert(n)] >= MinSeverity

\* What correlation has is what was judged, is severe enough, and was answered.
CorrelationEarned == TypeOK /\ ErrorsLeaveNoTrace /\ CorrelatedWereJudged

\* No analysis reads its own result as history: an alert is in its own prompt only
\* if another delivery of it was analysed before.
NoEcho ==
  \A n \in Analyses :
    Alert(n) \in prompt[n].history =>
      \E m \in Analyses \ {n} : Alert(m) = Alert(n) /\ persist[m] = "created"

\* What a model has judged is in the feedback store in the end, even if the caller
\* has given up, unless the one attempt to send it is lost.
JudgedIsKept ==
  \A n \in Analyses : triage[n] = "done" ~> rows[Alert(n)] # None \/ persist[n] = "lost"

\* context_manager.py: _get_feedback_patterns is to "Fetch analyst feedback for
\* alerts from source_ip and summarise the false-positive rate": an answered
\* request tells the model of the reviewed alerts.
FeedbackInforms ==
  [][\A n \in Analyses :
       triage[n] = "patterns" /\ triage'[n] = "primary" /\ prompt'[n].answered
         /\ (\E a \in OfSource(n) : HasFeedback(a)) => prompt'[n].reviewed # {}]_vars
=============================================================================
