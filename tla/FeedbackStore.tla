----------------------------- MODULE FeedbackStore -----------------------------
(***************************************************************************)
(* The feedback service: alert-triage persists each analysis of an alert   *)
(* without waiting for it, analysts send feedback. Requests are READ       *)
(* COMMITTED transactions of a select followed by the writes and the       *)
(* commit, so two steps each.                                              *)
(***************************************************************************)
EXTENDS Naturals, FiniteSets

CONSTANTS
  Alerts,       \* alert ids
  Analyses,     \* analyses by alert-triage
  AnalysisOf,   \* AnalysisOf[n]: the alert of an analysis
  WithMl,       \* the analyses that had an answer of the ML service
  Submissions,  \* feedback requests of analysts
  AboutAlert,   \* AboutAlert[s]: the alert in the path of the request
  Labelled,     \* the submissions with a true_label
  None

\* The parts of a row by the analysis they come from: raw_alert_json and
\* triage_result_json, the ai_ columns, the ml_ columns.
Row == [json : Analyses, ai : Analyses, ml : Analyses \cup {None}, count : Nat]

ASSUME FeedbackAssumption ==
  /\ IsFiniteSet(Submissions)
  /\ AnalysisOf \in [Analyses -> Alerts] /\ AboutAlert \in [Submissions -> Alerts]
  /\ WithMl \subseteq Analyses /\ Labelled \subseteq Submissions
  /\ None \notin Analyses /\ None \notin Row

VARIABLES
  rows,      \* the table alerts: a row or None for each alert
  feedback,  \* the table feedback: the submissions stored
  persist,   \* the progress of each analysis' POST /alerts
  submit,    \* the progress of each POST /feedback/{alert_id}
  readCount  \* feedback_count as a submission has read it

storeVars == <<rows, feedback, persist, submit, readCount>>

MlOf(n) == IF n \in WithMl THEN n ELSE None

StoreInit ==
  /\ rows = [a \in Alerts |-> None] /\ feedback = {}
  /\ persist = [n \in Analyses |-> "analysing"]
  /\ submit = [s \in Submissions |-> "open"]
  /\ readCount = [s \in Submissions |-> 0]

\* _persist_alert: the request does not get through; the task logs it and ends.
PersistLost(n) ==
  /\ persist[n] = "analysing"
  /\ persist' = [persist EXCEPT ![n] = "lost"]
  /\ UNCHANGED <<rows, feedback, submit, readCount>>

\* store_alert looks for the row.
PersistSelect(n) ==
  /\ persist[n] = "analysing"
  /\ persist' = [persist EXCEPT ![n] = IF rows[AnalysisOf[n]] = None THEN "insert" ELSE "update"]
  /\ UNCHANGED <<rows, feedback, submit, readCount>>

\* The insert, refused if another request has stored the alert by now.
PersistInsert(n) ==
  /\ persist[n] = "insert"
  /\ IF rows[AnalysisOf[n]] = None
     THEN /\ rows' = [rows EXCEPT ![AnalysisOf[n]] =
                        [json |-> n, ai |-> n, ml |-> MlOf(n), count |-> 0]]
          /\ persist' = [persist EXCEPT ![n] = "created"]
     ELSE /\ persist' = [persist EXCEPT ![n] = "refused"]
          /\ UNCHANGED rows
  /\ UNCHANGED <<feedback, submit, readCount>>

\* Mutant: the update writes every column of the row it builds, the counter too.
PersistUpdateMutant(n) ==
  /\ persist[n] = "update"
  /\ rows' = [rows EXCEPT ![AnalysisOf[n]] =
                [json |-> @.json, ai |-> n, ml |-> MlOf(n), count |-> 0]]
  /\ persist' = [persist EXCEPT ![n] = "updated"]
  /\ UNCHANGED <<feedback, submit, readCount>>

\* The update sets the attributes named in the request: raw_alert and
\* triage_result are no columns, and what is missing is left as it was.
Updated(row, n) ==
  [json |-> row.json, ai |-> n, ml |-> IF n \in WithMl THEN n ELSE row.ml, count |-> row.count]

PersistUpdate(n) ==
  /\ persist[n] = "update"
  /\ rows' = [rows EXCEPT ![AnalysisOf[n]] = Updated(rows[AnalysisOf[n]], n)]
  /\ persist' = [persist EXCEPT ![n] = "updated"]
  /\ UNCHANGED <<feedback, submit, readCount>>

\* store_feedback looks for the alert and answers 404 without it.
SubmitSelect(s) ==
  /\ submit[s] = "open"
  /\ IF rows[AboutAlert[s]] = None
     THEN submit' = [submit EXCEPT ![s] = "not found"] /\ UNCHANGED readCount
     ELSE /\ submit' = [submit EXCEPT ![s] = "writing"]
          /\ readCount' = [readCount EXCEPT ![s] = rows[AboutAlert[s]].count]
  /\ UNCHANGED <<rows, feedback, persist>>

\* The insert and the counter, which is written from the value read before.
SubmitCommit(s) ==
  /\ submit[s] = "writing"
  /\ submit' = [submit EXCEPT ![s] = "stored"]
  /\ feedback' = feedback \cup {s}
  /\ rows' = [rows EXCEPT ![AboutAlert[s]].count = readCount[s] + 1]
  /\ UNCHANGED <<persist, readCount>>

StoreNext ==
  \/ \E n \in Analyses :
       PersistLost(n) \/ PersistSelect(n) \/ PersistInsert(n) \/ PersistUpdate(n)
  \/ \E s \in Submissions : SubmitSelect(s) \/ SubmitCommit(s)

(***************************************************************************)
(* Properties.                                                             *)
(***************************************************************************)

StoreTypeOK ==
  /\ rows \in [Alerts -> {None} \cup Row]
  /\ feedback \subseteq Submissions
  /\ persist \in [Analyses -> {"analysing", "lost", "insert", "update", "created", "refused", "updated"}]
  /\ submit \in [Submissions -> {"open", "not found", "writing", "stored"}]
  /\ readCount \in [Submissions -> Nat]

\* The filter has_feedback of GET /alerts.
HasFeedback(a) == rows[a].count > 0

About(a) == {s \in feedback : AboutAlert[s] = a}

\* GET /alerts?has_feedback goes by feedback_count, which loses updates, but
\* never so that an alert with feedback is found without, or the
\* other way round, and it never counts feedback that is not there.
FilterTruthful ==
  \A a \in Alerts :
    IF rows[a] = None THEN About(a) = {}
    ELSE /\ HasFeedback(a) <=> About(a) # {}
         /\ rows[a].count <= Cardinality(About(a))

\* database.py: feedback_count counts the feedback of an alert.
CounterExact == \A a \in Alerts : rows[a] # None => rows[a].count = Cardinality(About(a))
=============================================================================
