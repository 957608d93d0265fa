---------------------------- MODULE FeedbackProofs ----------------------------
(***************************************************************************)
(* The feedback service and the two that share its tables: what a step of  *)
(* the service preserves, whatever runs beside it, then Ingestion, then    *)
(* Retraining, for any alerts, analyses, submissions, models and failures. *)
(*                                                                         *)
(* The counter of an alert loses updates, so it cannot be shown to be      *)
(* exact; what it was read as, plus one, is still never above the number   *)
(* of submissions stored once the reader's own is (ReadBelow).             *)
(***************************************************************************)
EXTENDS Ingestion, Retraining, FiniteSetTheorems, SequenceTheorems, TLAPS

\* A row is there from the commit of its first analysis on.
RowsCreated ==
  \A a \in Alerts : rows[a] # None =>
    \E n \in Analyses : AnalysisOf[n] = a /\ persist[n] = "created"

\* A submission is written or stored only for an alert with a row.
SubmittedToRows ==
  \A s \in Submissions :
    /\ s \in feedback <=> submit[s] = "stored"
    /\ submit[s] \in {"writing", "stored"} => rows[AboutAlert[s]] # None

ReadBelow ==
  \A s \in Submissions : submit[s] = "writing" =>
    readCount[s] <= Cardinality(About(AboutAlert[s]))

\* An update has found a row.
UpdatesFindRows ==
  \A n \in Analyses : persist[n] \in {"update", "updated"} => rows[AnalysisOf[n]] # None

StoreInv ==
  /\ StoreTypeOK /\ RowsCreated /\ SubmittedToRows /\ ReadBelow /\ UpdatesFindRows
  /\ FilterTruthful

\* Counters are finite: an alert has finitely many submissions.
LEMMA AboutFinite ==
  ASSUME feedback \subseteq Submissions, NEW a
  PROVE  /\ IsFiniteSet(About(a)) /\ Cardinality(About(a)) \in Nat
         /\ Cardinality(About(a)) = 0 <=> About(a) = {}
<1>1. About(a) \subseteq Submissions
  BY DEF About
<1>2. IsFiniteSet(About(a))
  BY <1>1, FeedbackAssumption, FS_Subset
<1> QED
  BY <1>2, FS_CardinalityType, FS_EmptySet

LEMMA StoreStarts == StoreInit => StoreInv
<1> SUFFICES ASSUME StoreInit PROVE StoreInv
  OBVIOUS
<1> USE DEF StoreInit
<1>1. StoreTypeOK
  BY DEF StoreTypeOK
<1>2. RowsCreated /\ UpdatesFindRows /\ SubmittedToRows /\ ReadBelow
  BY FeedbackAssumption DEF RowsCreated, UpdatesFindRows, SubmittedToRows, ReadBelow
<1>3. FilterTruthful
  BY DEF FilterTruthful, About
<1> QED
  BY <1>1, <1>2, <1>3 DEF StoreInv

\* Analyses that are given up, and any step that leaves the tables alone.
LEMMA StoreForgets ==
  ASSUME StoreInv, UNCHANGED <<rows, feedback, submit, readCount>>,
         persist' \in [Analyses -> {"analysing", "lost", "insert", "update", "created",
                                    "refused", "updated"}],
         \A n \in Analyses : persist'[n] = persist[n]
                               \/ (persist[n] = "analysing" /\ persist'[n] = "lost")
  PROVE  StoreInv'
<1>1. StoreTypeOK'
  BY DEF StoreInv, StoreTypeOK
<1>2. RowsCreated'
  BY DEF StoreInv, RowsCreated
<1>3. SubmittedToRows' /\ UpdatesFindRows'
  BY FeedbackAssumption DEF StoreInv, SubmittedToRows, UpdatesFindRows
<1>4. \A a : About(a)' = About(a)
  BY DEF About
<1>5. ReadBelow' /\ FilterTruthful'
  BY <1>4 DEF StoreInv, ReadBelow, FilterTruthful, HasFeedback
<1> QED
  BY <1>1, <1>2, <1>3, <1>5 DEF StoreInv

LEMMA StoreStutters ==
  ASSUME StoreInv, UNCHANGED storeVars
  PROVE  StoreInv'
<1>1. persist' \in [Analyses -> {"analysing", "lost", "insert", "update", "created",
                                 "refused", "updated"}]
  BY DEF StoreInv, StoreTypeOK, storeVars
<1> QED
  BY <1>1, StoreForgets DEF storeVars

LEMMA SelectKeeps ==
  ASSUME StoreInv, NEW n \in Analyses, PersistLost(n) \/ PersistSelect(n)
  PROVE  StoreInv'
<1>1. CASE PersistLost(n)
  <2>1. persist' \in [Analyses -> {"analysing", "lost", "insert", "update", "created",
                                   "refused", "updated"}]
    BY <1>1 DEF StoreInv, StoreTypeOK, PersistLost
  <2>2. \A m \in Analyses : persist'[m] = persist[m]
                              \/ (persist[m] = "analysing" /\ persist'[m] = "lost")
    BY <1>1 DEF StoreInv, StoreTypeOK, PersistLost
  <2> QED
    BY <1>1, <2>1, <2>2, StoreForgets DEF PersistLost
<1>2. CASE PersistSelect(n)
  <2>1. /\ persist' \in [Analyses -> {"analysing", "lost", "insert", "update", "created",
                                      "refused", "updated"}]
        /\ \A m \in Analyses \ {n} : persist'[m] = persist[m]
        /\ persist[n] = "analysing"
        /\ persist'[n] = "update" => rows[AnalysisOf[n]] # None
        /\ persist'[n] \in {"insert", "update"}
        /\ UNCHANGED <<rows, feedback, submit, readCount>>
    BY <1>2 DEF StoreInv, StoreTypeOK, PersistSelect
  <2>2. StoreTypeOK'
    BY <2>1 DEF StoreInv, StoreTypeOK
  <2>3. RowsCreated'
    <3> SUFFICES ASSUME NEW a \in Alerts, rows[a] # None
                 PROVE  \E m \in Analyses : AnalysisOf[m] = a /\ persist'[m] = "created"
      BY <2>1 DEF RowsCreated
    <3>1. PICK m \in Analyses : AnalysisOf[m] = a /\ persist[m] = "created"
      BY DEF StoreInv, RowsCreated
    <3> QED
      BY <2>1, <3>1
  <2>4. UpdatesFindRows'
    BY <2>1 DEF StoreInv, UpdatesFindRows
  <2>5. \A a : About(a)' = About(a)
    BY <2>1 DEF About
  <2>6. SubmittedToRows' /\ ReadBelow' /\ FilterTruthful'
    BY <2>1, <2>5 DEF StoreInv, SubmittedToRows, ReadBelow, FilterTruthful, HasFeedback
  <2> QED
    BY <2>2, <2>3, <2>4, <2>6 DEF StoreInv
<1> QED
  BY <1>1, <1>2

LEMMA InsertKeeps ==
  ASSUME StoreInv, NEW n \in Analyses, PersistInsert(n)
  PROVE  StoreInv'
<1> DEFINE a == AnalysisOf[n]
           new == [json |-> n, ai |-> n, ml |-> MlOf(n), count |-> 0]
<1>1. a \in Alerts
  BY FeedbackAssumption
<1>2. new \in Row
  BY DEF Row, MlOf
<1>3. CASE rows[a] # None
  <2>1. /\ persist' \in [Analyses -> {"analysing", "lost", "insert", "update", "created",
                                      "refused", "updated"}]
        /\ \A m \in Analyses \ {n} : persist'[m] = persist[m]
        /\ persist[n] = "insert" /\ persist'[n] = "refused"
        /\ UNCHANGED <<rows, feedback, submit, readCount>>
    BY <1>3 DEF StoreInv, StoreTypeOK, PersistInsert
  <2>2. StoreTypeOK'
    BY <2>1 DEF StoreInv, StoreTypeOK
  <2>3. RowsCreated' /\ UpdatesFindRows'
    BY <2>1 DEF StoreInv, RowsCreated, UpdatesFindRows
  <2>4. \A b : About(b)' = About(b)
    BY <2>1 DEF About
  <2>5. SubmittedToRows' /\ ReadBelow' /\ FilterTruthful'
    BY <2>1, <2>4 DEF StoreInv, SubmittedToRows, ReadBelow, FilterTruthful, HasFeedback
  <2> QED
    BY <2>2, <2>3, <2>5 DEF StoreInv
<1>4. CASE rows[a] = None
  <2>1. /\ persist' \in [Analyses -> {"analysing", "lost", "insert", "update", "created",
                                      "refused", "updated"}]
        /\ \A m \in Analyses \ {n} : persist'[m] = persist[m]
        /\ persist[n] = "insert" /\ persist'[n] = "created"
        /\ UNCHANGED <<feedback, submit, readCount>>
    BY <1>4 DEF StoreInv, StoreTypeOK, PersistInsert
  <2>2. /\ rows' = [rows EXCEPT ![a] = new]
        /\ rows' \in [Alerts -> {None} \cup Row]
        /\ rows'[a] = new /\ rows'[a] # None
        /\ \A b \in Alerts \ {a} : rows'[b] = rows[b]
    BY <1>1, <1>2, <1>4, FeedbackAssumption DEF StoreInv, StoreTypeOK, PersistInsert
  <2>3. StoreTypeOK'
    BY <2>1, <2>2 DEF StoreInv, StoreTypeOK
  <2>4. RowsCreated'
    BY <2>1, <2>2 DEF StoreInv, RowsCreated
  <2>5. UpdatesFindRows' /\ SubmittedToRows'
    BY <2>1, <2>2, FeedbackAssumption DEF StoreInv, UpdatesFindRows, SubmittedToRows
  <2>6. \A b : About(b)' = About(b)
    BY <2>1 DEF About
  <2>7. ReadBelow'
    BY <2>1, <2>6 DEF StoreInv, ReadBelow
  <2>8. FilterTruthful'
    <3>1. About(a) = {} /\ Cardinality(About(a)) = 0
      BY <1>1, <1>4, AboutFinite DEF StoreInv, StoreTypeOK, FilterTruthful
    <3>2. rows'[a].count = 0
      BY <2>2
    <3> QED
      BY <2>1, <2>2, <2>6, <3>1, <3>2 DEF StoreInv, FilterTruthful, HasFeedback
  <2> QED
    BY <2>3, <2>4, <2>5, <2>7, <2>8 DEF StoreInv
<1> QED
  BY <1>3, <1>4

LEMMA UpdateKeeps ==
  ASSUME StoreInv, NEW n \in Analyses, PersistUpdate(n)
  PROVE  StoreInv'
<1> DEFINE a == AnalysisOf[n]
<1>1. a \in Alerts /\ rows[a] \in Row
  BY FeedbackAssumption DEF PersistUpdate, StoreInv, StoreTypeOK, UpdatesFindRows
<1>2. /\ persist' \in [Analyses -> {"analysing", "lost", "insert", "update", "created",
                                    "refused", "updated"}]
      /\ \A m \in Analyses \ {n} : persist'[m] = persist[m]
      /\ persist[n] = "update" /\ persist'[n] = "updated"
      /\ UNCHANGED <<feedback, submit, readCount>>
  BY DEF StoreInv, StoreTypeOK, PersistUpdate
<1>3. PICK row \in Row : rows' = [rows EXCEPT ![a] = row] /\ row.count = rows[a].count
  <2>1. Updated(rows[a], n) \in Row /\ Updated(rows[a], n).count = rows[a].count
    BY <1>1 DEF Row, Updated
  <2> QED
    BY <2>1 DEF PersistUpdate
<1>4. /\ rows' \in [Alerts -> {None} \cup Row]
      /\ \A b \in Alerts \ {a} : rows'[b] = rows[b]
      /\ rows'[a] = row /\ rows'[a] # None /\ rows[a] # None
  BY <1>1, <1>3, FeedbackAssumption DEF StoreInv, StoreTypeOK
<1>5. \A b \in Alerts : (rows'[b] = None <=> rows[b] = None)
                        /\ (rows[b] # None => rows'[b].count = rows[b].count)
  BY <1>3, <1>4
<1>6. StoreTypeOK'
  BY <1>2, <1>4 DEF StoreInv, StoreTypeOK
<1>7. RowsCreated'
  BY <1>2, <1>5 DEF StoreInv, RowsCreated
<1>8. UpdatesFindRows' /\ SubmittedToRows'
  BY <1>2, <1>5, FeedbackAssumption DEF StoreInv, UpdatesFindRows, SubmittedToRows
<1>9. \A b : About(b)' = About(b)
  BY <1>2 DEF About
<1>10. ReadBelow' /\ FilterTruthful'
  BY <1>2, <1>5, <1>9 DEF StoreInv, ReadBelow, FilterTruthful, HasFeedback
<1> QED
  BY <1>6, <1>7, <1>8, <1>10 DEF StoreInv

LEMMA SubmitSelectKeeps ==
  ASSUME StoreInv, NEW s \in Submissions, SubmitSelect(s)
  PROVE  StoreInv'
<1> DEFINE a == AboutAlert[s]
<1>1. a \in Alerts
  BY FeedbackAssumption
<1>2. UNCHANGED <<rows, feedback, persist>> /\ submit[s] = "open"
  BY DEF SubmitSelect
<1>3. /\ submit' \in [Submissions -> {"open", "not found", "writing", "stored"}]
      /\ \A t \in Submissions \ {s} : submit'[t] = submit[t] /\ readCount'[t] = readCount[t]
      /\ submit'[s] \in {"not found", "writing"}
      /\ submit'[s] = "writing" => rows[a] # None /\ readCount'[s] = rows[a].count
      /\ readCount' \in [Submissions -> Nat]
  <2>1. CASE rows[a] = None
    BY <2>1 DEF StoreInv, StoreTypeOK, SubmitSelect
  <2>2. CASE rows[a] # None
    <3>1. rows[a] \in Row
      BY <1>1, <2>2 DEF StoreInv, StoreTypeOK
    <3>2. rows[a].count \in Nat
      BY <3>1 DEF Row
    <3> QED
      BY <2>2, <3>2 DEF StoreInv, StoreTypeOK, SubmitSelect
  <2> QED
    BY <2>1, <2>2
<1>4. StoreTypeOK'
  BY <1>2, <1>3 DEF StoreInv, StoreTypeOK
<1>5. RowsCreated' /\ UpdatesFindRows'
  BY <1>2 DEF StoreInv, RowsCreated, UpdatesFindRows
<1>6. SubmittedToRows'
  BY <1>2, <1>3 DEF StoreInv, SubmittedToRows
<1>7. \A b : About(b)' = About(b)
  BY <1>2 DEF About
<1>8. FilterTruthful'
  BY <1>2, <1>7 DEF StoreInv, FilterTruthful, HasFeedback
<1>9. ReadBelow'
  BY <1>1, <1>2, <1>3, <1>7 DEF StoreInv, ReadBelow, FilterTruthful
<1> QED
  BY <1>4, <1>5, <1>6, <1>8, <1>9 DEF StoreInv

LEMMA SubmitCommitKeeps ==
  ASSUME StoreInv, NEW s \in Submissions, SubmitCommit(s)
  PROVE  StoreInv'
<1> DEFINE a == AboutAlert[s]
<1>1. a \in Alerts /\ rows[a] \in Row /\ s \notin feedback /\ readCount[s] \in Nat
  BY FeedbackAssumption DEF SubmitCommit, StoreInv, StoreTypeOK, SubmittedToRows
<1>2. UNCHANGED <<persist, readCount>> /\ submit[s] = "writing" /\ feedback' = feedback \cup {s}
  BY DEF SubmitCommit
<1>3. /\ submit' \in [Submissions -> {"open", "not found", "writing", "stored"}]
      /\ \A t \in Submissions \ {s} : submit'[t] = submit[t]
      /\ submit'[s] = "stored"
  BY DEF SubmitCommit, StoreInv, StoreTypeOK
<1>4. PICK row \in Row : rows' = [rows EXCEPT ![a] = row] /\ row.count = readCount[s] + 1
  <2> DEFINE row == [json |-> rows[a].json, ai |-> rows[a].ai, ml |-> rows[a].ml,
                     count |-> readCount[s] + 1]
  <2>1. row \in Row
    BY <1>1 DEF Row
  <2>2. [rows[a] EXCEPT !.count = readCount[s] + 1] = row
    BY <1>1 DEF Row
  <2>3. rows' = [rows EXCEPT ![a] = [rows[a] EXCEPT !.count = readCount[s] + 1]]
    BY DEF SubmitCommit
  <2> QED
    BY <2>1, <2>2, <2>3
<1>5. /\ rows' \in [Alerts -> {None} \cup Row]
      /\ \A b \in Alerts \ {a} : rows'[b] = rows[b]
      /\ rows'[a] = row /\ rows'[a] # None /\ rows[a] # None
  BY <1>1, <1>4, FeedbackAssumption DEF StoreInv, StoreTypeOK
<1>6. \A b \in Alerts : rows'[b] = None <=> rows[b] = None
  BY <1>5
<1>7. StoreTypeOK'
  BY <1>2, <1>3, <1>5 DEF StoreInv, StoreTypeOK
<1>8. RowsCreated' /\ UpdatesFindRows'
  BY <1>2, <1>6, FeedbackAssumption DEF StoreInv, RowsCreated, UpdatesFindRows
<1>9. SubmittedToRows'
  BY <1>2, <1>3, <1>6, FeedbackAssumption DEF StoreInv, SubmittedToRows
<1>10. feedback \subseteq Submissions
  BY DEF StoreInv, StoreTypeOK
<1>11. About(a)' = About(a) \cup {s} /\ s \notin About(a)
  BY <1>1, <1>2 DEF About
<1>12. \A b \in Alerts \ {a} : About(b)' = About(b)
  BY <1>2 DEF About
<1>13. Cardinality(About(a)') = Cardinality(About(a)) + 1
  BY <1>10, <1>11, AboutFinite, FS_AddElement
<1>14. readCount[s] <= Cardinality(About(a))
  BY <1>2 DEF StoreInv, ReadBelow
<1>15. ReadBelow'
  <2> SUFFICES ASSUME NEW t \in Submissions, submit'[t] = "writing"
               PROVE  readCount[t] <= Cardinality(About(AboutAlert[t])')
    BY <1>2 DEF ReadBelow
  <2>1. t # s /\ submit[t] = "writing" /\ readCount[t] \in Nat /\ AboutAlert[t] \in Alerts
    BY <1>3, FeedbackAssumption DEF StoreInv, StoreTypeOK
  <2>2. readCount[t] <= Cardinality(About(AboutAlert[t]))
    BY <2>1 DEF StoreInv, ReadBelow
  <2>3. CASE AboutAlert[t] = a
    BY <1>10, <1>13, <2>1, <2>2, <2>3, AboutFinite
  <2>4. CASE AboutAlert[t] # a
    BY <1>12, <2>1, <2>2, <2>4
  <2> QED
    BY <2>3, <2>4
<1>16. FilterTruthful'
  <2>1. rows'[a].count = readCount[s] + 1 /\ rows'[a].count > 0
    BY <1>1, <1>4, <1>5
  <2>2. rows'[a].count <= Cardinality(About(a)')
    BY <1>1, <1>10, <1>13, <1>14, <2>1, AboutFinite
  <2>3. About(a)' # {}
    BY <1>11
  <2>4. ASSUME NEW b \in Alerts \ {a}
        PROVE  rows'[b] = rows[b] /\ About(b)' = About(b)
    BY <1>5, <1>12
  <2> QED
    BY <1>5, <2>1, <2>2, <2>3, <2>4 DEF StoreInv, FilterTruthful, HasFeedback
<1> QED
  BY <1>7, <1>8, <1>9, <1>15, <1>16 DEF StoreInv

LEMMA StoreStep ==
  ASSUME StoreInv, StoreNext
  PROVE  StoreInv'
<1>1. ASSUME NEW n \in Analyses,
             PersistLost(n) \/ PersistSelect(n) \/ PersistInsert(n) \/ PersistUpdate(n)
      PROVE  StoreInv'
  BY <1>1, SelectKeeps, InsertKeeps, UpdateKeeps
<1>2. ASSUME NEW s \in Submissions, SubmitSelect(s) \/ SubmitCommit(s)
      PROVE  StoreInv'
  BY <1>2, SubmitSelectKeeps, SubmitCommitKeeps
<1> QED
  BY <1>1, <1>2 DEF StoreNext

(***************************************************************************)
(* Ingestion. An answer of the integration is tied to what correlation has *)
(* through where the caller was before (Walks), and what the feedback      *)
(* store has to the analysis it came from (StoredWereJudged): whoever      *)
(* reads history is still being analysed, so has stored nothing itself.    *)
(***************************************************************************)

\* What the integration's progress says of the analysis and of the alert.
Walk(n) ==
  /\ caller[n] = "idle" => triage[n] = "idle"
  /\ caller[n] \in {"enrich", "correlate", "incident", "no incident"} => triage[n] = "done"
  /\ caller[n] \in {"correlate", "incident", "no incident"} => n \notin ByPoll
  /\ n \notin ByPoll /\ caller[n] \notin {"idle", "rejected"} => LevelOf[Alert(n)] >= MinSeverity
  /\ correlated[n] # "none" => caller[n] \in {"correlate", "incident", "no incident"}

Walks == \A n \in Analyses : Walk(n)

StoredWereJudged == \A n \in Analyses : persist[n] # "analysing" => triage[n] = "done"

GInv == TypeOK /\ StoreInv /\ Walks /\ StoredWereJudged /\ NoEcho

Prompts == [history : SUBSET Alerts, reviewed : SUBSET Alerts, answered : BOOLEAN]

LEMMA Starts == Init => GInv
<1> SUFFICES ASSUME Init PROVE GInv
  OBVIOUS
<1>1. StoreInv
  BY StoreStarts DEF Init
<1>2. BlankPrompt \in Prompts
  BY DEF BlankPrompt, Prompts
<1>3. TypeOK
  BY <1>1, <1>2, IngestionAssumption
     DEF Init, TypeOK, StoreInv, Prompts, Analysing, Waiting, Answers
<1>4. Walks /\ StoredWereJudged
  BY DEF Init, StoreInit, Walks, Walk, StoredWereJudged
<1>5. NoEcho
  BY DEF Init, NoEcho, BlankPrompt
<1> QED
  BY <1>1, <1>3, <1>4, <1>5 DEF GInv

\* The analysis. What it changes of a prompt is blank or read from the store.
LEMMA AnalyseKeeps ==
  ASSUME GInv, NEW n \in Analyses, Analyse(n)
  PROVE  GInv'
<1>1. /\ UNCHANGED <<storeVars, caller, correlated, triageRestarts>>
      /\ triage[n] \in Analysing
  BY DEF Analyse, Predict, FetchHistory, FetchPatterns, AskPrimary, AskFallback, TriageOnly, Analysing
<1>2. /\ triage' \in [Analyses -> {"idle", "done", "failed"} \cup Analysing]
      /\ \A m \in Analyses \ {n} : triage'[m] = triage[m]
  BY DEF GInv, TypeOK, Analyse, Predict, FetchHistory, FetchPatterns, AskPrimary, AskFallback,
         Finish, Analysing
<1>3. StoreInv'
  BY <1>1, StoreStutters DEF GInv
<1>4. triage[n] \notin {"idle", "done"}
  BY <1>1 DEF Analysing
<1>5. Walks'
  <2> SUFFICES ASSUME NEW m \in Analyses PROVE Walk(m)'
    BY DEF Walks
  <2>1. CASE m = n
    BY <1>1, <1>4, <2>1 DEF GInv, Walks, Walk
  <2>2. CASE m # n
    BY <1>1, <1>2, <2>2 DEF GInv, Walks, Walk
  <2> QED
    BY <2>1, <2>2
<1>6. StoredWereJudged'
  BY <1>1, <1>2, <1>4 DEF GInv, StoredWereJudged, storeVars
<1>7. prompt \in [Analyses -> Prompts]
  BY DEF GInv, TypeOK, Prompts
<1>8. /\ prompt' \in [Analyses -> Prompts]
      /\ \A m \in Analyses \ {n} : prompt'[m] = prompt[m]
      /\ \A a \in prompt'[n].history : a \in prompt[n].history \/ rows[a] # None
  <2>1. CASE Predict(n)
    BY <1>7, <2>1 DEF Predict
  <2>2. CASE FetchHistory(n)
    <3>1. PICK h \in {{}} \cup MostRecent(OfSource(n), HistoryLimit) :
            prompt' = [prompt EXCEPT ![n].history = h]
      BY <2>2 DEF FetchHistory
    <3>2. h \subseteq OfSource(n)
      BY <3>1 DEF MostRecent
    <3>3. h \subseteq Alerts /\ \A a \in h : rows[a] # None
      BY <3>2 DEF OfSource
    <3>4. [prompt[n] EXCEPT !.history = h] \in Prompts /\ [prompt[n] EXCEPT !.history = h].history = h
      BY <1>7, <3>3 DEF Prompts
    <3>5. prompt' = [prompt EXCEPT ![n] = [prompt[n] EXCEPT !.history = h]]
      BY <3>1
    <3> QED
      BY <1>7, <3>3, <3>4, <3>5
  <2>3. CASE FetchPatterns(n)
    <3>1. Reviewed({a \in OfSource(n) : HasFeedback(a)}) \subseteq Alerts
      BY DEF Reviewed, OfSource
    <3>2. PICK answered \in BOOLEAN :
            prompt' = [prompt EXCEPT ![n] =
                        [history |-> prompt[n].history, answered |-> answered,
                         reviewed |-> IF answered THEN Reviewed({a \in OfSource(n) : HasFeedback(a)})
                                      ELSE {}]]
      BY <2>3 DEF FetchPatterns
    <3>3. PICK reviewed \in SUBSET Alerts :
            prompt' = [prompt EXCEPT ![n] = [history |-> prompt[n].history, answered |-> answered,
                                             reviewed |-> reviewed]]
      BY <3>1, <3>2
    <3> QED
      BY <1>7, <3>3 DEF Prompts
  <2>4. CASE AskPrimary(n) \/ AskFallback(n)
    <3>1. BlankPrompt \in Prompts /\ BlankPrompt.history = {}
      BY DEF BlankPrompt, Prompts
    <3>2. prompt' = prompt \/ prompt' = [prompt EXCEPT ![n] = BlankPrompt]
      BY <2>4 DEF AskPrimary, AskFallback, Finish
    <3> QED
      BY <1>7, <3>1, <3>2
  <2> QED
    BY <2>1, <2>2, <2>3, <2>4 DEF Analyse
<1>9. TypeOK'
  BY <1>1, <1>2, <1>3, <1>8 DEF GInv, TypeOK, StoreInv, Prompts, storeVars
<1>10. NoEcho'
  <2> SUFFICES ASSUME NEW m \in Analyses, Alert(m) \in prompt'[m].history
               PROVE  \E k \in Analyses \ {m} : Alert(k) = Alert(m) /\ persist[k] = "created"
    BY <1>1 DEF NoEcho, storeVars, Alert
  <2>1. CASE Alert(m) \in prompt[m].history
    BY <2>1 DEF GInv, NoEcho
  <2>2. CASE Alert(m) \notin prompt[m].history
    <3>1. m = n /\ rows[Alert(m)] # None
      BY <1>8, <2>2
    <3>2. PICK k \in Analyses : AnalysisOf[k] = Alert(m) /\ persist[k] = "created"
      BY <3>1, FeedbackAssumption DEF GInv, StoreInv, RowsCreated, Alert
    <3>3. persist[m] = "analysing"
      BY <1>4, <3>1 DEF GInv, StoredWereJudged
    <3> QED
      BY <3>2, <3>3 DEF Alert
  <2> QED
    BY <2>1, <2>2
<1> QED
  BY <1>3, <1>5, <1>6, <1>9, <1>10 DEF GInv

\* The background task and the feedback service: the store has its own
\* invariant, and what they store was judged.
LEMMA StoringKeeps ==
  ASSUME GInv, Review \/ \E n \in Analyses : Persist(n)
  PROVE  GInv'
<1>1. UNCHANGED <<caller, triage, prompt, correlated, triageRestarts>>
  BY DEF Review, Persist
<1>2. StoreNext
  BY DEF StoreNext, Review, Persist
<1>3. StoreInv'
  BY <1>2, StoreStep DEF GInv
<1>4. TypeOK'
  BY <1>1, <1>3 DEF GInv, TypeOK, StoreInv
<1>5. Walks'
  BY <1>1 DEF GInv, Walks, Walk
<1>6. \A m \in Analyses : /\ persist[m] = "created" => persist'[m] = "created"
                          /\ persist'[m] # persist[m] => triage[m] = "done"
  BY DEF GInv, StoreInv, StoreTypeOK, Review, SubmitSelect, SubmitCommit, Persist,
         PersistLost, PersistSelect, PersistInsert, PersistUpdate
<1>7. StoredWereJudged'
  BY <1>1, <1>6 DEF GInv, StoredWereJudged
<1>8. NoEcho'
  <2> SUFFICES ASSUME NEW n \in Analyses, Alert(n) \in prompt[n].history
               PROVE  \E m \in Analyses \ {n} : Alert(m) = Alert(n) /\ persist'[m] = "created"
    BY <1>1 DEF NoEcho, Alert
  <2>1. PICK m \in Analyses \ {n} : Alert(m) = Alert(n) /\ persist[m] = "created"
    BY DEF GInv, NoEcho
  <2> QED
    BY <1>6, <2>1
<1> QED
  BY <1>3, <1>4, <1>5, <1>7, <1>8 DEF GInv

\* The integration and the correlation engine.
LEMMA CallerKeeps ==
  ASSUME GInv, NEW n \in Analyses, Receive(n) \/ Handle(n) \/ Engine(n)
  PROVE  GInv'
<1>1. /\ UNCHANGED <<storeVars, prompt, triageRestarts>>
      /\ UNCHANGED triage \/ (triage' = [triage EXCEPT ![n] = "ml"] /\ caller[n] = "idle")
  BY DEF Receive, Handle, TriageAnswers, Enrich, Correlate, EngineAnswers, Engine, CallerOnly
<1>2. StoreInv'
  BY <1>1, StoreStutters DEF GInv
<1>3. /\ caller' \in [Analyses -> {"idle"} \cup Waiting \cup Answers]
      /\ \A m \in Analyses \ {n} : caller'[m] = caller[m]
  BY DEF GInv, TypeOK, Receive, Handle, TriageAnswers, Enrich, Correlate, EngineAnswers, Engine,
         Waiting, Answers, Judged, Failed
<1>4. /\ correlated' \in [Analyses -> {"none", "asked", "taken", "refused"}]
      /\ \A m \in Analyses \ {n} : correlated'[m] = correlated[m]
  BY DEF GInv, TypeOK, Receive, Handle, TriageAnswers, Enrich, Correlate, EngineAnswers, Engine
<1>5. /\ triage' \in [Analyses -> {"idle", "done", "failed"} \cup Analysing]
      /\ \A m \in Analyses \ {n} : triage'[m] = triage[m]
  BY <1>1 DEF GInv, TypeOK, Analysing
<1>6. TypeOK'
  BY <1>1, <1>2, <1>3, <1>4, <1>5 DEF GInv, TypeOK, StoreInv
<1>7. Walk(n)'
  <2>1. Walk(n)
    BY DEF GInv, Walks
  <2>2. CASE Receive(n)
    <3>1. caller[n] = "idle" /\ correlated' = correlated /\ correlated[n] = "none"
      BY <2>1, <2>2 DEF Receive, Walk
    <3>2. CASE n \notin ByPoll /\ LevelOf[Alert(n)] < MinSeverity
      <4>1. caller'[n] = "rejected"
        BY <2>2, <3>2 DEF GInv, TypeOK, Receive
      <4> QED
        BY <3>1, <4>1 DEF Walk
    <3>3. CASE ~(n \notin ByPoll /\ LevelOf[Alert(n)] < MinSeverity)
      <4>1. caller'[n] = "triage"
        BY <2>2, <3>3 DEF GInv, TypeOK, Receive
      <4>2. LevelOf[Alert(n)] \in 0..15 /\ MinSeverity \in 0..15
        BY IngestionAssumption, FeedbackAssumption DEF Alert
      <4>3. n \notin ByPoll => LevelOf[Alert(n)] >= MinSeverity
        BY <3>3, <4>2
      <4> QED
        BY <3>1, <4>1, <4>3 DEF Walk, Alert
    <3> QED
      BY <3>2, <3>3
  <2>3. CASE TriageAnswers(n)
    BY <2>1, <2>3 DEF GInv, TypeOK, TriageAnswers, Walk, Alert, Judged, Failed
  <2>4. CASE Enrich(n)
    BY <2>1, <2>4 DEF GInv, TypeOK, Enrich, Walk, Alert, Judged, Failed
  <2>5. CASE Correlate(n)
    BY <2>1, <2>5 DEF GInv, TypeOK, Correlate, Walk, Alert
  <2>6. CASE EngineAnswers(n)
    BY <2>1, <2>6 DEF GInv, TypeOK, EngineAnswers, Walk, Alert
  <2>7. CASE Engine(n)
    BY <2>1, <2>7 DEF GInv, TypeOK, Engine, Walk, Alert
  <2> QED
    BY <2>2, <2>3, <2>4, <2>5, <2>6, <2>7 DEF Handle
<1>8. Walks'
  BY <1>3, <1>4, <1>5, <1>7 DEF GInv, Walks, Walk
<1>9. StoredWereJudged'
  <2>1. caller[n] = "idle" => persist[n] = "analysing"
    BY DEF GInv, Walks, Walk, StoredWereJudged
  <2> QED
    BY <1>1, <1>5, <2>1 DEF GInv, StoredWereJudged, storeVars
<1>10. NoEcho'
  BY <1>1 DEF GInv, NoEcho, storeVars
<1> QED
  BY <1>2, <1>6, <1>8, <1>9, <1>10 DEF GInv

LEMMA RestartKeeps ==
  ASSUME GInv, RestartTriage
  PROVE  GInv'
<1>1. UNCHANGED <<rows, feedback, submit, readCount, caller, correlated>>
  BY DEF RestartTriage
<1>2. /\ persist' \in [Analyses -> {"analysing", "lost", "insert", "update", "created",
                                    "refused", "updated"}]
      /\ \A n \in Analyses : \/ persist'[n] = persist[n]
                             \/ /\ persist[n] = "analysing" /\ persist'[n] = "lost"
                                /\ triage[n] = "done"
  BY DEF GInv, StoreInv, StoreTypeOK, RestartTriage
<1>3. StoreInv'
  BY <1>1, <1>2, StoreForgets DEF GInv
<1>4. /\ triage' \in [Analyses -> {"idle", "done", "failed"} \cup Analysing]
      /\ \A n \in Analyses : triage'[n] = triage[n]
                               \/ (triage[n] \in Analysing /\ triage'[n] = "failed")
  BY DEF GInv, TypeOK, RestartTriage
<1>5. prompt' = [n \in Analyses |-> BlankPrompt] /\ BlankPrompt \in Prompts
  BY DEF RestartTriage, BlankPrompt, Prompts
<1>6. triageRestarts' \in 0..MaxRestarts
  BY IngestionAssumption DEF GInv, TypeOK, RestartTriage
<1>7. TypeOK'
  BY <1>1, <1>3, <1>4, <1>5, <1>6 DEF GInv, TypeOK, StoreInv, Prompts
<1>8. Walks'
  BY <1>1, <1>4 DEF GInv, Walks, Walk, Analysing
<1>9. StoredWereJudged'
  BY <1>2, <1>4 DEF GInv, StoredWereJudged, Analysing
<1>10. NoEcho'
  BY <1>5 DEF NoEcho, BlankPrompt
<1> QED
  BY <1>3, <1>7, <1>8, <1>9, <1>10 DEF GInv

\* The strengthened invariant is inductive.
THEOREM Inductive ==
  ASSUME GInv, [Next]_vars
  PROVE  GInv'
<1>1. CASE UNCHANGED vars
  <2>1. StoreInv'
    BY <1>1, StoreStutters DEF GInv, vars
  <2> QED
    BY <1>1, <2>1 DEF GInv, TypeOK, StoreInv, Walks, Walk, StoredWereJudged, NoEcho, vars, storeVars
<1> QED
  BY <1>1, AnalyseKeeps, StoringKeeps, CallerKeeps, RestartKeeps DEF Next

LEMMA Invariant == Spec => []GInv
<1>1. GInv /\ [Next]_vars => GInv'
  BY Inductive
<1> QED
  BY Starts, <1>1, PTL DEF Spec

\* What correlation has was judged, is severe enough, and was answered with 200.
THEOREM CorrelationEarnedHolds == Spec => []CorrelationEarned
<1>1. GInv => CorrelationEarned
  BY DEF GInv, Walks, Walk, CorrelationEarned, ErrorsLeaveNoTrace, CorrelatedWereJudged
<1> QED
  BY Invariant, <1>1, PTL

\* No analysis reads its own result as history.
THEOREM NoEchoHolds == Spec => []NoEcho
<1>1. GInv => NoEcho
  BY DEF GInv
<1> QED
  BY Invariant, <1>1, PTL

(***************************************************************************)
(* Retraining. That no model is lost is not inductive: a model is          *)
(* overwritten by emptying its file, and what makes that harmless is that  *)
(* every model still to be written was archived as it is now               *)
(* (WritesArchived), which needs that no name is written twice. What a     *)
(* death leaves behind is contained because no file is ever torn while a   *)
(* result is decided on.                                                   *)
(***************************************************************************)

Pending(f) == \E i \in DOMAIN toWrite : toWrite[i] = f

\* Only whole files are built on.
DecidedOnWhole == trainer = "decided" => \A f \in Artifacts : Whole(f)

WritesOnce == \A i, j \in DOMAIN toWrite : toWrite[i] = toWrite[j] => i = j

\* A model still to be replaced is in the history as it is.
WritesArchived ==
  trainer = "writing" =>
    \A m \in Models : Pending(m) /\ Whole(m) => <<m, disk[m]>> \in archive

\* Nothing is newer than the last retraining, and nothing served newer than its file.
Dated ==
  \A f \in Artifacts :
    /\ Whole(f) => disk[f] <= trainings
    /\ served[f] # None => served[f] <= trainings /\ (Whole(f) => served[f] <= disk[f])

\* Without a death only the file under way is torn, and scaler and encoder are
\* still to come or from this retraining.
WritingIsClean ==
  deaths = 0 /\ trainer = "writing" =>
    /\ \A f \in Artifacts : ~Whole(f) => toWrite # <<>> /\ f = Head(toWrite)
    /\ \A f \in {"scaler", "label_encoder"} : Pending(f) \/ disk[f] = trainings

\* Without a death everything is whole between retrainings.
RestIsClean ==
  deaths = 0 /\ trainer # "writing" =>
    /\ \A f \in Artifacts : Whole(f)
    /\ disk["scaler"] = disk["label_encoder"]
    /\ \A m \in Models : disk[m] <= disk["scaler"]

LInv ==
  /\ RetrainTypeOK /\ StoreInv /\ DecidedOnWhole /\ WritesOnce /\ WritesArchived /\ Dated
  /\ WritingIsClean /\ RestIsClean /\ NoModelLost

\* What is about the files and the training process only.
FileInv ==
  /\ DecidedOnWhole /\ WritesOnce /\ WritesArchived /\ Dated
  /\ WritingIsClean /\ RestIsClean /\ NoModelLost

LEMMA RetrainStarts == RetrainInit => LInv
<1> SUFFICES ASSUME RetrainInit PROVE LInv
  OBVIOUS
<1>1. StoreInv
  BY StoreStarts DEF RetrainInit
<1>2. RetrainTypeOK
  <2>1. <<>> \in Seq(Artifacts)
    BY EmptySeq
  <2>2. 0 \in Generations /\ 0 \in 0..MaxDeaths /\ 0 \in 0..MaxServiceRestarts
    BY RetrainingAssumption DEF Generations
  <2>3. StoreTypeOK
    BY <1>1 DEF StoreInv
  <2> QED
    BY <2>1, <2>2, <2>3 DEF RetrainInit, RetrainTypeOK
<1>3. DecidedOnWhole /\ WritesOnce /\ WritesArchived
  BY DEF RetrainInit, DecidedOnWhole, WritesOnce, WritesArchived
<1>4. Dated /\ WritingIsClean /\ RestIsClean /\ NoModelLost
  BY RetrainingAssumption
     DEF RetrainInit, Dated, WritingIsClean, RestIsClean, NoModelLost, Whole, Artifacts
<1> QED
  BY <1>1, <1>2, <1>3, <1>4 DEF LInv

\* Steps of the feedback service do not touch the files.
LEMMA StoreKeeps ==
  ASSUME LInv, StoreInv', UNCHANGED <<trainVars, servingVars>>
  PROVE  LInv'
<1> USE DEF trainVars, servingVars
<1>1. RetrainTypeOK'
  BY DEF LInv, RetrainTypeOK, StoreInv
<1>2. FileInv'
  BY DEF LInv, FileInv, DecidedOnWhole, WritesOnce, WritesArchived, Dated, WritingIsClean,
         RestIsClean, NoModelLost, Whole, Pending
<1> QED
  BY <1>1, <1>2 DEF LInv, FileInv

\* Steps that leave the files, their order and what is served as they were.
LEMMA LoadFeedbackKeeps ==
  ASSUME LInv, LoadFeedback
  PROVE  LInv'
<1>1. StoreInv'
  BY StoreStutters DEF LInv, LoadFeedback
<1>2. /\ UNCHANGED <<disk, archive, toWrite, deaths, served, loading, answer, restarts>>
      /\ trainings' = trainings + 1 /\ trainings < MaxTrainings /\ trainer = "idle"
      /\ trainer' \in {"idle", "loaded"} /\ labels' \subseteq Labelled
  BY DEF LoadFeedback, servingVars
<1>3. RetrainTypeOK'
  BY <1>1, <1>2, RetrainingAssumption DEF LInv, RetrainTypeOK, Generations, StoreInv
<1>4. FileInv'
  <2>1. DecidedOnWhole' /\ WritesOnce' /\ WritesArchived' /\ WritingIsClean'
    BY <1>2 DEF LInv, DecidedOnWhole, WritesOnce, WritesArchived, WritingIsClean
  <2>2. RestIsClean' /\ NoModelLost'
    BY <1>2 DEF LInv, RestIsClean, NoModelLost, Whole
  <2>3. Dated'
    <3> SUFFICES ASSUME NEW f \in Artifacts
                 PROVE  /\ Whole(f) => disk[f] <= trainings + 1
                        /\ served[f] # None =>
                             served[f] <= trainings + 1 /\ (Whole(f) => served[f] <= disk[f])
      BY <1>2 DEF Dated, Whole
    <3>1. trainings \in Nat /\ (Whole(f) => disk[f] \in Nat) /\ (served[f] # None => served[f] \in Nat)
      BY RetrainingAssumption DEF LInv, RetrainTypeOK, Generations, Whole
    <3> QED
      BY <3>1 DEF LInv, Dated
  <2> QED
    BY <2>1, <2>2, <2>3 DEF FileInv
<1> QED
  BY <1>1, <1>3, <1>4 DEF LInv, FileInv

LEMMA TrainKeeps ==
  ASSUME LInv, Train
  PROVE  LInv'
<1>1. StoreInv'
  BY StoreStutters DEF LInv, Train
<1>2. /\ UNCHANGED <<disk, archive, labels, toWrite, trainings, deaths, served, loading, answer, restarts>>
      /\ trainer = "loaded" /\ trainer' \in {"decided", "idle"}
      /\ trainer' = "decided" => ~Tear
  BY DEF Train, servingVars
<1>3. RetrainTypeOK'
  BY <1>1, <1>2 DEF LInv, RetrainTypeOK, StoreInv
<1>4. FileInv'
  BY <1>2 DEF LInv, FileInv, DecidedOnWhole, WritesOnce, WritesArchived, Dated, WritingIsClean,
              RestIsClean, NoModelLost, Whole, Tear
<1> QED
  BY <1>1, <1>3, <1>4 DEF LInv, FileInv

\* The order of the files of a retraining.
LEMMA OrderedWrites ==
  ASSUME NEW promoted \in SUBSET Models, NEW order \in Orders(promoted)
  PROVE  LET s == order \o <<"scaler", "label_encoder">>
         IN  /\ s \in Seq(Artifacts)
             /\ \A i, j \in DOMAIN s : s[i] = s[j] => i = j
             /\ \E i \in DOMAIN s : s[i] = "scaler"
             /\ \E i \in DOMAIN s : s[i] = "label_encoder"
<1> DEFINE n == Cardinality(promoted)
           tail == <<"scaler", "label_encoder">>
           s == order \o tail
<1>1. n \in Nat
  BY RetrainingAssumption, FS_Subset, FS_CardinalityType
<1>2. order \in [1..n -> promoted] /\ \A i, j \in 1..n : order[i] = order[j] => i = j
  BY DEF Orders
<1>3. order \in Seq(Artifacts) /\ Len(order) = n /\ \A i \in 1..n : order[i] \in Models
  BY <1>1, <1>2 DEF Artifacts
<1>4. tail \in Seq(Artifacts) /\ Len(tail) = 2 /\ tail[1] = "scaler" /\ tail[2] = "label_encoder"
  BY DEF Artifacts
<1>5. /\ s \in Seq(Artifacts) /\ Len(s) = n + 2
      /\ \A i \in 1..(n + 2) : s[i] = IF i <= n THEN order[i] ELSE tail[i - n]
  BY <1>3, <1>4, ConcatProperties
<1>6. DOMAIN s = 1..(n + 2)
  BY <1>5
<1>7. s[n + 1] = "scaler" /\ s[n + 2] = "label_encoder" /\ \A i \in 1..n : s[i] = order[i]
  BY <1>1, <1>4, <1>5
<1>8. ASSUME NEW i \in 1..(n + 2), NEW j \in 1..(n + 2), s[i] = s[j]
      PROVE  i = j
  <2>1. "scaler" \notin Models /\ "label_encoder" \notin Models /\ "scaler" # "label_encoder"
    BY RetrainingAssumption
  <2>2. i \in 1..n \/ i = n + 1 \/ i = n + 2
    BY <1>1
  <2>3. j \in 1..n \/ j = n + 1 \/ j = n + 2
    BY <1>1
  <2> QED
    BY <1>2, <1>3, <1>7, <1>8, <2>1, <2>2, <2>3
<1>9. n + 1 \in DOMAIN s /\ n + 2 \in DOMAIN s
  BY <1>1, <1>6
<1> QED
  BY <1>5, <1>6, <1>7, <1>8, <1>9

LEMMA ArchiveKeeps ==
  ASSUME LInv, Archive
  PROVE  LInv'
<1>1. StoreInv'
  BY StoreStutters DEF LInv, Archive
<1>2. /\ UNCHANGED <<disk, labels, trainings, deaths, served, loading, answer, restarts>>
      /\ trainer = "decided" /\ trainer' = "writing"
      /\ archive' = archive \cup {<<m, disk[m]>> : m \in Models}
  BY DEF Archive, servingVars
<1>3. /\ toWrite' \in Seq(Artifacts)
      /\ \A i, j \in DOMAIN toWrite' : toWrite'[i] = toWrite'[j] => i = j
      /\ \E i \in DOMAIN toWrite' : toWrite'[i] = "scaler"
      /\ \E i \in DOMAIN toWrite' : toWrite'[i] = "label_encoder"
  BY OrderedWrites DEF Archive
<1>4. \A f \in Artifacts : Whole(f) /\ disk[f] \in Generations
  BY <1>2 DEF LInv, DecidedOnWhole, RetrainTypeOK, Whole
<1>5. RetrainTypeOK'
  <2>1. archive' \subseteq Models \X Generations
    BY <1>2, <1>4 DEF LInv, RetrainTypeOK, Artifacts
  <2> QED
    BY <1>1, <1>2, <1>3, <2>1 DEF LInv, RetrainTypeOK, StoreInv
<1>6. DecidedOnWhole' /\ RestIsClean' /\ WritesArchived'
  BY <1>2 DEF DecidedOnWhole, RestIsClean, WritesArchived, Whole
<1>7. WritesOnce'
  BY <1>3 DEF WritesOnce
<1>8. WritingIsClean'
  BY <1>2, <1>3, <1>4 DEF WritingIsClean, Pending, Whole
<1>9. Dated' /\ NoModelLost'
  BY <1>2 DEF LInv, Dated, NoModelLost, Whole
<1> QED
  BY <1>1, <1>5, <1>6, <1>7, <1>8, <1>9 DEF LInv

LEMMA OpenKeeps ==
  ASSUME LInv, OpenFile
  PROVE  LInv'
<1> DEFINE h == Head(toWrite)
<1>1. StoreInv'
  BY StoreStutters DEF LInv, OpenFile
<1>2. /\ UNCHANGED <<archive, trainer, labels, toWrite, trainings, deaths, served, loading, answer, restarts>>
      /\ trainer = "writing" /\ toWrite # <<>> /\ Whole(h)
      /\ disk' = [disk EXCEPT ![h] = Torn]
  BY DEF OpenFile, servingVars
<1>3. toWrite \in Seq(Artifacts) /\ h \in Artifacts
  BY <1>2, HeadTailProperties DEF LInv, RetrainTypeOK
<1>4. Pending(h)
  BY <1>2, <1>3 DEF Pending
<1>5. /\ disk' \in [Artifacts -> Generations \cup {Torn}]
      /\ disk'[h] = Torn /\ \A f \in Artifacts \ {h} : disk'[f] = disk[f]
  BY <1>2, <1>3 DEF LInv, RetrainTypeOK
<1>6. RetrainTypeOK'
  BY <1>1, <1>2, <1>5 DEF LInv, RetrainTypeOK, StoreInv
<1>7. DecidedOnWhole' /\ RestIsClean'
  BY <1>2 DEF DecidedOnWhole, RestIsClean
<1>8. WritesOnce'
  BY <1>2 DEF LInv, WritesOnce
<1>9. WritesArchived' /\ Dated'
  BY <1>2, <1>3, <1>5 DEF LInv, WritesArchived, Dated, Pending, Whole, Artifacts
<1>10. WritingIsClean'
  <2>1. ASSUME deaths = 0, NEW f \in {"scaler", "label_encoder"}
        PROVE  Pending(f) \/ disk'[f] = trainings
    <3>1. f \in Artifacts /\ (Pending(f) \/ disk[f] = trainings)
      BY <1>2, <2>1 DEF LInv, WritingIsClean, Artifacts
    <3> QED
      BY <1>4, <1>5, <3>1
  <2>2. ASSUME deaths = 0, NEW f \in Artifacts, disk'[f] = Torn
        PROVE  f = h
    BY <1>2, <1>5, <2>2 DEF LInv, WritingIsClean, Whole
  <2> QED
    BY <1>2, <2>1, <2>2 DEF WritingIsClean, Whole, Pending
<1>11. NoModelLost'
  <2> SUFFICES ASSUME NEW m \in Models, served[m] # None
               PROVE  disk'[m] = served[m] \/ <<m, served[m]>> \in archive
    BY <1>2 DEF NoModelLost
  <2>1. m \in Artifacts /\ (disk[m] = served[m] \/ <<m, served[m]>> \in archive)
    BY DEF LInv, NoModelLost, Artifacts
  <2>2. m = h => <<m, disk[m]>> \in archive
    BY <1>2, <1>4 DEF LInv, WritesArchived
  <2> QED
    BY <1>5, <2>1, <2>2
<1> QED
  BY <1>1, <1>6, <1>7, <1>8, <1>9, <1>10, <1>11 DEF LInv

LEMMA FillKeeps ==
  ASSUME LInv, FillFile
  PROVE  LInv'
<1> DEFINE h == Head(toWrite)
<1>1. StoreInv'
  BY StoreStutters DEF LInv, FillFile
<1>2. /\ UNCHANGED <<archive, trainer, labels, trainings, deaths, served, loading, answer, restarts>>
      /\ trainer = "writing" /\ toWrite # <<>> /\ disk[h] = Torn
      /\ disk' = [disk EXCEPT ![h] = trainings] /\ toWrite' = Tail(toWrite)
  BY DEF FillFile, servingVars, Whole
<1>3. /\ toWrite \in Seq(Artifacts) /\ h \in Artifacts /\ toWrite' \in Seq(Artifacts)
      /\ Len(toWrite') = Len(toWrite) - 1 /\ Len(toWrite) \in Nat
      /\ \A i \in 1..Len(toWrite') : toWrite'[i] = toWrite[i + 1]
  BY <1>2, HeadTailProperties, LenProperties DEF LInv, RetrainTypeOK
<1>4. /\ disk' \in [Artifacts -> Generations \cup {Torn}]
      /\ disk'[h] = trainings /\ \A f \in Artifacts \ {h} : disk'[f] = disk[f]
      /\ trainings \in Nat
  BY <1>2, <1>3, RetrainingAssumption DEF LInv, RetrainTypeOK, Generations
<1>5. RetrainTypeOK'
  BY <1>1, <1>2, <1>3, <1>4 DEF LInv, RetrainTypeOK, StoreInv
<1>6. /\ DOMAIN toWrite' = 1..Len(toWrite') /\ DOMAIN toWrite = 1..Len(toWrite)
      /\ toWrite[1] = h /\ 1 \in DOMAIN toWrite
      /\ \A i \in DOMAIN toWrite' : i + 1 \in DOMAIN toWrite /\ i + 1 # 1 /\ i \in Nat
  BY <1>2, <1>3
<1>7. WritesOnce'
  <2> SUFFICES ASSUME NEW i \in DOMAIN toWrite', NEW j \in DOMAIN toWrite', toWrite'[i] = toWrite'[j]
               PROVE  i = j
    BY DEF WritesOnce
  <2>1. toWrite[i + 1] = toWrite[j + 1] /\ i + 1 \in DOMAIN toWrite /\ j + 1 \in DOMAIN toWrite
    BY <1>3, <1>6
  <2>2. i + 1 = j + 1
    BY <2>1 DEF LInv, WritesOnce
  <2> QED
    BY <1>6, <2>2
<1>8. \A f : Pending(f)' => Pending(f) /\ f # h
  <2> SUFFICES ASSUME NEW f, NEW i \in DOMAIN toWrite', toWrite'[i] = f
               PROVE  Pending(f) /\ f # h
    BY DEF Pending
  <2>1. toWrite[i + 1] = f /\ i + 1 \in DOMAIN toWrite /\ i + 1 # 1
    BY <1>3, <1>6
  <2> QED
    BY <1>6, <2>1 DEF LInv, WritesOnce, Pending
<1>9. \A f : Pending(f) /\ f # h => Pending(f)'
  <2> SUFFICES ASSUME NEW f, NEW i \in DOMAIN toWrite, toWrite[i] = f, f # h
               PROVE  \E j \in DOMAIN toWrite' : toWrite'[j] = f
    BY DEF Pending
  <2>1. i - 1 \in 1..Len(toWrite') /\ (i - 1) + 1 = i
    BY <1>3, <1>6
  <2> QED
    BY <1>3, <1>6, <2>1
<1>10. DecidedOnWhole' /\ RestIsClean'
  BY <1>2 DEF DecidedOnWhole, RestIsClean
<1>11. WritesArchived'
  <2> SUFFICES ASSUME NEW m \in Models, Pending(m)', disk'[m] # Torn
               PROVE  <<m, disk'[m]>> \in archive
    BY <1>2 DEF WritesArchived, Whole
  <2>1. Pending(m) /\ m # h /\ m \in Artifacts
    BY <1>8 DEF Artifacts
  <2> QED
    BY <1>2, <1>4, <2>1 DEF LInv, WritesArchived, Whole
<1>12. Dated'
  <2> SUFFICES ASSUME NEW f \in Artifacts
               PROVE  /\ disk'[f] # Torn => disk'[f] <= trainings
                      /\ served[f] # None =>
                           served[f] <= trainings /\ (disk'[f] # Torn => served[f] <= disk'[f])
    BY <1>2 DEF Dated, Whole
  <2>1. CASE f = h
    BY <1>4, <2>1 DEF LInv, Dated
  <2>2. CASE f # h
    BY <1>4, <2>2 DEF LInv, Dated, Whole
  <2> QED
    BY <2>1, <2>2
<1>13. WritingIsClean'
  <2>1. ASSUME deaths = 0, NEW f \in {"scaler", "label_encoder"}
        PROVE  Pending(f)' \/ disk'[f] = trainings
    <3>1. f \in Artifacts /\ (Pending(f) \/ disk[f] = trainings)
      BY <1>2, <2>1 DEF LInv, WritingIsClean, Artifacts
    <3> QED
      BY <1>4, <1>9, <3>1
  <2>2. ASSUME deaths = 0, NEW f \in Artifacts
        PROVE  disk'[f] # Torn
    <3>1. CASE f = h
      BY <1>4, <3>1, RetrainingAssumption
    <3>2. CASE f # h
      BY <1>2, <1>4, <2>2, <3>2 DEF LInv, WritingIsClean, Whole
    <3> QED
      BY <3>1, <3>2
  <2> QED
    BY <1>2, <2>1, <2>2 DEF WritingIsClean, Whole
<1>14. NoModelLost'
  <2> SUFFICES ASSUME NEW m \in Models, served[m] # None
               PROVE  disk'[m] = served[m] \/ <<m, served[m]>> \in archive
    BY <1>2 DEF NoModelLost
  <2>1. m \in Artifacts /\ (disk[m] = served[m] \/ <<m, served[m]>> \in archive)
    BY DEF LInv, NoModelLost, Artifacts
  <2>2. served[m] # Torn
    BY <2>1, RetrainingAssumption DEF LInv, RetrainTypeOK, Generations
  <2> QED
    BY <1>2, <1>4, <2>1, <2>2
<1> QED
  BY <1>1, <1>5, <1>7, <1>10, <1>11, <1>12, <1>13, <1>14 DEF LInv

\* When all is written, everything is whole and of this retraining or older.
LEMMA AskReloadKeeps ==
  ASSUME LInv, AskReload
  PROVE  LInv'
<1>1. StoreInv'
  BY StoreStutters DEF LInv, AskReload
<1>2. /\ UNCHANGED <<disk, archive, labels, toWrite, trainings, deaths, served, loading, restarts>>
      /\ trainer = "writing" /\ toWrite = <<>> /\ trainer' = "reloading" /\ answer' = TRUE
  BY DEF AskReload
<1>3. RetrainTypeOK'
  BY <1>1, <1>2 DEF LInv, RetrainTypeOK, StoreInv
<1>4. DecidedOnWhole' /\ WritesArchived' /\ WritingIsClean'
  BY <1>2 DEF DecidedOnWhole, WritesArchived, WritingIsClean
<1>5. WritesOnce' /\ Dated' /\ NoModelLost'
  BY <1>2 DEF LInv, WritesOnce, Dated, NoModelLost, Whole
<1>6. RestIsClean'
  <2> SUFFICES ASSUME deaths = 0
               PROVE  /\ \A f \in Artifacts : Whole(f)
                      /\ disk["scaler"] = disk["label_encoder"]
                      /\ \A m \in Models : disk[m] <= disk["scaler"]
    BY <1>2 DEF RestIsClean, Whole
  <2>1. \A f : ~Pending(f)
    BY <1>2 DEF Pending
  <2>2. /\ \A f \in Artifacts : Whole(f)
        /\ disk["scaler"] = trainings /\ disk["label_encoder"] = trainings
    BY <1>2, <2>1 DEF LInv, WritingIsClean
  <2> QED
    BY <2>2 DEF LInv, Dated, Artifacts
<1> QED
  BY <1>1, <1>3, <1>4, <1>5, <1>6 DEF LInv

LEMMA EndKeeps ==
  ASSUME LInv, ReloadEnds \/ TrainerDies
  PROVE  LInv'
<1>1. StoreInv'
  BY StoreStutters DEF LInv, ReloadEnds, TrainerDies
<1>2. /\ UNCHANGED <<disk, archive, labels, trainings, served, loading, restarts>>
      /\ trainer' = "idle" /\ answer' \in {answer, FALSE}
      /\ \/ toWrite' = toWrite /\ deaths' = deaths /\ trainer = "reloading"
         \/ toWrite' = <<>> /\ deaths' = deaths + 1 /\ deaths < MaxDeaths
  BY DEF ReloadEnds, TrainerDies, servingVars
<1>3. deaths \in Nat /\ deaths' \in 0..MaxDeaths /\ (deaths' = 0 => deaths = 0 /\ trainer = "reloading")
  BY <1>2, RetrainingAssumption DEF LInv, RetrainTypeOK
<1>4. RetrainTypeOK'
  BY <1>1, <1>2, <1>3, EmptySeq DEF LInv, RetrainTypeOK, StoreInv
<1>5. DecidedOnWhole' /\ WritesArchived' /\ WritingIsClean'
  BY <1>2 DEF DecidedOnWhole, WritesArchived, WritingIsClean
<1>6. WritesOnce'
  BY <1>2 DEF LInv, WritesOnce
<1>7. Dated' /\ NoModelLost'
  BY <1>2 DEF LInv, Dated, NoModelLost, Whole
<1>8. RestIsClean'
  BY <1>2, <1>3 DEF LInv, RestIsClean, Whole
<1> QED
  BY <1>1, <1>4, <1>5, <1>6, <1>7, <1>8 DEF LInv

\* The inference service: what it comes to hold is a whole file, or nothing.
LEMMA ServingKeeps ==
  ASSUME LInv, Reload \/ LoadFile \/ Restart
  PROVE  LInv'
<1>1. StoreInv'
  BY StoreStutters DEF LInv, Reload, LoadFile, Restart
<1>2. UNCHANGED trainVars
  BY DEF Reload, LoadFile, Restart
<1>3. /\ served' \in [Artifacts -> Generations \cup {None}]
      /\ \A f \in Artifacts : \/ served'[f] = served[f]
                              \/ served'[f] = None
                              \/ Whole(f) /\ served'[f] = disk[f]
      /\ loading' \in Seq(Artifacts) /\ answer' \in BOOLEAN /\ restarts' \in 0..MaxServiceRestarts
  <2>1. CASE Reload
    BY <2>1, RetrainingAssumption DEF LInv, RetrainTypeOK, Reload
  <2>2. CASE LoadFile
    <3> DEFINE f == Head(loading)
    <3>1. loading' = Tail(loading) /\ loading # <<>> /\ UNCHANGED <<answer, restarts>>
          /\ served' = IF Whole(f) THEN [served EXCEPT ![f] = disk[f]] ELSE served
      BY <2>2 DEF LoadFile
    <3>2. f \in Artifacts /\ loading' \in Seq(Artifacts)
      BY <3>1, HeadTailProperties DEF LInv, RetrainTypeOK
    <3>3. CASE Whole(f)
      <4>1. disk[f] \in Generations
        BY <3>2, <3>3 DEF LInv, RetrainTypeOK, Whole
      <4> QED
        BY <3>1, <3>2, <3>3, <4>1 DEF LInv, RetrainTypeOK
    <3>4. CASE ~Whole(f)
      BY <3>1, <3>2, <3>4 DEF LInv, RetrainTypeOK
    <3> QED
      BY <3>3, <3>4
  <2>3. CASE Restart
    <3>1. /\ restarts < MaxServiceRestarts /\ restarts' = restarts + 1 /\ answer' = FALSE
          /\ served' = [f \in Artifacts |-> None] /\ loading' = Files
      BY <2>3 DEF Restart
    <3>2. restarts' \in 0..MaxServiceRestarts /\ Files \in Seq(Artifacts)
      BY <3>1, RetrainingAssumption DEF LInv, RetrainTypeOK
    <3> QED
      BY <3>1, <3>2
  <2> QED
    BY <2>1, <2>2, <2>3
<1>4. RetrainTypeOK'
  BY <1>1, <1>2, <1>3 DEF LInv, RetrainTypeOK, StoreInv, trainVars
<1>5. DecidedOnWhole' /\ WritesOnce' /\ WritesArchived' /\ WritingIsClean' /\ RestIsClean'
  BY <1>2 DEF LInv, DecidedOnWhole, WritesOnce, WritesArchived, WritingIsClean, RestIsClean,
              Whole, Pending, trainVars
<1>6. Dated'
  <2> SUFFICES ASSUME NEW f \in Artifacts
               PROVE  /\ Whole(f) => disk[f] <= trainings
                      /\ served'[f] # None =>
                           served'[f] <= trainings /\ (Whole(f) => served'[f] <= disk[f])
    BY <1>2 DEF Dated, Whole, trainVars
  <2>1. Whole(f) => disk[f] \in Nat /\ disk[f] <= trainings
    BY RetrainingAssumption DEF LInv, Dated, RetrainTypeOK, Generations, Whole
  <2> QED
    BY <1>3, <2>1 DEF LInv, Dated
<1>7. NoModelLost'
  BY <1>2, <1>3 DEF LInv, NoModelLost, Artifacts, trainVars
<1> QED
  BY <1>1, <1>4, <1>5, <1>6, <1>7 DEF LInv

\* The strengthened invariant is inductive.
THEOREM RetrainInductive ==
  ASSUME LInv, [RetrainNext]_retrainVars
  PROVE  LInv'
<1>1. CASE StoreNext /\ UNCHANGED <<trainVars, servingVars>>
  BY <1>1, StoreStep, StoreKeeps DEF LInv
<1>2. CASE UNCHANGED retrainVars
  BY <1>2, StoreStutters, StoreKeeps DEF LInv, retrainVars
<1> QED
  BY <1>1, <1>2, LoadFeedbackKeeps, TrainKeeps, ArchiveKeeps, OpenKeeps, FillKeeps,
     AskReloadKeeps, EndKeeps, ServingKeeps DEF RetrainNext

LEMMA RetrainInvariant == RetrainSpec => []LInv
<1>1. LInv /\ [RetrainNext]_retrainVars => LInv'
  BY RetrainInductive
<1> QED
  BY RetrainStarts, <1>1, PTL DEF RetrainSpec

\* has_feedback and the counter tell of stored feedback whatever updates are lost.
THEOREM FilterTruthfulHolds == RetrainSpec => []FilterTruthful
<1>1. LInv => FilterTruthful
  BY DEF LInv, StoreInv
<1> QED
  BY RetrainInvariant, <1>1, PTL

\* Files are well formed, no served model is lost, and the scaler follows.
THEOREM FilesConsistentHolds == RetrainSpec => []FilesConsistent
<1>1. LInv => FilesConsistent
  BY DEF LInv, FilesConsistent, RestIsClean, ScalerFollows, Artifacts
<1> QED
  BY RetrainInvariant, <1>1, PTL

\* No step replaces what is served by something older.
THEOREM ServedNeverOlderHolds == RetrainSpec => ServedNeverOlder
<1>1. ASSUME LInv, [RetrainNext]_retrainVars
      PROVE  \A f \in Artifacts : served[f] # None /\ served'[f] # None => served'[f] >= served[f]
  <2> SUFFICES ASSUME NEW f \in Artifacts, served[f] # None, served'[f] # None
               PROVE  served'[f] >= served[f]
    OBVIOUS
  <2>1. served[f] \in Nat /\ (Whole(f) => served[f] <= disk[f] /\ disk[f] \in Nat)
    <3>1. RetrainTypeOK /\ Dated
      BY <1>1 DEF LInv
    <3>2. served[f] \in Nat /\ (Whole(f) => disk[f] \in Nat)
      BY <3>1, RetrainingAssumption DEF RetrainTypeOK, Generations, Whole
    <3> QED
      BY <3>1, <3>2 DEF Dated
  <2>2. CASE served'[f] = served[f]
    BY <2>1, <2>2
  <2>3. CASE LoadFile
    <3> DEFINE g == Head(loading)
    <3>1. g \in Artifacts
      <4>1. loading \in Seq(Artifacts) /\ loading # <<>>
        BY <1>1, <2>3 DEF LInv, RetrainTypeOK, LoadFile
      <4> QED
        BY <4>1, HeadTailProperties
    <3>2. served' = IF Whole(g) THEN [served EXCEPT ![g] = disk[g]] ELSE served
      BY <2>3 DEF LoadFile
    <3>3. served'[f] = served[f] \/ (Whole(f) /\ served'[f] = disk[f])
      BY <1>1, <3>1, <3>2 DEF LInv, RetrainTypeOK
    <3> QED
      BY <2>1, <3>3
  <2>4. CASE Restart
    BY <2>4 DEF Restart
  <2>5. LoadFile \/ Restart \/ served' = served
    BY <1>1 DEF RetrainNext, retrainVars, servingVars, LoadFeedback, Train, Archive, OpenFile, FillFile,
                AskReload, ReloadEnds, TrainerDies, Reload
  <2> QED
    BY <2>2, <2>3, <2>4, <2>5
<1> QED
  BY RetrainInvariant, <1>1, PTL DEF RetrainSpec, ServedNeverOlder

\* A file left torn stays torn, and nothing is promoted past it.
THEOREM DamageIsPermanentHolds == RetrainSpec => DamageIsPermanent
<1> DEFINE Stays == trainer # "writing" =>
             \A f \in Artifacts : ~Whole(f) => disk'[f] = Torn /\ trainer' # "decided"
<1>1. ASSUME LInv, [RetrainNext]_retrainVars
      PROVE  Stays
  <2> SUFFICES ASSUME trainer # "writing", NEW f \in Artifacts, disk[f] = Torn
               PROVE  disk'[f] = Torn /\ trainer' # "decided"
    BY DEF Whole
  <2>1. disk' = disk /\ LInv
    BY <1>1 DEF RetrainNext, retrainVars, trainVars, LoadFeedback, Train, Archive, OpenFile, FillFile,
                AskReload, ReloadEnds, TrainerDies, Reload, LoadFile, Restart
  <2>2. trainer # "decided"
    BY <2>1 DEF LInv, DecidedOnWhole, Whole
  <2>3. Tear
    BY DEF Tear, Whole
  <2>4. trainer' # "decided"
    BY <1>1, <2>2, <2>3 DEF RetrainNext, retrainVars, trainVars, LoadFeedback, Train, Archive, OpenFile,
                FillFile, AskReload, ReloadEnds, TrainerDies, Reload, LoadFile, Restart
  <2> QED
    BY <2>1, <2>4
<1> QED
  BY RetrainInvariant, <1>1, PTL DEF RetrainSpec, DamageIsPermanent
=============================================================================
