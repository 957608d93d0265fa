---------------------------- MODULE AttackPredictor ----------------------------
(***************************************************************************)
(* predictor.py and POST /predict/retrain: transition counts between kill  *)
(* chain stages, learned from closed incidents. Training empties the       *)
(* counts, then awaits the database once for the incidents and once for    *)
(* each of them; nothing keeps a second training, or a prediction, out.    *)
(* One process; the other has a predictor of its own.                      *)
(***************************************************************************)
EXTENDS Naturals, Sequences, FiniteSets, Totals

CONSTANTS
  Stages,     \* kill chain stages
  NoStage,    \* an alert without one
  Defaulted,  \* the stages _default_predictions knows
  Closed,     \* closed incidents with two alerts or more
  AlertStages,\* their alerts' stages in the order they were added
  Trainings   \* calls of train: at the start of the process, or requested

ASSUME PredictorAssumption ==
  /\ IsFiniteSet(Stages) /\ IsFiniteSet(Closed)
  /\ NoStage \notin Stages /\ Defaulted \subseteq Stages
  /\ AlertStages \in [Closed -> Seq(Stages \cup {NoStage})]

VARIABLES
  transitions, \* counts: from stage, to stage
  stageTotals, \* stage_totals
  trained,     \* the flag
  training     \* each call: phase, incidents left, whether it was alone

predictorVars == <<transitions, stageTotals, trained, training>>

NoCounts == [s \in Stages |-> [u \in Stages |-> 0]]
NoTotals == [s \in Stages |-> 0]

PredictorInit ==
  /\ transitions = NoCounts /\ stageTotals = NoTotals /\ trained = FALSE
  /\ training = [t \in Trainings |-> [phase |-> "idle", left |-> {}, alone |-> FALSE]]

InProgress(t) == training[t].phase \in {"selecting", "counting"}

\* The counts are bound anew; a training in progress goes on with the new ones.
\* (alone is bookkeeping for the properties: no other call in between.)
Opened(t) ==
  [u \in Trainings |->
     IF u = t
     THEN [phase |-> "selecting", left |-> {}, alone |-> \A v \in Trainings : ~InProgress(v)]
     ELSE [training[u] EXCEPT !.alone = FALSE]]

\* Mutant: neither is.
BeginTrainingOnTopMutant(t) ==
  /\ training[t].phase = "idle"
  /\ training' = Opened(t)
  /\ UNCHANGED <<trained, transitions, stageTotals>>

BeginTraining(t) ==
  /\ training[t].phase = "idle"
  /\ transitions' = NoCounts /\ stageTotals' = NoTotals
  /\ training' = Opened(t)
  /\ UNCHANGED trained

\* The incidents are read; without any, training is over.
SelectIncidents(t) ==
  /\ training[t].phase = "selecting"
  /\ training' = [training EXCEPT ![t].left = Closed,
                                  ![t].phase = IF Closed = {} THEN "done" ELSE "counting"]
  /\ trained' = (trained \/ Closed = {})
  /\ UNCHANGED <<transitions, stageTotals>>

\* Where an incident goes on to another stage: alerts without one and repetitions
\* are skipped, and so a change is from an alert to the next that has a stage.
Changes(i) ==
  LET stages == AlertStages[i]
      staged == {n \in DOMAIN stages : stages[n] # NoStage}
  IN {c \in staged \X staged :
        /\ c[1] < c[2] /\ \A n \in staged : n <= c[1] \/ c[2] <= n
        /\ stages[c[1]] # stages[c[2]]}

Steps(i, s, u) ==
  Cardinality({c \in Changes(i) : AlertStages[i][c[1]] = s /\ AlertStages[i][c[2]] = u})
StepsFrom(i, s) == Cardinality({c \in Changes(i) : AlertStages[i][c[1]] = s})

\* An incident's alerts are read and counted; with the last one, training ends.
CountIncident(t) ==
  /\ training[t].phase = "counting"
  /\ \E i \in training[t].left :
       /\ transitions' = [s \in Stages |-> [u \in Stages |-> transitions[s][u] + Steps(i, s, u)]]
       /\ stageTotals' = [s \in Stages |-> stageTotals[s] + StepsFrom(i, s)]
       /\ training' = [training EXCEPT ![t].left = @ \ {i},
                                       ![t].phase = IF training[t].left = {i} THEN "done" ELSE "counting"]
       /\ trained' = (trained \/ training[t].left = {i})

\* The database fails: the call ends with what it has counted.
TrainingFails(t) ==
  /\ InProgress(t)
  /\ training' = [training EXCEPT ![t].phase = "failed"]
  /\ UNCHANGED <<transitions, stageTotals, trained>>

PredictorNext ==
  \E t \in Trainings : \/ BeginTraining(t) \/ SelectIncidents(t)
                       \/ CountIncident(t) \/ TrainingFails(t)

PredictorSpec == PredictorInit /\ [][PredictorNext]_predictorVars

-----------------------------------------------------------------------------
(* GET /predict/{stage}.                                                    *)

Learned(s) == {u \in Stages : transitions[s][u] > 0}

\* What is predicted after a stage, and from where: the counts if there are
\* any for it, else what the code knows of attacks in general.
Predict(s) ==
  IF trained /\ Learned(s) # {} /\ stageTotals[s] > 0
  THEN {[stage |-> u, source |-> "learned"] : u \in Learned(s)}
  ELSE IF s \in Defaulted THEN {[stage |-> s, source |-> "domain_knowledge"]} ELSE {}

-----------------------------------------------------------------------------
(* What must hold.                                                          *)

\* What a stage's transitions add up to is its total, in the middle of a
\* training and with two of them in progress as much as after one: the
\* probabilities predicted after a stage never add up to more than one.
TotalsMatch ==
  \A s \in Stages : stageTotals[s] = Total(transitions[s])

\* After a training that no other overlapped or followed, the counts are those
\* of the closed incidents, whatever failed or overlapping ones had left.
LoneTrainingIsExact ==
  \A t \in Trainings : training[t].phase = "done" /\ training[t].alone =>
    \A s, u \in Stages : transitions[s][u] = Total([i \in Closed |-> Steps(i, s, u)])

\* A stage that attacks are known to go on from is never left without a
\* prediction: not while a training has emptied the counts, and not after one
\* that failed and left the flag of an earlier one standing.
AlwaysPredicts == \A s \in Defaulted : Predict(s) # {}

\* Training may overlap, fail and be read in the middle.
TrainingConsistent == TotalsMatch /\ LoneTrainingIsExact /\ AlwaysPredicts
=============================================================================
