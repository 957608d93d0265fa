------------------------------ MODULE Retraining ------------------------------
(***************************************************************************)
(* retrain.py beside the feedback service and the ML inference service: a  *)
(* process of its own reads labelled feedback, trains, and replaces files   *)
(* one after the other in the directory from which the inference service   *)
(* loads them, one after the other too. Either process may die anywhere.   *)
(*                                                                         *)
(* A file is known by its generation, the number of the retraining that    *)
(* wrote it, 0 for the original one; Torn is a file opened for writing     *)
(* whose content is not complete.                                          *)
(***************************************************************************)
EXTENDS FeedbackStore, Sequences

CONSTANTS
  Models,       \* the names of the models
  Files,        \* the order in which load_models reads models, scaler, encoder
  MinLabels,    \* RETRAIN_THRESHOLD
  MaxTrainings, \* bound: retrainings
  MaxDeaths,    \* bound: deaths of the training process
  MaxServiceRestarts, \* bound: restarts of the inference service
  Torn

Artifacts == Models \cup {"scaler", "label_encoder"}

ASSUME RetrainingAssumption ==
  /\ IsFiniteSet(Models) /\ Models \cap {"scaler", "label_encoder"} = {}
  /\ Files \in Seq(Artifacts) /\ \A f \in Artifacts : \E i \in DOMAIN Files : Files[i] = f
  /\ MinLabels \in Nat /\ MaxTrainings \in Nat
  /\ MaxDeaths \in Nat /\ MaxServiceRestarts \in Nat
  /\ None \notin Nat /\ Torn \notin Nat /\ Torn # None

VARIABLES
  disk,      \* the files in MODEL_DIR
  archive,   \* the models in MODEL_DIR/history, as <<model, generation>>
  trainer,   \* "idle", "loaded", "decided", "writing", "reloading"
  labels,    \* the labelled feedback the training has read
  toWrite,   \* the files still to be written, in order
  trainings, \* retrainings begun
  deaths,    \* of the training process
  served,    \* what the inference service holds; None if it never could load it
  loading,   \* the files still to be loaded, <<>> if it serves
  answer,    \* the training process waits for /models/reload
  restarts   \* of the inference service

trainVars == <<disk, archive, trainer, labels, toWrite, trainings, deaths>>
servingVars == <<served, loading, answer, restarts>>
retrainVars == <<storeVars, trainVars, servingVars>>

Whole(f) == disk[f] # Torn
Tear == \E f \in Artifacts : ~Whole(f)

RetrainInit ==
  /\ StoreInit
  /\ disk = [f \in Artifacts |-> 0] /\ archive = {}
  /\ trainer = "idle" /\ labels = {} /\ toWrite = <<>> /\ trainings = 0 /\ deaths = 0
  /\ served = [f \in Artifacts |-> 0] /\ loading = <<>> /\ answer = FALSE /\ restarts = 0

(***************************************************************************)
(* The training process.                                                   *)
(***************************************************************************)

\* load_feedback_data and the threshold, which --force ignores.
LoadFeedback ==
  /\ trainer = "idle" /\ trainings < MaxTrainings
  /\ labels' = feedback \cap Labelled
  /\ trainings' = trainings + 1
  /\ \E forced \in BOOLEAN :
       trainer' = IF labels' = {} \/ (~forced /\ Cardinality(labels') < MinLabels)
                  THEN "idle" ELSE "loaded"
  /\ UNCHANGED <<disk, archive, toWrite, deaths, storeVars, servingVars>>

\* Mutant: an unreadable file is passed over.
TrainMutant ==
  /\ trainer = "loaded"
  /\ trainer' \in {"decided", "idle"}
  /\ UNCHANGED <<disk, archive, labels, toWrite, trainings, deaths, storeVars, servingVars>>

\* The artifacts and current models are unpickled, candidates are trained and
\* compared. An unreadable file ends the process, as does a split that cannot be
\* stratified, a missing champion, evaluate-only, or no improvement.
Train ==
  /\ trainer = "loaded"
  /\ trainer' \in IF Tear THEN {"idle"} ELSE {"decided", "idle"}
  /\ UNCHANGED <<disk, archive, labels, toWrite, trainings, deaths, storeVars, servingVars>>

\* The promoted models are written in the order in which they were trained.
Orders(promoted) ==
  {order \in [1..Cardinality(promoted) -> promoted] :
     \A i, j \in DOMAIN order : order[i] = order[j] => i = j}

\* Mutant: nothing is archived.
ArchiveMutant ==
  /\ trainer = "decided"
  /\ \E promoted \in (SUBSET Models) \ {{}} : \E order \in Orders(promoted) :
       toWrite' = order \o <<"scaler", "label_encoder">>
  /\ UNCHANGED archive
  /\ trainer' = "writing"
  /\ UNCHANGED <<disk, labels, trainings, deaths, storeVars, servingVars>>

\* save_models copies all models to the history before it writes those that won;
\* neither scaler nor encoder is copied. Both are written with any model.
Archive ==
  /\ trainer = "decided"
  /\ \E promoted \in (SUBSET Models) \ {{}} : \E order \in Orders(promoted) :
       toWrite' = order \o <<"scaler", "label_encoder">>
  /\ archive' = archive \cup {<<m, disk[m]>> : m \in Models}
  /\ trainer' = "writing"
  /\ UNCHANGED <<disk, labels, trainings, deaths, storeVars, servingVars>>

\* open(path, "wb") empties the file ...
OpenFile ==
  /\ trainer = "writing" /\ toWrite # <<>> /\ Whole(Head(toWrite))
  /\ disk' = [disk EXCEPT ![Head(toWrite)] = Torn]
  /\ UNCHANGED <<archive, trainer, labels, toWrite, trainings, deaths, storeVars, servingVars>>

\* ... and pickle.dump fills it.
FillFile ==
  /\ trainer = "writing" /\ toWrite # <<>> /\ ~Whole(Head(toWrite))
  /\ disk' = [disk EXCEPT ![Head(toWrite)] = trainings]
  /\ toWrite' = Tail(toWrite)
  /\ UNCHANGED <<archive, trainer, labels, trainings, deaths, storeVars, servingVars>>

\* The metadata is written and the inference service asked to reload.
AskReload ==
  /\ trainer = "writing" /\ toWrite = <<>>
  /\ trainer' = "reloading" /\ answer' = TRUE
  /\ UNCHANGED <<disk, archive, labels, toWrite, trainings, deaths, storeVars, served, loading, restarts>>

\* trigger_reload has its answer, or gives up after ten seconds; both are logged.
ReloadEnds ==
  /\ trainer = "reloading" /\ trainer' = "idle"
  /\ answer' \in {answer, FALSE}
  /\ UNCHANGED <<disk, archive, labels, toWrite, trainings, deaths, storeVars, served, loading, restarts>>

TrainerDies ==
  /\ trainer # "idle" /\ deaths < MaxDeaths
  /\ trainer' = "idle" /\ toWrite' = <<>> /\ deaths' = deaths + 1
  /\ UNCHANGED <<disk, archive, labels, trainings, storeVars, servingVars>>

(***************************************************************************)
(* The inference service. It answers nothing while it loads.               *)
(***************************************************************************)

\* The reload the training process asked for begins, perhaps after it gave up.
Reload ==
  /\ answer /\ loading = <<>>
  /\ answer' = FALSE /\ loading' = Files
  /\ UNCHANGED <<served, restarts, storeVars, trainVars>>

\* Mutant: a torn file is replaced by the first copy in the history.
LoadFileHistoryMutant ==
  /\ loading # <<>>
  /\ LET f == Head(loading)
     IN served' = IF Whole(f) THEN [served EXCEPT ![f] = disk[f]]
                  ELSE IF f \in Models THEN [served EXCEPT ![f] = 0] ELSE served
  /\ loading' = Tail(loading)
  /\ UNCHANGED <<answer, restarts, storeVars, trainVars>>

\* One file: one that cannot be unpickled leaves what the process had before.
LoadFile ==
  /\ loading # <<>>
  /\ LET f == Head(loading)
     IN served' = IF Whole(f) THEN [served EXCEPT ![f] = disk[f]] ELSE served
  /\ loading' = Tail(loading)
  /\ UNCHANGED <<answer, restarts, storeVars, trainVars>>

\* A new process has nothing but what it can load now.
Restart ==
  /\ restarts < MaxServiceRestarts
  /\ restarts' = restarts + 1
  /\ served' = [f \in Artifacts |-> None] /\ loading' = Files /\ answer' = FALSE
  /\ UNCHANGED <<storeVars, trainVars>>

RetrainNext ==
  \/ StoreNext /\ UNCHANGED <<trainVars, servingVars>>
  \/ LoadFeedback \/ Train \/ Archive \/ OpenFile \/ FillFile \/ AskReload \/ ReloadEnds
  \/ TrainerDies \/ Reload \/ LoadFile \/ Restart

RetrainSpec == RetrainInit /\ [][RetrainNext]_retrainVars

(***************************************************************************)
(* Properties.                                                             *)
(***************************************************************************)

Generations == 0..MaxTrainings

\* Types of the tables and of the files, in both processes.
RetrainTypeOK ==
  /\ StoreTypeOK
  /\ disk \in [Artifacts -> Generations \cup {Torn}]
  /\ archive \subseteq Models \X Generations
  /\ trainer \in {"idle", "loaded", "decided", "writing", "reloading"}
  /\ labels \subseteq Labelled /\ toWrite \in Seq(Artifacts)
  /\ trainings \in Generations /\ deaths \in 0..MaxDeaths
  /\ served \in [Artifacts -> Generations \cup {None}]
  /\ loading \in Seq(Artifacts) /\ answer \in BOOLEAN /\ restarts \in 0..MaxServiceRestarts

\* A file the training process died on stays torn for ever: the next retrainings
\* unpickle all files before they write any, and fail there.
DamageIsPermanent ==
  [][trainer # "writing" =>
       \A f \in Artifacts : ~Whole(f) => disk'[f] = Torn /\ trainer' # "decided"]_retrainVars

\* The models that were ever in use can be brought back: one that is served and
\* not on disk any more is in the history, through any deaths.
NoModelLost ==
  \A m \in Models : served[m] # None => disk[m] = served[m] \/ <<m, served[m]>> \in archive

\* A reload never goes back: although files are replaced one by one while they
\* are loaded, what the service holds is replaced only by something newer.
ServedNeverOlder ==
  [][\A f \in Artifacts :
       served[f] # None /\ served'[f] # None => served'[f] >= served[f]]_retrainVars

\* A model on disk is newer than the scaler only while they are being written or
\* if the training process died over it.
ScalerFollows ==
  deaths = 0 /\ trainer # "writing" =>
    \A m \in Models : Whole(m) /\ disk["scaler"] = disk["label_encoder"] /\ disk[m] <= disk["scaler"]

\* The files of the two processes: well formed, no model in use is ever lost,
\* and the scaler is that of the newest model.
FilesConsistent == RetrainTypeOK /\ NoModelLost /\ ScalerFollows

\* inference_api.py: "Validate supporting artifacts loaded": the service answers
\* only with a scaler.
NeverUnscaled ==
  loading = <<>> /\ served["label_encoder"] # None /\ (\E m \in Models : served[m] # None) =>
    served["scaler"] # None
=============================================================================
