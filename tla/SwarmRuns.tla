------------------------------- MODULE SwarmRuns -------------------------------
(***************************************************************************)
(* The background swarm runs of correlation-engine/main.py and the history *)
(* they leave (history_store.py). uvicorn starts two processes; each has   *)
(* its own swarm_tasks, swarm_store and history cache, and all append to   *)
(* one file of lines. A run is named by itself: the id in its report has   *)
(* random digits. The id its caller gets is the second it was started in.  *)
(* A run's batches are counted here; SwarmSimulator has what is in them.   *)
(***************************************************************************)
EXTENDS Integers, Sequences, FiniteSets, SequencesExt

CONSTANTS
  Processes, \* uvicorn's workers
  Runs,      \* swarm runs, each started at most once
  Batches,   \* monte_carlo_runs
  StoreSize, \* reports a process keeps (5)
  Seconds,   \* bound: the clock's range
  MaxTears,  \* bound: lines written in part
  MaxRestarts \* bound: restarts of a process

Garbage == "garbage"
NoRun == "none"

ASSUME SwarmRunsAssumption ==
  /\ IsFiniteSet(Runs) /\ Runs \cap {NoRun, Garbage} = {} /\ NoRun \notin Processes
  /\ Batches \in Nat /\ StoreSize \in Nat \ {0} /\ Seconds \in Nat \ {0}
  /\ MaxTears \in Nat /\ MaxRestarts \in Nat

VARIABLES
  second,    \* the clock
  run,       \* each run: phase, process, second of its start, batches done,
             \* and whether its process has restarted since
  tasks,     \* swarm_tasks of each process: second -> the run started last in it
  store,     \* swarm_store of each process, oldest first
  cache,     \* HistoryStore._cache of each process
  lines,     \* swarm_history.jsonl: a run's snapshot, or Garbage
  open,      \* the last line has no line end
  tears,     \* lines written in part so far
  restarts   \* restarts so far

runsVars == <<second, run, tasks, store, cache, lines, open, tears, restarts>>

NoCache == [loaded |-> FALSE, rows |-> {}]
Loaded(rows) == [loaded |-> TRUE, rows |-> rows]

Unstarted == [phase |-> "idle", process |-> NoRun, second |-> 0, batches |-> 0, lost |-> FALSE]
Started(p) == [phase |-> "running", process |-> p, second |-> second, batches |-> 0, lost |-> FALSE]

Running(r) == run[r].phase = "running" /\ ~run[r].lost

\* The state of a process that has just started (lifespan).
NoTasks == [s \in 1..Seconds |-> NoRun]

RunsInit ==
  /\ second = 1
  /\ run = [r \in Runs |-> Unstarted]
  /\ tasks = [p \in Processes |-> NoTasks]
  /\ store = [p \in Processes |-> <<>>]
  /\ cache = [p \in Processes |-> NoCache]
  /\ lines = <<>> /\ open = FALSE /\ tears = 0 /\ restarts = 0

\* POST /simulate/swarm/start: a task is spawned and entered under the second.
Start(r, p) ==
  /\ run[r].phase = "idle"
  /\ run' = [run EXCEPT ![r] = Started(p)]
  /\ tasks' = [tasks EXCEPT ![p][second] = r]
  /\ UNCHANGED <<second, store, cache, lines, open, tears, restarts>>

Tick ==
  /\ second < Seconds
  /\ second' = second + 1
  /\ UNCHANGED <<run, tasks, store, cache, lines, open, tears, restarts>>

\* Mutant: a batch that fails is run again for ever.
RunBatchMutant(r) ==
  /\ Running(r) /\ run[r].batches < Batches
  /\ UNCHANGED runsVars

\* One batch of SwarmSimulator.run is over.
RunBatch(r) ==
  /\ Running(r) /\ run[r].batches < Batches
  /\ run' = [run EXCEPT ![r].batches = @ + 1]
  /\ UNCHANGED <<second, tasks, store, cache, lines, open, tears, restarts>>

\* It raises: the task ends with {"error": ...}.
RunRaises(r) ==
  /\ Running(r) /\ run[r].batches < Batches
  /\ run' = [run EXCEPT ![r].phase = "failed"]
  /\ UNCHANGED <<second, tasks, store, cache, lines, open, tears, restarts>>

\* swarm_store: the newest StoreSize reports.
Keep(reports, r) ==
  LET all == Append(reports, r)
  IN IF Len(all) > StoreSize THEN Tail(all) ELSE all

\* _load_all: lines that do not parse are skipped; once loaded, never re-read.
Readable(file) == ToSet(file) \ {Garbage}
Load(p) == IF cache[p].loaded THEN cache[p].rows ELSE Readable(lines)

\* A line written after one without an end becomes part of it.
Written(r) == IF open THEN [lines EXCEPT ![Len(lines)] = Garbage] ELSE Append(lines, r)

\* Mutant: append does not drop the cache that get_latest has just filled.
FinishCachedMutant(r) ==
  LET p == run[r].process
  IN /\ Running(r) /\ run[r].batches = Batches
     /\ store' = [store EXCEPT ![p] = Keep(@, r)]
     /\ lines' = Written(r) /\ open' = FALSE
     /\ cache' = [cache EXCEPT ![p] = Loaded(Load(p))]
     /\ run' = [run EXCEPT ![r].phase = "complete"]
     /\ UNCHANGED <<second, tasks, tears, restarts>>

\* The rest of _run_swarm: the report is stored, a snapshot is appended to the
\* file and the cache dropped, and detect_risk_spike fills the cache again.
Finish(r) ==
  LET p == run[r].process
  IN /\ Running(r) /\ run[r].batches = Batches
     /\ store' = [store EXCEPT ![p] = Keep(@, r)]
     /\ lines' = Written(r) /\ open' = FALSE
     /\ cache' = [cache EXCEPT ![p] = Loaded(Readable(lines'))]
     /\ run' = [run EXCEPT ![r].phase = "complete"]
     /\ UNCHANGED <<second, tasks, tears, restarts>>

\* What a write that stops in the middle leaves: a piece of a line, or all of
\* it but its end, which still parses.
TornBy(r) ==
  IF open THEN {[lines EXCEPT ![Len(lines)] = Garbage]}
  ELSE {Append(lines, Garbage), Append(lines, r)}

\* The write fails (a full disk): append raises after the report was stored and
\* get_latest had filled the cache, and the task ends with an error.
WriteFails(r) ==
  LET p == run[r].process
  IN /\ Running(r) /\ run[r].batches = Batches /\ tears < MaxTears
     /\ store' = [store EXCEPT ![p] = Keep(@, r)]
     /\ lines' \in TornBy(r) /\ open' = TRUE /\ tears' = tears + 1
     /\ cache' = [cache EXCEPT ![p] = Loaded(Load(p))]
     /\ run' = [run EXCEPT ![r].phase = "failed"]
     /\ UNCHANGED <<second, tasks, restarts>>

\* The process stops and starts again: its runs, reports and cache are gone.
Forget(p) ==
  /\ restarts < MaxRestarts /\ restarts' = restarts + 1
  /\ run' = [r \in Runs |-> [run[r] EXCEPT !.lost = @ \/ run[r].process = p]]
  /\ tasks' = [tasks EXCEPT ![p] = NoTasks]
  /\ store' = [store EXCEPT ![p] = <<>>]
  /\ cache' = [cache EXCEPT ![p] = NoCache]

Restart(p) ==
  /\ \E r \in Runs : run[r].process = p /\ ~run[r].lost
  /\ Forget(p)
  /\ UNCHANGED <<second, lines, open, tears>>

\* It stops in the middle of an append.
RestartInAppend(r) ==
  /\ Running(r) /\ run[r].batches = Batches /\ tears < MaxTears
  /\ Forget(run[r].process)
  /\ lines' \in TornBy(r) /\ open' = TRUE /\ tears' = tears + 1
  /\ UNCHANGED second

\* GET /simulate/swarm/trend.
Trend(p) ==
  /\ cache' = [cache EXCEPT ![p] = Loaded(Load(p))]
  /\ UNCHANGED <<second, run, tasks, store, lines, open, tears, restarts>>

RunsNext ==
  \/ Tick
  \/ \E r \in Runs : \/ RunBatch(r) \/ RunRaises(r) \/ Finish(r)
                     \/ WriteFails(r) \/ RestartInAppend(r)
  \/ \E p \in Processes : \/ Restart(p) \/ Trend(p)
                          \/ \E r \in Runs : Start(r, p)

\* The event loop resumes a task whose simulation has answered: every request
\* to the model ends by its timeout.
RunsFairness == \A r \in Runs : WF_runsVars(RunBatch(r)) /\ WF_runsVars(Finish(r))

RunsSpec == RunsInit /\ [][RunsNext]_runsVars /\ RunsFairness

-----------------------------------------------------------------------------
(* Polling.                                                                 *)

\* GET .../status with the caller's id, in process p.
Status(p, id) ==
  IF tasks[p][id] = NoRun THEN "not_found" ELSE run[tasks[p][id]].phase

\* GET .../result with the caller's id: that id is never a key of swarm_store,
\* so the task is asked, and its report is returned from the store or from it.
Result(p, id) ==
  IF tasks[p][id] = NoRun \/ run[tasks[p][id]].phase # "complete" THEN NoRun
  ELSE tasks[p][id]

-----------------------------------------------------------------------------
(* What must hold.                                                          *)

RunsTypeOK ==
  /\ second \in 1..Seconds /\ open \in BOOLEAN /\ tears \in 0..MaxTears /\ restarts \in 0..MaxRestarts
  /\ run \in [Runs -> [phase : {"idle", "running", "complete", "failed"},
                       process : Processes \cup {NoRun}, second : 0..Seconds,
                       batches : 0..Batches, lost : BOOLEAN]]
  /\ tasks \in [Processes -> [1..Seconds -> Runs \cup {NoRun}]]
  /\ \A p \in Processes : Len(store[p]) <= StoreSize

\* The id a caller was given answers for its own run as long as the process
\* lives, unless another run was started in the same process and second: then
\* it answers for one of those.
AnswersForItsSecond ==
  \A r \in Runs : run[r].phase # "idle" /\ ~run[r].lost =>
    LET other == tasks[run[r].process][run[r].second]
    IN /\ other # NoRun
       /\ run[other].process = run[r].process /\ run[other].second = run[r].second

\* Each line written in part costs the history at most one run that was
\* reported complete: the one appended next.
TearsCostOneEach ==
  /\ Cardinality({r \in Runs : run[r].phase = "complete" /\ ~Contains(lines, r)}) <= tears
  /\ \A i, j \in DOMAIN lines : lines[i] = lines[j] /\ lines[i] # Garbage => i = j

\* The trend a process shows has every run that this process completed and the
\* file holds; runs of the other process may be missing from it for good.
OwnRunsShow ==
  \A p \in Processes, r \in Runs :
    run[r].process = p /\ run[r].phase = "complete" /\ Contains(lines, r)
      => r \in Load(p)

\* The ids, the file and a process's view of it stay in order through write
\* errors, restarts and runs started together.
HistoryConsistent == RunsTypeOK /\ AnswersForItsSecond /\ TearsCostOneEach /\ OwnRunsShow

\* The trend has every run the file holds. It does not: nothing tells a process
\* that the other one has appended.
TrendIsFresh ==
  \A p \in Processes, r \in Runs : Contains(lines, r) => r \in Load(p)

\* Whoever polls an id reads an end in the end: complete, failed, or not found
\* after a restart.
RunsEnd ==
  \A p \in Processes, id \in 1..Seconds :
    Status(p, id) = "running" ~> Status(p, id) # "running"
=============================================================================
