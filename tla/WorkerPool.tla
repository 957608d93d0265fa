----------------------------- MODULE WorkerPool -----------------------------
(***************************************************************************)
(* The asynchronous triage jobs of one alert-triage process: POST          *)
(* /analyze/async puts a job into a priority queue, the pool's workers     *)
(* take the jobs and keep their results for GET /jobs/{job_id}.            *)
(*                                                                         *)
(* The service starts the pool before it accepts requests and stops it     *)
(* after the last request, when it shuts down.  A coroutine is             *)
(* interrupted only where it awaits: in queue.get, in the analysis, and in *)
(* the gather of stop.                                                     *)
(*                                                                         *)
(* Job ids are fresh and results are kept for ever; here an id whose job   *)
(* is finished may be used again, so behaviours with any number of         *)
(* submissions are covered by finitely many ids.                           *)
(***************************************************************************)
EXTENDS Naturals, FiniteSets

CONSTANTS
  Jobs,            \* ids of the jobs that are not forgotten
  Workers,         \* worker_count of them
  RuleLevels,      \* the Wazuh rule levels of the alerts submitted
  QueueThreshold,
  BreakerEnabled   \* circuit_breaker_enabled

ASSUME PoolAssumption ==
  /\ IsFiniteSet(Jobs) /\ IsFiniteSet(Workers)
  /\ RuleLevels \subseteq Nat
  /\ QueueThreshold \in Nat
  /\ BreakerEnabled \in BOOLEAN

VARIABLES
  phase,    \* of the service: serving, stopping (in stop), stopped
  job,      \* _results, with the priority of the queued object
  queue,    \* the jobs in _queue
  pills,    \* the STOP entries in _queue
  worker    \* the coroutines

poolVars == <<phase, job, queue, pills, worker>>

-----------------------------------------------------------------------------
Critical == 0
High == 1
Medium == 2
Low == 3

NoId == "none"
Listening == [pc |-> "waiting", job |-> NoId, mlOnly |-> FALSE]
Ended == [pc |-> "ended", job |-> NoId, mlOnly |-> FALSE]
NoJob == [status |-> "absent", priority |-> Low, breaker |-> FALSE]

Unfinished(j) == job[j].status \in {"queued", "processing"}

\* The job a worker is awaiting the analysis of.
Holds(w, j) == worker[w].pc = "busy" /\ worker[w].job = j

Priority(level) ==
  IF level >= 12 THEN Critical ELSE IF level >= 10 THEN High ELSE IF level >= 7 THEN Medium ELSE Low

\* qsize() > queue_threshold, where waiting jobs and pills are left in the queue.
Deep(waiting) == Cardinality(waiting) + pills > QueueThreshold

\* The entries PriorityQueue may return: heapq is not stable among equals, and
\* a pill comes after every job.
Firsts == {j \in queue : \A k \in queue : job[j].priority <= job[k].priority}

\* After start(): the workers have no pill and no job to find yet.
PoolInit ==
  /\ phase = "serving"
  /\ job = [j \in Jobs |-> NoJob]
  /\ queue = {}
  /\ pills = 0
  /\ worker = [w \in Workers |-> Listening]

-----------------------------------------------------------------------------
\* submit, called by POST /analyze/async.
Submit(j, level) ==
  /\ phase = "serving"
  /\ ~Unfinished(j)
  /\ job' = [job EXCEPT ![j] = [status |-> "queued", priority |-> Priority(level), breaker |-> FALSE]]
  /\ queue' = queue \cup {j}
  /\ UNCHANGED <<phase, pills, worker>>

\* Mutant: the job is shown as queued until it has a result.
TakeMutant(w) ==
  /\ worker[w].pc = "waiting"
  /\ \E j \in Firsts :
       /\ queue' = queue \ {j}
       /\ worker' = [worker EXCEPT ![w] = [pc |-> "busy", job |-> j, mlOnly |-> FALSE]]
  /\ UNCHANGED <<phase, job, pills>>

\* A worker gets a job and chooses between the full analysis and ml_only_fn.
Take(w) ==
  /\ worker[w].pc = "waiting"
  /\ \E j \in Firsts :
       /\ queue' = queue \ {j}
       /\ job' = [job EXCEPT ![j].status = "processing"]
       /\ worker' = [worker EXCEPT ![w] =
                       [pc |-> "busy", job |-> j,
                        mlOnly |-> BreakerEnabled /\ Deep(queue') /\ job[j].priority >= Medium]]
  /\ UNCHANGED <<phase, pills>>

\* The loop's condition, evaluated after every turn.
Loop == IF phase = "serving" THEN Listening ELSE Ended

\* Mutant: a worker whose analysis raises leaves the loop.
FinishJobMutant(w) ==
  /\ worker[w].pc = "busy"
  /\ LET j == worker[w].job
     IN  \/ /\ \E status \in {"completed", "failed"} :
                 job' = [job EXCEPT ![j].status = status, ![j].breaker = worker[w].mlOnly]
            /\ worker' = [worker EXCEPT ![w] = Loop]
         \/ /\ job' = [job EXCEPT ![j].status = "failed"]
            /\ worker' = [worker EXCEPT ![w] = Ended]
  /\ UNCHANGED <<phase, queue, pills>>

\* The analysis answers with a result or with None, or it raises: then the job
\* keeps no mark of the circuit breaker.
FinishJob(w) ==
  /\ worker[w].pc = "busy"
  /\ LET j == worker[w].job
     IN  \/ \E status \in {"completed", "failed"} :
              job' = [job EXCEPT ![j].status = status, ![j].breaker = worker[w].mlOnly]
         \/ job' = [job EXCEPT ![j].status = "failed"]
  /\ worker' = [worker EXCEPT ![w] = Loop]
  /\ UNCHANGED <<phase, queue, pills>>

\* The pill is the entry of the highest number: it comes after the jobs.
TakePill(w) ==
  /\ worker[w].pc = "waiting"
  /\ queue = {} /\ pills > 0
  /\ pills' = pills - 1
  /\ worker' = [worker EXCEPT ![w] = Ended]
  /\ UNCHANGED <<phase, job, queue>>

\* wait_for gives up after a second; while the pool is running it starts again.
TimedOut(w) ==
  /\ worker[w].pc = "waiting"
  /\ phase # "serving"
  /\ worker' = [worker EXCEPT ![w] = Ended]
  /\ UNCHANGED <<phase, job, queue, pills>>

\* stop, up to the gather: the queue is unbounded, so the puts do not wait.
BeginStop ==
  /\ phase = "serving"
  /\ phase' = "stopping"
  /\ pills' = Cardinality(Workers)
  /\ UNCHANGED <<job, queue, worker>>

\* Mutant: stop waits for the queue to be drained.
EndStopMutant ==
  /\ phase = "stopping"
  /\ queue = {} /\ \A w \in Workers : worker[w].pc = "ended"
  /\ phase' = "stopped"
  /\ UNCHANGED <<job, queue, pills, worker>>

EndStop ==
  /\ phase = "stopping"
  /\ \A w \in Workers : worker[w].pc = "ended"
  /\ phase' = "stopped"
  /\ UNCHANGED <<job, queue, pills, worker>>

Stopped ==
  /\ phase = "stopped"
  /\ UNCHANGED poolVars

PoolNext ==
  \/ \E j \in Jobs, level \in RuleLevels : Submit(j, level)
  \/ \E w \in Workers : Take(w) \/ FinishJob(w) \/ TakePill(w) \/ TimedOut(w)
  \/ BeginStop
  \/ EndStop
  \/ Stopped

\* The event loop runs a coroutine that can go on, wait_for has a timeout, and so
\* has every call of the analysis.
PoolFairness ==
  /\ \A w \in Workers : WF_poolVars(Take(w)) /\ WF_poolVars(FinishJob(w))
                          /\ WF_poolVars(TakePill(w) \/ TimedOut(w))
  /\ WF_poolVars(EndStop)

PoolSpec == PoolInit /\ [][PoolNext]_poolVars
PoolFairSpec == PoolSpec /\ PoolFairness

-----------------------------------------------------------------------------
(* Properties.                                                             *)

\* Types of the pool's fields, of the results and of the coroutines' locals.
PoolTypeOK ==
  /\ phase \in {"serving", "stopping", "stopped"}
  /\ job \in [Jobs -> [status : {"absent", "queued", "processing", "completed", "failed"},
                       priority : Critical..Low, breaker : BOOLEAN]]
  /\ queue \subseteq Jobs
  /\ pills \in Nat
  /\ worker \in [Workers -> [pc : {"waiting", "busy", "ended"}, job : Jobs \cup {NoId}, mlOnly : BOOLEAN]]

\* The status a client polls tells where the job is: a queued job is in the
\* queue, a job shown as processing is in the hands of exactly one worker, and
\* no worker works on a job with another status.
JobsAccounted ==
  \A j \in Jobs :
    /\ job[j].status = "queued" <=> j \in queue
    /\ job[j].status = "processing" <=> \E w \in Workers : Holds(w, j)
    /\ \A v, w \in Workers : Holds(v, j) /\ Holds(w, j) => v = w

\* Whatever the analyses do, no worker is lost while requests are served.
WorkersStay == phase = "serving" => \A w \in Workers : worker[w].pc # "ended"

\* The pool as its clients and its operators see it.
PoolConsistent == PoolTypeOK /\ JobsAccounted /\ WorkersStay

\* Once submissions cease, no job waits for ever; until then a stream of alerts of
\* higher priority may keep one waiting.
JobsResolved ==
  <>[][\A j \in Jobs : job'[j].status = "queued" => job[j].status = "queued"]_poolVars
    => \A j \in Jobs : Unfinished(j) ~> (~Unfinished(j) \/ phase # "serving")

\* stop waits for the analyses under way, and for nothing for ever.
StopReturns == phase = "stopping" ~> phase = "stopped"

-----------------------------------------------------------------------------
(* What the repository says of the program, and the program does not do.   *)

\* worker_pool.py:70-72, "When queue depth exceeds threshold, low-severity alerts
\* get ML-only results"; the code's condition takes the medium ones too.
OnlyLowIsMlOnly == \A j \in Jobs : job[j].breaker => job[j].priority = Low

=============================================================================
