-------------------------- MODULE WorkerPoolProofs --------------------------
(***************************************************************************)
(* Proofs about WorkerPool for any number of jobs and workers, any         *)
(* threshold and any set of rule levels: type correctness, that the status *)
(* a client polls accounts for every job, and that no worker is lost while *)
(* requests are served.                                                    *)
(*                                                                         *)
(* JobsAccounted is inductive with PoolTypeOK: a job leaves the queue in   *)
(* the step that hands it to one worker, and leaves the worker in the step *)
(* that gives it its result.                                               *)
(***************************************************************************)
EXTENDS WorkerPool, FiniteSetTheorems, TLAPS

JobRecord == [status : {"absent", "queued", "processing", "completed", "failed"},
              priority : Critical..Low, breaker : BOOLEAN]
WorkerRecord == [pc : {"waiting", "busy", "ended"}, job : Jobs \cup {NoId}, mlOnly : BOOLEAN]

\* A worker that is busy works on a job.
BusyWithJob == \A w \in Workers : worker[w].pc = "busy" => worker[w].job \in Jobs

IInv == PoolTypeOK /\ BusyWithJob /\ JobsAccounted

LEMMA RecordsOK == PoolTypeOK <=> /\ phase \in {"serving", "stopping", "stopped"}
                              /\ job \in [Jobs -> JobRecord]
                              /\ queue \subseteq Jobs
                              /\ pills \in Nat
                              /\ worker \in [Workers -> WorkerRecord]
  BY DEF PoolTypeOK, JobRecord, WorkerRecord

\* The worker records the code builds.
LEMMA WorkerRecords ==
  /\ Listening \in WorkerRecord /\ Ended \in WorkerRecord /\ Loop \in WorkerRecord
  /\ Listening.pc = "waiting" /\ Ended.pc = "ended" /\ Loop.pc \in {"waiting", "ended"}
  BY DEF Listening, Ended, Loop, WorkerRecord

\* submit classifies every rule level.
LEMMA PriorityInRange == \A level \in Nat : Priority(level) \in Critical..Low
  BY DEF Priority, Critical, High, Medium, Low

LEMMA InitIInv == PoolInit => IInv
<1> SUFFICES ASSUME PoolInit PROVE IInv
  OBVIOUS
<1>1. PoolTypeOK
  <2>1. NoJob \in JobRecord
    BY DEF NoJob, JobRecord, Critical, Low
  <2> QED
    BY <2>1, WorkerRecords, RecordsOK DEF PoolInit
<1>2. BusyWithJob /\ JobsAccounted
  BY WorkerRecords DEF PoolInit, BusyWithJob, JobsAccounted, Holds, NoJob
<1> QED
  BY <1>1, <1>2 DEF IInv

LEMMA SubmitIInv ==
  ASSUME IInv, NEW j \in Jobs, NEW level \in RuleLevels, Submit(j, level)
  PROVE  IInv'
<1>1. PoolTypeOK'
  <2>1. [status |-> "queued", priority |-> Priority(level), breaker |-> FALSE] \in JobRecord
    BY PriorityInRange, PoolAssumption DEF JobRecord
  <2> QED
    BY <2>1, RecordsOK DEF Submit, IInv, PoolTypeOK, JobRecord
<1>2. BusyWithJob'
  BY DEF Submit, IInv, BusyWithJob
<1>3. JobsAccounted'
  BY DEF Submit, IInv, PoolTypeOK, JobsAccounted, Holds, Unfinished
<1> QED
  BY <1>1, <1>2, <1>3 DEF IInv

LEMMA TakeIInv ==
  ASSUME IInv, NEW w \in Workers, Take(w)
  PROVE  IInv'
<1>1. PICK j \in Firsts :
        /\ queue' = queue \ {j}
        /\ job' = [job EXCEPT ![j].status = "processing"]
        /\ worker' = [worker EXCEPT ![w] =
                        [pc |-> "busy", job |-> j,
                         mlOnly |-> BreakerEnabled /\ Deep(queue') /\ job[j].priority >= Medium]]
  BY DEF Take
<1>2. j \in Jobs /\ j \in queue /\ worker[w].pc = "waiting"
  BY DEF IInv, PoolTypeOK, Firsts, Take
<1>3. PoolTypeOK'
  <2>1. (BreakerEnabled /\ Deep(queue') /\ job[j].priority >= Medium) \in BOOLEAN
    BY Zenon
  <2>2. worker' \in [Workers -> WorkerRecord]
    BY <1>1, <1>2, <2>1, RecordsOK, Zenon DEF IInv, WorkerRecord
  <2>3. job' \in [Jobs -> JobRecord]
    BY <1>1, <1>2, RecordsOK DEF IInv, JobRecord
  <2> QED
    BY <1>1, <2>2, <2>3, RecordsOK DEF Take, IInv, PoolTypeOK
<1>4. /\ worker'[w].pc = "busy" /\ worker'[w].job = j
      /\ \A v \in Workers \ {w} : worker'[v] = worker[v]
  BY <1>1 DEF IInv, PoolTypeOK
<1>5. /\ job'[j].status = "processing"
      /\ \A k \in Jobs \ {j} : job'[k] = job[k]
  BY <1>1, <1>2 DEF IInv, PoolTypeOK
<1>6. BusyWithJob'
  BY <1>2, <1>4 DEF IInv, BusyWithJob
<1>7. JobsAccounted'
  <2> SUFFICES ASSUME NEW k \in Jobs
               PROVE  /\ job'[k].status = "queued" <=> k \in queue'
                      /\ job'[k].status = "processing" <=> \E v \in Workers : Holds(v, k)'
                      /\ \A u, v \in Workers : Holds(u, k)' /\ Holds(v, k)' => u = v
    BY DEF JobsAccounted
  <2>1. CASE k = j
    <3>1. \A v \in Workers : ~Holds(v, j)
      BY <1>2 DEF IInv, JobsAccounted
    <3>2. \A v \in Workers : Holds(v, j)' <=> v = w
      BY <1>4, <3>1 DEF Holds
    <3> QED
      BY <1>1, <1>5, <2>1, <3>2
  <2>2. CASE k # j
    <3>1. \A v \in Workers : Holds(v, k)' <=> Holds(v, k)
      BY <1>2, <1>4, <2>2 DEF Holds
    <3> QED
      BY <1>1, <1>5, <2>2, <3>1 DEF IInv, JobsAccounted
  <2> QED
    BY <2>1, <2>2
<1> QED
  BY <1>3, <1>6, <1>7 DEF IInv

LEMMA FinishIInv ==
  ASSUME IInv, NEW w \in Workers, FinishJob(w)
  PROVE  IInv'
<1>1. PICK j \in Jobs : j = worker[w].job
  BY DEF FinishJob, IInv, BusyWithJob
<1>2. Holds(w, j) /\ job[j].status = "processing" /\ j \notin queue
  BY <1>1 DEF FinishJob, IInv, JobsAccounted, Holds
<1>3. /\ job'[j].status \in {"completed", "failed"}
      /\ job' \in [Jobs -> JobRecord]
      /\ \A k \in Jobs \ {j} : job'[k] = job[k]
  <2>1. worker[w].mlOnly \in BOOLEAN /\ job \in [Jobs -> JobRecord]
    BY RecordsOK DEF IInv, PoolTypeOK
  <2>2. CASE \E status \in {"completed", "failed"} :
               job' = [job EXCEPT ![j].status = status, ![j].breaker = worker[w].mlOnly]
    BY <2>1, <2>2 DEF JobRecord
  <2>3. CASE job' = [job EXCEPT ![j].status = "failed"]
    BY <2>1, <2>3 DEF JobRecord
  <2> QED
    BY <1>1, <2>2, <2>3 DEF FinishJob
<1>4. worker' \in [Workers -> WorkerRecord]
  BY WorkerRecords, RecordsOK DEF FinishJob, IInv
<1>5. worker'[w].pc # "busy" /\ \A v \in Workers \ {w} : worker'[v] = worker[v]
  BY WorkerRecords DEF FinishJob, IInv, PoolTypeOK
<1>6. PoolTypeOK'
  BY <1>3, <1>4 DEF FinishJob, IInv, PoolTypeOK, JobRecord, WorkerRecord
<1>7. BusyWithJob'
  BY <1>5 DEF IInv, BusyWithJob
<1>8. JobsAccounted'
  <2> SUFFICES ASSUME NEW k \in Jobs
               PROVE  /\ job'[k].status = "queued" <=> k \in queue'
                      /\ job'[k].status = "processing" <=> \E v \in Workers : Holds(v, k)'
                      /\ \A u, v \in Workers : Holds(u, k)' /\ Holds(v, k)' => u = v
    BY DEF JobsAccounted
  <2>0. queue' = queue
    BY DEF FinishJob
  <2>1. CASE k = j
    <3>1. \A v \in Workers : ~Holds(v, j)'
      BY <1>2, <1>5 DEF Holds, IInv, JobsAccounted
    <3> QED
      BY <1>3, <1>2, <2>0, <2>1, <3>1
  <2>2. CASE k # j
    <3>1. \A v \in Workers : Holds(v, k)' <=> Holds(v, k)
      BY <1>2, <1>5, <2>2 DEF Holds
    <3> QED
      BY <1>3, <2>0, <2>2, <3>1 DEF IInv, JobsAccounted
  <2> QED
    BY <2>1, <2>2
<1> QED
  BY <1>6, <1>7, <1>8 DEF IInv

\* A worker that leaves the loop while it waits holds no job.
LEMMA LeaveIInv ==
  ASSUME IInv, NEW w \in Workers, worker[w].pc = "waiting",
         worker' = [worker EXCEPT ![w] = Ended],
         pills' \in Nat, UNCHANGED <<phase, job, queue>>
  PROVE  IInv'
<1>1. PoolTypeOK'
  BY WorkerRecords DEF IInv, PoolTypeOK, WorkerRecord
<1>2. worker'[w].pc = "ended" /\ \A v \in Workers \ {w} : worker'[v] = worker[v]
  BY WorkerRecords DEF IInv, PoolTypeOK
<1>3. BusyWithJob'
  BY <1>2 DEF IInv, BusyWithJob
<1>4. \A v \in Workers, k \in Jobs : Holds(v, k)' <=> Holds(v, k)
  BY <1>2 DEF Holds
<1>5. JobsAccounted'
  BY <1>4 DEF IInv, JobsAccounted
<1> QED
  BY <1>1, <1>3, <1>5 DEF IInv

LEMMA NextIInv == IInv /\ [PoolNext]_poolVars => IInv'
<1> SUFFICES ASSUME IInv, [PoolNext]_poolVars PROVE IInv'
  OBVIOUS
<1>1. ASSUME NEW j \in Jobs, NEW level \in RuleLevels, Submit(j, level) PROVE IInv'
  BY <1>1, SubmitIInv
<1>2. ASSUME NEW w \in Workers, Take(w) PROVE IInv'
  BY <1>2, TakeIInv
<1>3. ASSUME NEW w \in Workers, FinishJob(w) PROVE IInv'
  BY <1>3, FinishIInv
<1>4. ASSUME NEW w \in Workers, TakePill(w) PROVE IInv'
  <2>1. pills' \in Nat /\ UNCHANGED <<phase, job, queue>>
    BY <1>4 DEF TakePill, IInv, PoolTypeOK
  <2> QED
    BY <1>4, <2>1, LeaveIInv DEF TakePill
<1>5. ASSUME NEW w \in Workers, TimedOut(w) PROVE IInv'
  BY <1>5, LeaveIInv DEF TimedOut, IInv, PoolTypeOK
<1>6. CASE BeginStop \/ EndStop \/ Stopped \/ UNCHANGED poolVars
  <2>1. phase' \in {"serving", "stopping", "stopped"} /\ pills' \in Nat
    BY <1>6, PoolAssumption, FS_CardinalityType DEF BeginStop, EndStop, Stopped, poolVars, IInv, PoolTypeOK
  <2>2. UNCHANGED <<job, queue, worker>>
    BY <1>6 DEF BeginStop, EndStop, Stopped, poolVars
  <2> QED
    BY <2>1, <2>2 DEF IInv, PoolTypeOK, BusyWithJob, JobsAccounted, Holds
<1> QED
  BY <1>1, <1>2, <1>3, <1>4, <1>5, <1>6 DEF PoolNext

\* Every field of the pool, of a result and of a coroutine keeps its type: the
\* state the service starts in and every operation of the pool.
THEOREM TypeCorrect == PoolSpec => []PoolTypeOK
<1>1. IInv => PoolTypeOK
  BY DEF IInv
<1> QED
  BY <1>1, InitIInv, NextIInv, PTL DEF PoolSpec

\* However many workers take jobs from the queue, the status a client polls tells
\* where its job is: in the queue, with exactly one worker, or finished.
THEOREM JobsAccountedHolds == PoolSpec => []JobsAccounted
<1>1. IInv => JobsAccounted
  BY DEF IInv
<1> QED
  BY <1>1, InitIInv, NextIInv, PTL DEF PoolSpec

\* No answer of an analysis, and no exception of one, costs the service a worker.
THEOREM WorkersStayHolds == PoolSpec => []WorkersStay
<1> DEFINE Inv == IInv /\ WorkersStay /\ (phase = "serving" => pills = 0)
<1>1. PoolInit => Inv
  BY InitIInv, WorkerRecords DEF PoolInit, WorkersStay
<1>2. Inv /\ [PoolNext]_poolVars => Inv'
  <2> SUFFICES ASSUME Inv, [PoolNext]_poolVars PROVE WorkersStay' /\ (phase' = "serving" => pills' = 0)
    BY NextIInv
  <2>1. ASSUME NEW j \in Jobs, NEW level \in RuleLevels, Submit(j, level)
        PROVE  WorkersStay' /\ (phase' = "serving" => pills' = 0)
    BY <2>1 DEF Submit, WorkersStay
  <2>2. ASSUME NEW w \in Workers, Take(w)
        PROVE  WorkersStay' /\ (phase' = "serving" => pills' = 0)
    BY <2>2 DEF Take, WorkersStay, IInv, PoolTypeOK
  <2>3. ASSUME NEW w \in Workers, FinishJob(w)
        PROVE  WorkersStay' /\ (phase' = "serving" => pills' = 0)
    BY <2>3 DEF FinishJob, Loop, Listening, WorkersStay, IInv, PoolTypeOK
  <2>4. ASSUME NEW w \in Workers, TakePill(w) \/ TimedOut(w)
        PROVE  WorkersStay' /\ (phase' = "serving" => pills' = 0)
    BY <2>4 DEF TakePill, TimedOut, WorkersStay, IInv, PoolTypeOK
  <2>5. CASE BeginStop \/ EndStop \/ Stopped \/ UNCHANGED poolVars
    BY <2>5 DEF BeginStop, EndStop, Stopped, poolVars, WorkersStay
  <2> QED
    BY <2>1, <2>2, <2>3, <2>4, <2>5 DEF PoolNext
<1>3. Inv => WorkersStay
  OBVIOUS
<1> QED
  BY <1>1, <1>2, <1>3, PTL DEF PoolSpec

\* The pool's whole invariant, for any jobs, workers, thresholds and rule levels.
THEOREM PoolConsistentHolds == PoolSpec => []PoolConsistent
<1>1. PoolTypeOK /\ JobsAccounted /\ WorkersStay <=> PoolConsistent
  BY DEF PoolConsistent
<1> QED
  BY <1>1, TypeCorrect, JobsAccountedHolds, WorkersStayHolds, PTL
=============================================================================
