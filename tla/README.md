# TLA+ models of the AI-augmented SOC

TLA+ specifications, TLC configurations and TLAPS proofs for the services under
`src/services` and the retraining loop. The models are written from the Python
code; paths below are relative to `src/`. `PROJECT.json` holds the same facts in
a form tools can read: the components, the runs, the lines each definition
stands for, the hazards, the divergences and the theorems.

## 1. Inventory

The system receives Wazuh alerts, has them judged by a language model, groups
them into incidents, simulates attacks on them, and plans and executes a
response. Each service is a FastAPI process (uvicorn, in three of the
Dockerfiles with two worker processes); inside a process all handlers are
coroutines of one event loop, so code between two awaits runs undisturbed and
every await is a point of interleaving.

| Component | State | Operations | Hard about it |
|---|---|---|---|
| response-orchestrator, lifecycle (`orchestrator.py`, `main.py`) | `_plans` in the process; the status of each plan and action | `POST /defend`, `POST …/approve`, verification tasks, rollback | a trigger and analysts work on one plan concurrently; two verification tasks; calls that time out and land later; restart |
| …, adapters (`adapters/*.py`) | none here; the infrastructure | execute, rollback | kinds without adapter, rollbacks that send nothing |
| …, planner and safety (`planner.py`, `safety.py`) | none | draft, gate, trim a plan | which action needs a person: several rules in sequence, on incomplete knowledge |
| …, verification (`verification.py`) | none | simulate again, compare risk | estimates where evidence is missing |
| correlation-engine, incidents (`correlator.py`, `database.py`, `main.py`) | tables `incidents`, `incident_alerts` | `POST /correlate`, `PUT /incidents/{id}/status` | read-modify-write at READ COMMITTED, failures up to the commit, a task started before the commit |
| …, simulation (`simulator.py`, `environment.py`, `actions.py`, `defender_actions.py`, archetypes) | one environment, shared by the simulations of a refresh | timesteps: attackers, detection, defenders | choices made before an await and executed after it; what a reset forgets |
| …, swarm and followers (`swarm.py`, `follower.py`, `history_store.py`) | `swarm_tasks`, `swarm_store`, one history file | Monte Carlo batches, replays, background runs | names with the resolution of a second, two processes on one file, torn lines |
| …, chat, predictor, risk scores (`main.py`, `predictor.py`, `risk_scorer.py`) | `chat_sessions`, transition counts, ingested reports | ask, train, predict, refresh | state read before an await and changed after it; trainings that overlap |
| alert-triage, worker pool (`worker_pool.py`) | queue, results, workers | submit, worker loop, start, stop | priorities, circuit breaker, shutdown |
| alert-triage, clients (`llm_client.py`, `ml_client.py`, `context_manager.py`, `main.py`) | none; background tasks | one analysis with fallbacks, persistence of its result | takes longer than its caller waits |
| wazuh-integration | none; polls an index | webhook, poll | partial failure of a chain of calls, repeated alerts |
| feedback-service | tables `alerts`, `feedback` | store, submit, list, export | upserts and a counter read and written back |
| retraining and ML inference (`retraining/retrain.py`, `ml_training/inference_api.py`) | model files, served models | evaluate, promote, save, reload | several files replaced one after the other, read by another process meanwhile |
| common (`pipeline.py`, `integration.py`) | queue, worker | stages, retries, limits, stop | retries of calls that are not idempotent, cancellation |
| rate limiter, authentication, RAG service, rule generator, Cortex jobs, dashboard, launcher | see section 7 | | |

How they interact: wazuh-integration calls alert-triage, the RAG service and
correlation-engine in turn (`common/pipeline.py` is a library with a similar
chain that ends at TheHive); alert-triage reads context from the feedback
service and stores its verdicts there in the background; an incident of high
severity makes correlation-engine call `POST /defend` of the
response-orchestrator, which calls back to `GET /incidents/{id}` and
`POST /simulate/…`, plans, then drives the adapters (Wazuh manager, firewall,
EDR, identity), then simulates again to verify. Analysts' feedback flows to the
feedback service and from there to retraining, which replaces the files the
inference service loads.

What would make each correct:

- orchestrator: nothing gated runs without a person; each action runs at most
  once; what is verified does not change meanwhile; rollback is in reverse;
  limits hold; every plan ends for good (which the code keeps with an exception:
  section 4).
- planner, safety, verification: what runs without a person is bounded by what
  is known; more knowledge of a host never removes a gate; no plan passes on
  an estimate if nothing was done.
- incidents: an incident shows exactly its alerts; failures leave no trace.
- simulation and followers: achievements form a kill chain; what is contained
  stays contained; the report agrees with the environment; an escalation is heard
  in the next timestep (the comments say so, and the code does not: section 4).
- swarm, chat, predictor, risk: what a client polls or reads belongs to what it
  asked for, and figures that are computed in different places agree.
- worker pool: every job is where its status says, none is lost or done twice,
  every job ends, stop returns.
- ingestion: an incident comes from a judged alert only, an error answer leaves
  nothing behind, a verdict is kept, a triage is not told of its own verdict.
- feedback and retraining: filters are truthful in spite of lost updates, no
  model in use is lost, nothing served goes back in time.
- pipeline: a stage's failure does not stop the others, duplicates are bounded,
  a stop loses little, the queue drains.

## 2. Modules

A module stands for the file or files in its heading comment; `MC…` modules
hold the instances for TLC and `…Proofs` the proofs. Every definition that
translates code has an entry in the `map` of `PROJECT.json`; definitions whose
name ends in `Mutant` are the plausible bugs each property was tried against and
take no part in the specifications.

| Group | Modules |
|---|---|
| orchestrator | `Adapters`, `ResponseOrchestrator`, `ActionLedger` (abstract), `OrchestratorLedger` (the mapping), `PlanHistory`, `MCResponseOrchestrator`, `OrchestratorProofs` |
| planner | `D3fend`, `ApprovalPolicy`, `DefensePlanner`, `MCDefensePlanner`, `PolicyProofs` |
| incidents | `Correlation`, `MCCorrelation`, `CorrelationProofs` |
| simulation | `Environment`, `AttackActions`, `DefenseActions`, composed by `Simulation` and by `Follower`; `MCSimulation`, `MCCampaign`, `CampaignProofs` |
| correlation-engine's process state | `SwarmSimulator`, `SwarmRuns`, `AgentChat`, `AttackPredictor`, `RiskScorer`, composed by `MCResearch`; `Totals`, the sums two of them take; `EngineProofs` |
| worker pool | `WorkerPool`, `WorkerPoolProofs` |
| ingestion and learning | `FeedbackStore`, composed by `Ingestion` with its callers and by `Retraining` with its readers; `MCTriage` (with the worker pool), `MCRetraining`, `FeedbackProofs` |
| common | `Pipeline`, `MCPipeline`, `PipelineProofs` |

### ResponseOrchestrator

`call[c]` is the coroutine of one `POST /defend`, `plans[c]` the plan it
registers, `task[c][k]` the two places from which `_verify_and_complete` can be
started (the trigger, `approve_action`), `world[c][i]` what the adapters were
asked to do for an action and whether it took effect. An action of the model is
the code from one await to the next: `Admit` or `Refuse`, `IncidentFetched`,
`Simulated`, `Planned` (which registers the plan and runs the automatic loop up
to its first await), `AutoActionDone`, `CooldownOver`, then `Conclude`. An
analyst's `Approve` and `Veto` may come between any two of them;
`ApprovedActionDone` is the answer the approval awaits.
`VerdictPassed/Failed/Raised` end a verification, `RollbackReply` walks the
completed actions backwards. `Lands` and `RollbackLands` let a command that was
answered with a timeout take effect at any later moment. `Restart` empties the
process and leaves the world.

Abstractions: the cooldown always suspends (it is 10 s by default); the stub
adapters suspend like the real ones; the planner's result is any draft of the
constant `Drafts[c]` (what drafts are like is `DefensePlanner`'s subject); the
verdict is a free choice; outcome recording has no effect on the orchestrator;
the second command some Wazuh actions send is taken at the adapter's word; one
worker process is modelled. Action statuses `SKIPPED` and `APPROVED` and plan
statuses `TRIGGERED` and `SIMULATING` are never assigned by the code and do not
occur. `AutoRollback = FALSE` is covered by the proofs and not by a run.

`ActionLedger` promises what a reader of `models.py` expects of one action:
pending, executing, completed or failed, perhaps rolled back; a gated one is
started only by an analyst, at most one action of a plan moves at a time.
`OrchestratorLedger` maps `plans` onto it; `ImplementsLedger` is checked in run
`plan` and proved by `OrchestratorProofs!Refinement`.

`PlanHistory` adds a history variable: `automatic`, the calls admitted with
`auto_execute` whose plans are live. The flag itself is a local of
`trigger_defense` and gone when that returns, but what may be expected of a plan
depends on it for as long as the plan is there. `Remember` only adds to every
step of `ResponseOrchestrator`; it restricts none.

### D3fend, ApprovalPolicy, DefensePlanner

`D3fend` is the catalogue (a countermeasure is named by its action type),
`ApprovalPolicy` is `safety.py`: blast radius, the ladder of tiers in the order
of the code's tests, and the score. Confidences and scores are integers, in
hundredths and finer, so that comparisons at a threshold are exact.
`DefensePlanner` goes from an incident through the simulation to a plan
(`GeneratePlan`), lets some of its actions complete, and ends with the verdict
of `verification.py`. A plan is the set of its actions: the code's list is ranked
by score. `known` is what the environment in the request describes; all other
hosts count as medium, as in `planner.py:365`. An operator may configure the two
thresholds; `PolicyAssumption` demands what the comments on them promise (more
than an estimate's confidence for either).

### Environment, AttackActions, DefenseActions, Simulation, Follower

`EnvState` is what changes of `environment.py`, `AgentState` and `DefenderState`
what agents remember. `Available` gives the actions an observation offers and
`Execute` the outcomes of one: each attack with its conditions at the time it is
executed, its success and its detection. A probability strictly between 0 and 1
is a free choice of both outcomes. `Defended` and `Credited` are a defender's
action. `Simulation` lets all agents of a side observe, wait for a slot and for
a model, and act on what the environment has become by then; which action the
model names is any of a fixed set of plays or the rule-based fallback. Several
simulations run on one environment (`NextRun`), as `POST /risk-scores/refresh`
does. `Follower` replays any path of a leader without a model in an environment
prepared by `_apply_defender_state`; its loop has no await, a step is an action.
A follower works on its own copy of the environment, so `MCCampaign` lets the
first state pick whether the simulation or the followers step.

### SwarmSimulator, SwarmRuns, AgentChat, AttackPredictor, RiskScorer

Five parts of the correlation engine that keep state in the process and share
none of it. `SwarmSimulator`: the batches of one run and the report
aggregated from them (rates, strategies, convergence, trend; means are compared
without dividing). `SwarmRuns`: the background runs as two uvicorn processes
serve them; an id is a second, each process has its own task table, store and
cache, the history file is common and a line may be written in part.
`AgentChat`: the simulation store and overlapping questions to its agents.
`AttackPredictor`: trainings that empty the counts and then await the database
twice over, and the predictions in between. `RiskScorer`: refreshes that
overlap, and the score as a fraction. As no variable is shared, a behaviour of
all five is an interleaving of one behaviour of each, and a property of one part
holds of the whole if it holds of that part alone; `MCResearch` therefore lets
the initial state pick the part that steps. The sums that the code accumulates
in loops are a `Total`: the number of marks on a tally, which needs no recursion
and can be proved about. An alert without a stage is skipped by the predictor's
loop; `Changes` are the pairs of an incident's alerts it compares instead.

### Correlation

`db` and `member` are the committed rows of `incidents` and
`incident_alerts`, `req[r]` the handler of one `POST /correlate`. `Read` is the
select of the active incidents with the scoring and the computation of the
row to write (no await separates them), `Write` the statements up to the
handler's return, which also create the defense task, `Commit` or
`CommitFails` the end of the `get_db` dependency. An update waits for the
row's lock (`Locked`) and then replaces the columns by values computed before:
that is READ COMMITTED, the default the code leaves in place. `stale` is a
history variable: the incidents that took a write based on an overtaken read.
`ChangeStatus` is `PUT /incidents/{id}/status`; its values do not depend on
what it read, so it is one step.

Scores are integers in 1/10000 at whole minutes (`Decay` tabulates the
exponential); ties between best incidents are a free choice, as the select has
no order. Left out: techniques and tactics lists, `first_seen`, `closed_at`, the
summary text, collisions of incident ids (four hexadecimal digits and a second).
`_trigger_defense` sends no `Authorization` header while `POST /defend` depends
on one, so an answered trigger is rejected.

### WorkerPool

`job` is `_results` with the priority of the queued object, `queue` and `pills`
the priority queue (a pill has number 999 and comes after every job), `worker`
the coroutines. `Take` is the return of `queue.get` with the choice between the
full analysis and the fast path; it takes any job of least number, because
`heapq` is not stable. `Finish` is a result, `None`, or an exception. `TimedOut`
is the one-second `wait_for` once the pool no longer runs; before that it
changes nothing. The service starts the pool before its first request and stops
it after its last, so `Submit` happens only while serving. An id whose job is
finished may be used again: so finitely many ids stand for endlessly many
submissions, and a low job can be overtaken for ever in the model as in the
code. The counters of `/workers/stats` are left out.

### FeedbackStore, Ingestion, Retraining

`FeedbackStore` is the two tables of the feedback service with the requests
that change them, each split into its select and its commit: at READ COMMITTED
two of them overlap. `Ingestion` adds the callers: a *delivery* is one alert
handed to the Wazuh integration, by webhook or as one element of a poll; its
progress is kept for the integration (`caller`), alert-triage (`triage`), the
correlation engine (`correlated`) and the background task that stores the
verdict (`persist`). A caller that times out moves on while what it called
continues. `prompt` is what an analysis has read of the alert's source.
`Retraining` adds the readers: the training process reads labelled feedback,
unpickles, decides, archives and writes file after file (`open` truncates, `dump`
fills), and asks the inference service to reload, which reads file after file
too. A file is its generation, or `Torn`. Either process may die between any two
steps. How good a model is, is a free choice.

### Pipeline

The queue with its worker, `batch_process` with its semaphore, the five stages
of `process_alert` with the error result of each, and `async_retry` around the
creation of a case, whose request may be refused, answered, lost on its way back,
or arrive late. `Stop` cancels the worker at whatever await it is in.

## 3. Runs

TLC with two workers; states are distinct ones.

| Run | Question | Bounds | States |
|---|---|---|---|
| `plan` | safety, liveness and refinement of plans | 2 calls under a limit of one plan; one with drafts of 3 and 4 actions (automatic, gated, without adapter, not reversible) and three settings of the flags, one with an empty draft; budget 2; 1 restart | 154,384 |
| `policy` | what is planned, gated and passed | 96 incidents over a web server, a critical database whose address contains the web server's as text, and an attacker; the planner knows any subset of the victims; 24 simulations or none | 716,112 |
| `campaign` | attackers, defenders and the report; replays | simulation: 3 hosts in 2 segments, outsider and insider, analyst and responder, 3 timesteps, 2 simulations on one environment, 2 slots, a choice of plays; followers: paths of 4 of all twenty attacks, every containment, jitter | 5,955,177 |
| `correlation` | what an incident shows | 3 requests with symmetry, 5 alerts, 1 status change | 95,489 |
| `research` | the process state of the correlation engine | swarm of 3 batches; 3 runs in 2 processes within 2 seconds, store of 1, 1 torn line, 1 restart; 3 questions to 2 agents of 2 simulations, store of 1; 2 trainings on 3 incidents; 2 refreshes of 2 simulations | 452,227 |
| `triage` | the pool; from Wazuh to an incident | pool: 3 ids, 2 workers, six rule levels on both sides of every boundary, threshold 1; ingestion: one alert by webhook and by poll, one below the minimum, one feedback, history of 1, 1 restart of alert-triage | 104,266 |
| `learning` | feedback counter, model files | 2 analyses of one alert, 2 submissions (one labelled), 2 models, 2 trainings, 1 death, 1 restart | 11,398,728 |
| `pipeline` | queue, batch, retries | 2 queued alerts, 1 in a batch, 1 slot, 2 attempts, 1 stop | 107,514 |
| `terminal_final` | claim: COMPLETED and ROLLED_BACK end the life of a plan | 1 call | violated |
| `plans_end` | claim: an automatic plan ends, and stays ended, if its analyst decides | 1 call | violated |
| `escalations` | claim: an escalation is heard in the next timestep | 1 insider, 2 defenders, 2 timesteps, 1 simulation | violated |
| `critical_gated` | claim: an action on a critical asset always needs a person | as `policy` | violated |

Two runs check two parts of the system at a time: `campaign` and `triage`. The
parts share no variable, so a behaviour of both is an interleaving of one of
each and a property of one part holds of the whole if it holds of that part
alone; as in `MCResearch`, the initial state picks the part that steps. The
fairness of the other part is then vacuous: none of its actions is enabled.

Why the bounds suffice. A draft of four contains every combination the loop
distinguishes: below, at and above the budget of two, gated and ungated, with
and without an adapter, reversible or not; calls interact only through the limit
on plans, for which a second call suffices. Actions of a plan are gated one by
one, so two victims (known or not, critical or not) and one attacker give every
combination of a pair of actions. Three timesteps let an attacker get a foothold,
gain rights and use them, and defenders escalate in one timestep and look in
the next; a path of four is a foothold, admin rights, credentials and their use on
another host. Three requests give one that
opens an incident and two that attach to it concurrently, which is all that an
overtaken write needs. Three jobs make a queue longer than the threshold while a
worker holds a job. Two deliveries of one alert are what echo and upsert are
about. Two trainings, of which the first may die, are what it takes to lose a
model or to load an older one. What section 5 lists does not depend on bounds
at all.

Properties, with the parts that are conjunctions of named formulas:

- `plan`: `Bookkeeping` (types, `AutoBudget`, `CountsAgree`), `AnalystGate`,
  `CommandedOnce`: decisions and the loop interleave. `QuietVerification`,
  `RollbackInReverse`: two verification tasks. `AwaitingMeansWork`, `PlansEnd`
  (`TriggersReturn`, `ResolvedPlansFinish`, `AutomaticPlansFinish`): plans that
  would be stuck. The last two say that a plan comes to a terminal status and
  stays there, unless it is `Overtaken`: rolled back under a trigger that then
  sets it to executing, the exception run `plans_end` shows.
  `ImplementsLedger`: the refinement.
- `policy`: `AutonomyEarned` (with `CriticalNeedsHuman`), `GatesMonotone`,
  `EdrBeforeIsolation`, `EstimateNeedsWork`.
- `campaign`: `KillChain`, `OneStory` (types, `GroundTruth`, `Authorship`),
  `ReportConsistent`, `ContainmentHolds` of the simulation; `OwnStory` (types,
  `FollowerKillChain`, `OwnEnvironment`), `ContainmentCarriesOver` of followers.
- `correlation`: `RowsFromAlerts` (types, `CountNeverExceedsAlerts`,
  `StageIsHighestSeen`, `OnlyMembersContribute`), `ExactUnlessStale`.
- `research`: `SwarmConsistent` (`ProgressMatchesReport`,
  `ConvergenceIsConsistent`), `HistoryConsistent` (`AnswersForItsSecond`,
  `TearsCostOneEach`, `OwnRunsShow`), `ChatConsistent` (`SessionsArePairs`,
  `HistoriesArePrefixes`), `TrainingConsistent` (`TotalsMatch`,
  `LoneTrainingIsExact`, `AlwaysPredicts`), `ScoresConsistent` (`ScoresBounded`,
  `NoLeak`), `RunsEnd`.
- `triage`: `PoolConsistent` (types, `JobsAccounted`, `WorkersStay`),
  `JobsResolved`, `StopReturns` of the pool; `CorrelationEarned` (types,
  `ErrorsLeaveNoTrace`, `CorrelatedWereJudged`), `NoEcho`, `JudgedIsKept` of
  ingestion.
- `learning`: `FilterTruthful`, `FilesConsistent` (types, `NoModelLost`,
  `ScalerFollows`), `ServedNeverOlder`, `DamageIsPermanent`.
- `pipeline`: `CasesBounded`, `AlertsAccounted` (types, `StopLosesOne`),
  `AlertsMoveOn` (`EveryAlertEnds`, `QueueDrains`).

### Fairness

The event loop runs what is ready, and every await a fair action stands for is
a call with a timeout or a sleep.

- `ResponseOrchestrator`: the steps of a started coroutine. Nothing forces a
  client to call, an analyst to decide, or a late command to land;
  `AutomaticPlansFinish` and the claim `AutomaticPlansEnd` have as their premise
  `DiligentAnalyst`, an analyst who decides whatever `GET /approvals` lists.
- `WorkerPool`: a worker's steps and the end of `stop`; not submissions and not
  the shutdown. `JobsResolved` has as its premise that submissions cease, since
  a priority queue without ageing serves a waiting job only then.
- `Ingestion`: for each delivery the analysis, the background task that stores
  its result, and the handler. Nothing is assumed of the other services, and
  nothing makes an alert arrive.
- `Pipeline`: the worker's `Take`, the stages of an alert, and the batch's
  slots; every service may fail for ever.
- `SwarmRuns`: a run's batches and its end: each request to a model ends by its
  timeout. A restart takes its runs away, which `RunsEnd` allows for.
- `Simulation`: its next step, for the claim `EscalationsHeard` alone: a request
  to a model ends by its timeout, and a campaign has boundedly many.
- `Correlation`, `Follower`, `DefensePlanner` and `Retraining` state no liveness.

## 4. Divergences

Four are kept as runs of their own, with the quoted lines under `findings` in
`PROJECT.json`:

- `terminal_final`: a terminal plan becomes active again when the trigger wakes
  from its cooldown (`orchestrator.py:168`);
- `plans_end`: an automatic plan may keep its slot for ever although the analyst
  decides whatever is listed. The loop has run a reversible action and sleeps its
  last cooldown; the analyst vetoes the rest, which starts a verification; it
  fails, and action and plan are `rolled_back`. The trigger wakes, finds an action
  whose status is not in its list of resolved ones (`orchestrator.py:159-165`)
  and sets the plan to executing (`:170`): no task is left, and nothing to decide;
- `escalations`: escalations are said to be handled "for next timestep"
  (`simulator.py:211`) and that "other defenders will see" them
  (`defender_actions.py:287`); they are filed once all defenders of a timestep
  have decided, in a queue the next timestep creates anew (`simulator.py:196`);
- `critical_gated`: an action on a critical host is planned to run without a
  person, because a host the request does not describe counts as medium
  (`planner.py:365`; the automatic trigger describes none), and because blocking
  an address has a low blast radius whatever the asset.

Further claims of comments and documents stand as definitions in the modules.
No run holds them; each is false, as TLC shows when it is put into a
configuration of its module as an invariant or property:

| Definition | Module | What the code does instead |
|---|---|---|
| `ConcurrentPlanLimit` | `ResponseOrchestrator` | the limit is tested before, and the plan registered after, four awaits |
| `DryRunTouchesNothing` | `ResponseOrchestrator` | the rollback of a dry run calls live adapters |
| `RolledBackActionIsUndone` | `ResponseOrchestrator` | the rollback of an isolation reports success and sends nothing |
| `PlansFinish` | `ResponseOrchestrator` | a plan triggered with the default flags may keep its slot for ever |
| `PassNeedsEvidence` | `DefensePlanner` | a plan passes on an estimate from its own action statuses, with nobody watching |
| `ResetRestores` | `Simulation` | an EDR a defender deployed survives the reset between simulations |
| `SeverityIsHighest` | `Correlation` | an overlapping attach lowers an incident's severity |
| `DefenseIsAccepted` | `Correlation` | the trigger carries no token and is rejected |
| `TrendIsFresh` | `SwarmRuns` | the history cache of one process is not told what the other appends |
| `RateIsAShare` | `RiskScorer` | several campaigns of one simulation each count a host |
| `OnlyLowIsMlOnly` | `WorkerPool` | medium alerts take the fast path documented for low ones |
| `CounterExact` | `FeedbackStore` | concurrent feedback on an alert is counted once |
| `FeedbackInforms` | `Ingestion` | `context_manager.py` recognises a reviewed alert by keys that the feedback service's answer does not have |
| `NeverUnscaled` | `Retraining` | a restart that finds the scaler's file torn serves without it |

Seen while modelling, and a step or a guard of a module each:

- Orchestrator: pending ungated actions are in no approval list. A plan is
  `rolled_back` whatever the adapters answered. A restart leaves effects no plan
  knows. `verify_plan` is called without the environment the actions changed
  (`orchestrator.py:358`), so it simulates the old one;
  `_check_wazuh_alerts` ignores `since_minutes`. The tier with a veto window has
  no window, and `check_plan_safety` only logs. `ip in vuln_key` is a substring
  test, so a flaw of 10.0.0.11 counts for 10.0.0.1.
- Incidents: two related alerts that arrive together open an incident each. An
  incident closed between read and write still takes the alert. Every further
  severe alert triggers another defense, though the docstring says on
  escalation.
- Correlation engine's process state: a poll, a chat question or a prediction
  answered by the other process finds nothing or an untrained predictor. The
  store "(LRU, max 20)" drops the oldest. The id a client gets for a swarm run is
  never the id in its report, and the latter is answered 404 once evicted. If
  the history cannot be written the run's status is failed although its report
  is stored. A failed retraining leaves the flag and count of the last one;
  overlapping trainings count incidents twice. The bonus commented "3+
  archetypes" starts at two; the criticality multiplier is that of a medium host
  always; a host absent from a refresh counts as rate zero. Concurrent questions
  to an agent do not see each other.
- Ingestion: the webhook waits 60 s for an analysis whose own timeouts add up to
  165 s. A poll correlates nothing. Analyses of batches and of the worker pool
  are not stored. The two upserts of an alert reach different columns:
  `raw_alert` and `triage_result` are kept from the insert.
- Retraining: the scaler is fitted anew and replaces the one that the models
  which were not promoted were trained with.
- Pipeline: `_triage_stage` drops `is_true_positive`, which the response stage
  takes for false, so no tier above `recommend_only` is ever reached
  (`pipeline.py:398`). "case_created" is listed even when the creation failed.
  Severity "info" is not TheHive's "informational".

## 5. Proofs

Checked by TLAPS for every value of the constants that satisfies the modules'
`ASSUME`s: finite sets of requests, jobs, workers, alerts, models, runs,
questions, stages, incidents and archetypes, drafts and orders of the right
shape, natural bounds, the two thresholds above an estimate's confidence, no
more successes than actions in the outcome of a batch, and marks like `None` and
`Garbage` that name nothing else. Each theorem about a safety property follows
from the module's inductive invariant (`IInv`, or a name of the component's own)
with lemmas for its preservation by each action, unless it says otherwise.

`OrchestratorProofs`. `TypeCorrect`, `AnalystGateHolds`, `CommandedOnceHolds`,
`QuietVerificationHolds`. None of the three safety properties is inductive: that
an approval and the loop never run the same action needs to know who owns an
executing one. `Kept(c)` says so: an executing action started by the loop is the
one the suspended trigger is waiting for, one started by an analyst is not;
while a verification or rollback task runs all actions are resolved
(`TasksKept`), and a suspended trigger has its plan (`CallKept`).
A second invariant, `BInv`, holds the books of each plan on top of that:
`BookkeepingHolds`, `AwaitingMeansWorkHolds` and `RollbackInReverseHolds` follow
from it. It says how far the loop's local count is ahead of the actions it
started (`LoopBooked`, by the cardinality lemmas of finite sets), that a plan
which waits for approval has an open action and no loop (`WaitBooked`), and that
a completed action missing from a rollback's list was tried (`RollBooked`).
`Refinement` then maps initial states to the empty ledger and each step to a
`Move`, `Lose` or a stutter. `DraftKeptHolds` adds what the ledger leaves out:
the actions of a plan are, in kind and order, those of one draft of its call, and
no approval the planner demanded is ever dropped. With the gate,
`HumanOnlyHolds`: kinds of action that every draft of a call puts under approval
are started by an analyst or not at all.

`PolicyProofs`. `TypeCorrect`, `AutonomyEarnedHolds`, `GatesMonotoneHolds`,
`EdrBeforeIsolationHolds`, `EstimateNeedsWorkHolds`. The lemmas bound the
confidence an action can reach by what is known, compare the tier of one action
under more and less knowledge, and compare the composite scores of EDR and
isolation on one host; the invariant ties `plan` to `PlanFor` of the incident,
the known hosts and the simulation. `GateEndToEnd` joins the two components: it
takes the orchestrator (`INSTANCE OrchestratorProofs`) with drafts that list
actions of `PlanFor`, shows that they are drafts it accepts
(`DraftsAreLawful`), and concludes that what may not run alone under what was
known of the incident (`MayRunAlone`) never runs without an analyst. Its
hypotheses say where the drafts come from, and that a plan was made with a
simulation only if the call had one.

`CampaignProofs`, for any environment, agents, timesteps, answers of the models
and paths: `KillChainHolds`, `OneStoryHolds`, `ReportConsistentHolds` and
`ContainmentHoldsAlways` of `Simulation`, `OwnStoryHolds` and
`ContainmentCarriesOverHolds` of `Follower`. Both rest on two lemmas about the
operators they share. `ExecuteGains`: whatever the action, host and agent either
both gain the target in a part of their state or neither does (`Both`), nothing
is gained on a contained host, no credentials after a revocation, and a kill
chain stays one. `DefenseGains`: a measure enters the environment and the
defender's state together, and only if it was not in force (`Counted`), hence
the one author. The invariant `SInv` adds to the checked properties who may be
waiting in which phase (`Turns`), that a defender is shown hosts only, and that
the environment after a report is a reset one.

`CorrelationProofs`. `TypeCorrect`, `CountNeverExceedsAlertsHolds`,
`StageIsHighestSeenHolds`, `OnlyMembersContributeHolds`, `RowsFromAlertsHolds`,
`ExactUnlessStaleHolds`. The argument: the row a handler computed from is an
earlier content of its incident that was right for the alerts of that time;
alerts are only added, so it stays right and the merged row is right when the
handler's alert joins (`RequestKept`, `RightFor`). Exactness needs more: from
the write on the handler holds the row's lock, so nothing overtakes it before
the commit (`LockKept`, `CurrentKept`), and an incident that is not stale still
shows what was read.

`WorkerPoolProofs`. `TypeCorrect`, `JobsAccountedHolds`, `WorkersStayHolds`,
`PoolConsistentHolds`. `JobsAccounted` is inductive with the types and with the
fact that a busy worker holds a job; `WorkersStay` needs that there are no pills
while serving.

`FeedbackProofs` has the lemmas about `FeedbackStore` that both its users cite:
what a submission has read is at most what the counter is now (`ReadBelow`),
a submission that is being written has its row (`SubmittedToRows`) and an update
finds one (`UpdatesFindRows`); with them the counter is positive exactly when
there is feedback, and never more than there is.

With them `CorrelationEarnedHolds` and `NoEchoHolds` are shown of `Ingestion`:
`Walk(n)` ties the progress of a delivery in the integration to that in triage
and in the correlation engine, through timeouts and restarts;
`StoredWereJudged` and `RowsCreated` trace a row back to the analysis that
created it. And of `Retraining`: `FilterTruthfulHolds`, `FilesConsistentHolds`,
`ServedNeverOlderHolds`, `DamageIsPermanentHolds`. While files are written,
every model still to be written is archived as it is on disk
(`WritesArchived`) and no name comes twice (`WritesOnce`); a decision to write
was made on whole files (`DecidedOnWhole`); generations never exceed the number
of the training under way, and what is held by the inference service is never
newer than the disk (`Dated`).

`PipelineProofs`. `CasesBoundedHolds`, `AlertsAccountedHolds`. That the alerts of
the queue are counted right through `Take` and `Stop` needs that it repeats none
(`NoRepeats`) and that the two ways into the stages never meet (`WaysApart`: a
queued alert waits for no slot, and the batch enters it as a whole). That cases
are bounded needs that nothing was attempted before the case stage, and that
there each attempt is still one of those the severity allows (`Untried`): the
triage replaces the severity that decides whether there is a case at all.

`EngineProofs` takes the five parts of the correlation engine's process state.
Its first part is about `Total`: it is a natural, splits along any partition of
the arguments, is the same under any renaming of them, adds up with another
(`TotalOfSum`), and a finite set sorted by a key has as many elements as the
counts of the sorts total (`TotalOfParts`). Each is a bijection between marks, so
no induction over data is needed; a least element comes from the well-foundedness
of the naturals.

- `SwarmConsistentHolds`: one batch adds the same to the caller's figure as to
  the report's (`AppendedTotals`, `SuccessfulAccount`); that a report which
  converged names its batch is the least witness of the code's search
  (`ConvergedSomewhere`), and that three converged batches have no trend is
  arithmetic on their rates (`ThreeAreStable`: ends further apart than the
  trend's margin lie too far apart for the spread).
- `HistoryConsistentHolds`: the file repeats no run and has only runs that are
  over (`Entered`); a line left open is the last one and no complete run's
  (`LastLine`); the complete runs missing from it, with one more while a line is
  open, are at most the tears (`Costs`); a loaded cache has every line its own
  process wrote (`CachesKeepUp`).
- `ChatConsistentHolds`: a session is exactly as many pairs of a question and its
  answer as were answered (`PairsOf`), and the history that a waiting question
  took along begins the session it returns to (`Begins`).
- `TrainingConsistentHolds`: a stage's total is the sum of its row because the
  changes from a stage, sorted by where they lead, are all of them
  (`StepsAddUp`); a training that no other overlaps has counted just the
  incidents it has dealt with (`AloneInProgress`, `CountedSoFar`).
- `ScoresConsistentHolds`: the last bound is applied to the whole fraction, and
  its parts are naturals (`ScoreParts`), so it never leaves its range
  (`ScoreIsBounded`); what reports without the host say of defenses enters none
  of the sums, and with them gone every sum is the same (`ScoreIsOwn`).

Only model-checked: the liveness properties `PlansEnd`, `JobsResolved`,
`StopReturns`, `JudgedIsKept`, `AlertsMoveOn` and `RunsEnd`, because TLAPS has no
liveness under fairness; and the four runs of section 4, which show violations.
Every other property a run checks is stated by a theorem.

## 6. What is left

In the order of its worth:

1. The target of an action in the orchestrator, so that the rule for critical
   hosts can be stated from end to end as the rules for kinds are.
2. Two processes of the orchestrator and of alert-triage behind one port, as
   `SwarmRuns` has them for the correlation engine.
3. The remaining figures of the swarm report and the randomised environment.

## 7. Not modelled, and why

- Rate limiter (`rate_limit.py`): no service mounts it, and its window is
  arithmetic on the clock without an await.
- Authentication and sanitising (`auth.py`, `security.py`): keys live in a dict
  of each process; no step of one request depends on another's in between. The
  rest is cryptography and string processing.
- Ollama client, logs and metrics; RAG service; rule generator: single requests
  to models and stores, and text. They have no state of their own.
- Cortex analyzers and responders: stateless jobs, each a request and a report.
- Outcome store and demo of the orchestrator: rows that are written and never
  read by the logic, behind a try/except.
- Environment from Wazuh: one request and a translation.
- Research scripts, dashboard, launcher, configuration, training scripts: no
  logic of the running services beyond parameters. The TheHive client is vendored.
- Of the modelled components: the firewall adapter (no action kind selects it);
  feature vectors, prompts and the parsing of a model's text; the batch endpoint
  of alert-triage; the statistics endpoints; a Wazuh login and paging; heatmaps,
  path frequencies and rankings of a swarm report; mitigations, grades and the
  risk spike.
