------------------------ MODULE ResponseOrchestrator ------------------------
(***************************************************************************)
(* The response orchestrator: the state machine behind POST /defend and    *)
(* POST /plans/{plan}/actions/{action}/approve, in one worker process.     *)
(*                                                                         *)
(* Every request handler and every verification task is an asyncio         *)
(* coroutine.  Code between two awaits runs without interruption, so each  *)
(* action below is the code from one await to the next; the interleavings  *)
(* are those of coroutines suspended at different awaits.  The plan that a *)
(* call creates is named by the call (plan_id is fresh for each call).     *)
(***************************************************************************)
EXTENDS Naturals, FiniteSets, Sequences, Adapters

CONSTANTS
  Calls,               \* the POST /defend calls of a behaviour
  MaxPlanLength,       \* bound: actions in a plan
  Drafts,              \* the action lists the planner may produce for a call's incident
  Requests,            \* the (auto_execute, dry_run) flags a call may carry
  MaxConcurrentPlans,  \* settings.max_concurrent_plans
  MaxAutoActions,      \* settings.max_auto_actions_per_incident
  AutoRollback,        \* settings.auto_rollback_on_verification_failure
  DryRunMode,          \* settings.dry_run_mode
  MaxRestarts          \* bound: process restarts

Slots == 1..MaxPlanLength

\* What the planner fixes of an action: its kind, and requires_approval.
DraftAction == [kind : ActionTypes, gated : BOOLEAN]

ASSUME ConstantsAssumption ==
  /\ MaxPlanLength \in Nat
  /\ \A c \in Calls : \A d \in Drafts[c] : d \in Seq(DraftAction) /\ Len(d) <= MaxPlanLength
  /\ \A c \in Calls : Requests[c] \subseteq [auto : BOOLEAN, dry : BOOLEAN]
  /\ MaxConcurrentPlans \in Nat /\ MaxAutoActions \in Nat /\ MaxRestarts \in Nat
  /\ AutoRollback \in BOOLEAN /\ DryRunMode \in BOOLEAN

VARIABLES
  call,      \* the trigger_defense coroutine of each call
  plans,     \* _plans, and the fields of each DefensePlan
  task,      \* the _verify_and_complete tasks of each plan
  world,     \* what each action's adapter calls did to the infrastructure
  restarts

vars == <<call, plans, task, world, restarts>>

-----------------------------------------------------------------------------
(* The data.                                                               *)

ActionStatus == {"pending", "executing", "completed", "failed", "vetoed", "rolled_back"}
Resolved == {"completed", "failed", "vetoed"}
Terminal == {"completed", "failed", "rolled_back"}
PlanStatus == Terminal \cup {"planning", "awaiting_approval", "executing", "verifying"}

\* `by` is the coroutine that started the action: the trigger or an approval.
Action == [kind : ActionTypes, gated : BOOLEAN, status : ActionStatus,
           by : {"nobody", "auto", "analyst"}]

Plan == [status : PlanStatus \cup {"absent"}, dry : BOOLEAN, actions : Seq(Action),
         autoCount : Nat, humanCount : Nat,
         verification : {"none", "passed", "failed"}]

NoPlan == [status |-> "absent", dry |-> FALSE, actions |-> <<>>,
           autoCount |-> 0, humanCount |-> 0, verification |-> "none"]

InFlight == {"fetching", "simulating", "planning", "executing", "cooling"}
CallPc == InFlight \cup {"idle", "refused", "notfound", "returned", "lost"}

\* The coroutine's locals: the request's flags, the loop's position and auto_count.
Call == [pc : CallPc, auto : BOOLEAN, dry : BOOLEAN, at : Nat, count : Nat]

Ended(pc) == [pc |-> pc, auto |-> FALSE, dry |-> FALSE, at |-> 0, count |-> 0]

\* The two places that create a verification task.
Spawners == {"trigger", "approval"}
Task == [pc : {"none", "verifying", "rolling", "done"}, todo : SUBSET Slots]
NoTask == [pc |-> "none", todo |-> {}]

\* The infrastructure's side of an action: the effect of its command, and how
\* often a live execute and a live rollback were called.
Effect == [effect : {"none", "requested", "applied", "undone"}, runs : Nat, undos : Nat]
NoEffect == [effect |-> "none", runs |-> 0, undos |-> 0]

Present(c) == plans[c].status # "absent"
Indices(c) == DOMAIN plans[c].actions

\* Mutant: an action that is still executing counts as resolved.
AllResolvedMutant(plan) == \A i \in DOMAIN plan.actions : plan.actions[i].status # "pending"

AllResolved(plan) == \A i \in DOMAIN plan.actions : plan.actions[i].status \in Resolved
AwaitsApproval(action) == action.gated /\ action.status = "pending"
Running(c, k) == task[c][k].pc \in {"verifying", "rolling"}

ActivePlans == {c \in Calls : Present(c) /\ plans[c].status \notin Terminal}

\* get_pending_approvals
PendingApprovals ==
  {ci \in Calls \X Slots :
     /\ plans[ci[1]].status = "awaiting_approval"
     /\ ci[2] \in Indices(ci[1])
     /\ AwaitsApproval(plans[ci[1]].actions[ci[2]])}

Init ==
  /\ call = [c \in Calls |-> Ended("idle")]
  /\ plans = [c \in Calls |-> NoPlan]
  /\ task = [c \in Calls |-> [k \in Spawners |-> NoTask]]
  /\ world = [c \in Calls |-> [i \in Slots |-> NoEffect]]
  /\ restarts = 0

-----------------------------------------------------------------------------
(* Executing one action, up to the await on its adapter: without one it    *)
(* fails at once, otherwise a remote command is on its way and a stub has  *)
(* done all it does.                                                       *)

WithStatus(plan, i, status) == [plan EXCEPT !.actions[i].status = status]

Begun(plan, i, who) ==
  LET status == IF HasAdapter(plan.actions[i].kind) THEN "executing" ELSE "failed"
  IN  [plan EXCEPT !.actions[i].status = status, !.actions[i].by = who]

\* Mutant: the dry-run flag of the plan is not looked at.
CallAdapterMutant(c, plan, i) ==
  world' = IF HasAdapter(plan.actions[i].kind)
             THEN [world EXCEPT ![c][i].runs = @ + 1] ELSE world

CallAdapter(c, plan, i) ==
  LET kind == plan.actions[i].kind
      sent == IF Remote(kind) THEN "requested" ELSE IF Executable(kind) THEN "applied" ELSE "none"
  IN  world' = IF HasAdapter(kind) /\ ~plan.dry
                 THEN [world EXCEPT ![c][i].effect = sent, ![c][i].runs = @ + 1]
                 ELSE world

\* Mutant: a failed action becomes pending again.
RepliedMutant(plan, i, result) ==
  WithStatus(plan, i, IF result = "ok" THEN "completed" ELSE "pending")

\* The adapter's reply: the action's status, and the effect a success implies.
Replied(plan, i, result) ==
  WithStatus(plan, i, IF result = "ok" THEN "completed" ELSE "failed")

ReplyEffect(c, i, result) ==
  world' = IF result = "ok" /\ ~plans[c].dry
             THEN [world EXCEPT ![c][i].effect = "applied"]
             ELSE world

\* A command sent to a remote API takes effect at a moment of its own: before
\* the reply, after an error reply (a timeout), after a restart, or never.
Lands(c, i) ==
  /\ world[c][i].effect = "requested"
  /\ world' = [world EXCEPT ![c][i].effect = "applied"]
  /\ UNCHANGED <<call, plans, task, restarts>>

Spawned(c, k) == [task EXCEPT ![c][k] = [pc |-> "verifying", todo |-> {}]]

-----------------------------------------------------------------------------
(* trigger_defense                                                         *)

\* The concurrent plan limit is tested before the first await.
Refuse(c) ==
  /\ call[c].pc = "idle"
  /\ Cardinality(ActivePlans) >= MaxConcurrentPlans
  /\ call' = [call EXCEPT ![c] = Ended("refused")]
  /\ UNCHANGED <<plans, task, world, restarts>>

Admit(c) ==
  /\ call[c].pc = "idle"
  /\ Cardinality(ActivePlans) < MaxConcurrentPlans
  /\ \E r \in Requests[c] :
       call' = [call EXCEPT ![c] = [Ended("fetching") EXCEPT !.auto = r.auto, !.dry = r.dry]]
  /\ UNCHANGED <<plans, task, world, restarts>>

\* _fetch_incident: any failure is None, and the call ends with 404.
IncidentMissing(c) ==
  /\ call[c].pc = "fetching"
  /\ call' = [call EXCEPT ![c] = Ended("notfound")]
  /\ UNCHANGED <<plans, task, world, restarts>>

\* The incident arrives; skip_simulation decides what is awaited next.
IncidentFetched(c) ==
  /\ call[c].pc = "fetching"
  /\ \E pc \in {"simulating", "planning"} : call' = [call EXCEPT ![c].pc = pc]
  /\ UNCHANGED <<plans, task, world, restarts>>

\* _run_simulation: a failed simulation is None and the call goes on.
Simulated(c) ==
  /\ call[c].pc = "simulating"
  /\ call' = [call EXCEPT ![c].pc = "planning"]
  /\ UNCHANGED <<plans, task, world, restarts>>

\* Mutant: the plan goes to "verifying" but the task is not created.
SettleMutant(c, plan) ==
  LET waits  == \E i \in DOMAIN plan.actions : AwaitsApproval(plan.actions[i])
      status == IF waits THEN "awaiting_approval" ELSE "verifying"
  IN  /\ plans' = [plans EXCEPT ![c] = [plan EXCEPT !.status = status]]
      /\ call' = [call EXCEPT ![c] = Ended("returned")]
      /\ UNCHANGED <<task, world>>

\* The status a plan gets once the trigger is done with it.
Settle(c, plan) ==
  LET waits  == \E i \in DOMAIN plan.actions : AwaitsApproval(plan.actions[i])
      closes == ~waits /\ AllResolved(plan)
      status == IF waits THEN "awaiting_approval" ELSE IF closes THEN "verifying" ELSE "executing"
  IN  /\ plans' = [plans EXCEPT ![c] = [plan EXCEPT !.status = status]]
      /\ call' = [call EXCEPT ![c] = Ended("returned")]
      /\ task' = IF closes THEN Spawned(c, "trigger") ELSE task
      /\ UNCHANGED world

\* Mutant: the loop forgets the approval flag.
AutoReadyMutant(plan, from) ==
  {i \in DOMAIN plan.actions : i >= from /\ plan.actions[i].status = "pending"}

\* _execute_auto_actions from position `from` on: the actions it would still run.
AutoReady(plan, from) ==
  {i \in DOMAIN plan.actions :
     i >= from /\ ~plan.actions[i].gated /\ plan.actions[i].status = "pending"}

StartNextAuto(c, plan, from, count) ==
  /\ count < MaxAutoActions
  /\ \E i \in AutoReady(plan, from) :
       LET remote == HasAdapter(plan.actions[i].kind)
       IN  /\ \A j \in AutoReady(plan, from) : i <= j
           /\ plans' = [plans EXCEPT ![c] = Begun(plan, i, "auto")]
           /\ call' = [call EXCEPT ![c].pc = IF remote THEN "executing" ELSE "cooling",
                                   ![c].at = i,
                                   ![c].count = IF remote THEN count ELSE count + 1]
           /\ CallAdapter(c, plan, i)
  /\ UNCHANGED task

\* At the limit the actions left over are switched to approval.
PutUnderApproval(actions, left) ==
  [i \in DOMAIN actions |-> [actions[i] EXCEPT !.gated = actions[i].gated \/ i \in left]]

EndAutoLoop(c, plan, from, count) ==
  LET left == AutoReady(plan, from)
  IN  /\ left = {} \/ count >= MaxAutoActions
      /\ Settle(c, [plan EXCEPT !.actions = PutUnderApproval(plan.actions, left),
                                !.autoCount = count])

ContinueAutoLoop(c, plan, from, count) ==
  \/ StartNextAuto(c, plan, from, count)
  \/ EndAutoLoop(c, plan, from, count)

\* The plan generate_plan returns for a draft.
NewPlan(c, draft) ==
  [NoPlan EXCEPT
     !.status = "planning",
     !.dry = call[c].dry \/ DryRunMode,
     !.actions = [i \in DOMAIN draft |->
                    [kind |-> draft[i].kind, gated |-> draft[i].gated,
                     status |-> "pending", by |-> "nobody"]]]

\* The plan is registered and, unless it is dry or auto_execute is off, the
\* automatic loop starts, all before the next await.
Planned(c) ==
  /\ call[c].pc = "planning"
  /\ \E draft \in Drafts[c] :
       LET plan == NewPlan(c, draft)
       IN  IF call[c].auto /\ ~plan.dry
             THEN ContinueAutoLoop(c, plan, 1, 0)
             ELSE Settle(c, plan)
  /\ UNCHANGED restarts

\* The adapter answers the automatic action; the loop then sleeps the cooldown.
AutoActionDone(c) ==
  /\ call[c].pc = "executing"
  /\ \E result \in ExecuteResults(plans[c].actions[call[c].at].kind, plans[c].dry) :
       /\ plans' = [plans EXCEPT ![c] = Replied(plans[c], call[c].at, result)]
       /\ ReplyEffect(c, call[c].at, result)
  /\ call' = [call EXCEPT ![c].pc = "cooling", ![c].count = @ + 1]
  /\ UNCHANGED <<task, restarts>>

CooldownOver(c) ==
  /\ call[c].pc = "cooling"
  /\ ContinueAutoLoop(c, plans[c], call[c].at + 1, call[c].count)
  /\ UNCHANGED restarts

-----------------------------------------------------------------------------
(* approve_action: any pending action of a registered plan, gated or not.  *)

\* After a decision: if every action is resolved, a verification task starts.
Conclude(c, plan) ==
  IF AllResolved(plan)
    THEN /\ plans' = [plans EXCEPT ![c] = [plan EXCEPT !.status = "verifying"]]
         /\ task' = Spawned(c, "approval")
    ELSE /\ plans' = [plans EXCEPT ![c] = plan]
         /\ UNCHANGED task

\* Mutant: a veto does not look whether it resolved the plan.
VetoMutant(c, i) ==
  /\ i \in Indices(c)
  /\ plans[c].actions[i].status = "pending"
  /\ plans' = [plans EXCEPT ![c] = WithStatus(plans[c], i, "vetoed")]
  /\ UNCHANGED <<call, task, world, restarts>>

Veto(c, i) ==
  /\ i \in Indices(c)
  /\ plans[c].actions[i].status = "pending"
  /\ Conclude(c, WithStatus(plans[c], i, "vetoed"))
  /\ UNCHANGED <<call, world, restarts>>

\* Mutant: only actions that have an adapter are counted.
ApproveUncountedMutant(c, i) ==
  /\ i \in Indices(c)
  /\ plans[c].actions[i].status = "pending"
  /\ LET plan == Begun(plans[c], i, "analyst")
     IN  IF HasAdapter(plans[c].actions[i].kind)
           THEN plans' = [plans EXCEPT ![c] = [plan EXCEPT !.humanCount = @ + 1]] /\ UNCHANGED task
           ELSE Conclude(c, plan)
  /\ CallAdapter(c, plans[c], i)
  /\ UNCHANGED <<call, restarts>>

Approve(c, i) ==
  /\ i \in Indices(c)
  /\ plans[c].actions[i].status = "pending"
  /\ LET plan == [Begun(plans[c], i, "analyst") EXCEPT !.humanCount = plans[c].humanCount + 1]
     IN  IF HasAdapter(plans[c].actions[i].kind)
           THEN plans' = [plans EXCEPT ![c] = plan] /\ UNCHANGED task
           ELSE Conclude(c, plan)
  /\ CallAdapter(c, plans[c], i)
  /\ UNCHANGED <<call, restarts>>

ApprovedActionDone(c, i) ==
  /\ i \in Indices(c)
  /\ plans[c].actions[i].status = "executing"
  /\ plans[c].actions[i].by = "analyst"
  /\ \E result \in ExecuteResults(plans[c].actions[i].kind, plans[c].dry) :
       /\ Conclude(c, Replied(plans[c], i, result))
       /\ ReplyEffect(c, i, result)
  /\ UNCHANGED <<call, restarts>>

-----------------------------------------------------------------------------
(* _verify_and_complete and _rollback_plan                                 *)

VerdictPassed(c, k) ==
  /\ task[c][k].pc = "verifying"
  /\ plans' = [plans EXCEPT ![c].verification = "passed", ![c].status = "completed"]
  /\ task' = [task EXCEPT ![c][k].pc = "done"]
  /\ UNCHANGED <<call, world, restarts>>

CompletedActions(c) == {i \in Indices(c) : plans[c].actions[i].status = "completed"}

\* The rollback list is fixed here; with an empty one nothing is awaited.
VerdictFailed(c, k) ==
  LET rolls  == AutoRollback /\ CompletedActions(c) # {}
      status == IF rolls THEN plans[c].status
                ELSE IF AutoRollback THEN "rolled_back" ELSE "completed"
  IN  /\ task[c][k].pc = "verifying"
      /\ plans' = [plans EXCEPT ![c].verification = "failed", ![c].status = status]
      /\ task' = [task EXCEPT ![c][k] =
                    IF rolls THEN [pc |-> "rolling", todo |-> CompletedActions(c)]
                             ELSE [pc |-> "done", todo |-> {}]]
      /\ UNCHANGED <<call, world, restarts>>

\* verify_plan raises: a re-simulation reply whose success rate is not a number.
VerdictRaised(c, k) ==
  /\ task[c][k].pc = "verifying"
  /\ plans' = [plans EXCEPT ![c].status = "failed"]
  /\ task' = [task EXCEPT ![c][k].pc = "done"]
  /\ UNCHANGED <<call, world, restarts>>

\* Mutant: the rollback list is worked off from its first action.
RollsBackMutant(c, k, i) == i \in task[c][k].todo /\ \A j \in task[c][k].todo : i <= j

\* The action whose rollback is awaited: the last of those left.
RollsBack(c, k, i) == i \in task[c][k].todo /\ \A j \in task[c][k].todo : j <= i

\* The command of the rollback under way takes effect before its reply.
RollbackLands(c, k) ==
  /\ task[c][k].pc = "rolling"
  /\ \E i \in Slots :
       /\ RollsBack(c, k, i)
       /\ RollbackSendsCommand(plans[c].actions[i].kind)
       /\ world[c][i].effect = "applied"
       /\ world' = [world EXCEPT ![c][i].effect = "undone"]
  /\ UNCHANGED <<call, plans, task, restarts>>

\* The adapter answers the rollback of the last action left on the list.
RollbackReply(c, k) ==
  /\ task[c][k].pc = "rolling"
  /\ \E i \in Slots :
       /\ RollsBack(c, k, i)
       /\ \E result \in RollbackResults(plans[c].actions[i].kind) :
            LET action == plans[c].actions[i]
                after  == WithStatus(plans[c], i,
                            IF result = "ok" THEN "rolled_back" ELSE action.status)
                rest   == task[c][k].todo \ {i}
                undone == result = "ok" /\ RollbackSendsCommand(action.kind)
                            /\ world[c][i].effect = "applied"
            IN  /\ plans' = [plans EXCEPT ![c] =
                               IF rest = {} THEN [after EXCEPT !.status = "rolled_back"] ELSE after]
                /\ task' = [task EXCEPT ![c][k] =
                              [pc |-> IF rest = {} THEN "done" ELSE "rolling", todo |-> rest]]
                /\ world' = [world EXCEPT ![c][i].undos = @ + 1,
                                          ![c][i].effect = IF undone THEN "undone" ELSE @]
  /\ UNCHANGED <<call, restarts>>

-----------------------------------------------------------------------------
(* A restart of the process loses everything but the infrastructure.       *)

Restart ==
  /\ restarts < MaxRestarts
  /\ restarts' = restarts + 1
  /\ call' = [c \in Calls |-> IF call[c].pc \in InFlight THEN Ended("lost") ELSE call[c]]
  /\ plans' = [c \in Calls |-> NoPlan]
  /\ task' = [c \in Calls |-> [k \in Spawners |-> NoTask]]
  /\ UNCHANGED world

\* Every call has ended, no task runs, no action is open: the service is idle.
Quiescent ==
  /\ \A c \in Calls : call[c].pc \notin InFlight \cup {"idle"}
  /\ \A c \in Calls, k \in Spawners : ~Running(c, k)
  /\ \A c \in Calls : \A i \in Indices(c) : plans[c].actions[i].status \notin {"pending", "executing"}
  /\ UNCHANGED vars

TriggerStep(c) ==
  \/ Refuse(c) \/ Admit(c)
  \/ IncidentMissing(c) \/ IncidentFetched(c) \/ Simulated(c)
  \/ Planned(c) \/ AutoActionDone(c) \/ CooldownOver(c)

Decide(c, i) == Approve(c, i) \/ Veto(c, i)

VerifyStep(c, k) ==
  \/ VerdictPassed(c, k) \/ VerdictFailed(c, k) \/ VerdictRaised(c, k)
  \/ RollbackReply(c, k)

Next ==
  \/ \E c \in Calls : TriggerStep(c)
  \/ \E c \in Calls, i \in Slots : Decide(c, i) \/ ApprovedActionDone(c, i) \/ Lands(c, i)
  \/ \E c \in Calls, k \in Spawners : VerifyStep(c, k) \/ RollbackLands(c, k)
  \/ Restart
  \/ Quiescent

Spec == Init /\ [][Next]_vars

\* Every await has a timeout or is a sleep, and the event loop runs whatever is
\* ready: a coroutine that started goes on.  Nothing makes a client send a
\* request, an analyst decide, or a command land.
Fairness ==
  /\ \A c \in Calls : WF_vars(call[c].pc \in InFlight /\ TriggerStep(c))
  /\ \A c \in Calls, i \in Slots : WF_vars(ApprovedActionDone(c, i))
  /\ \A c \in Calls, k \in Spawners : WF_vars(VerifyStep(c, k))

FairSpec == Spec /\ Fairness

\* An analyst who decides everything that GET /approvals lists.
DiligentAnalyst ==
  \A c \in Calls, i \in Slots : WF_vars(<<c, i>> \in PendingApprovals /\ Decide(c, i))

-----------------------------------------------------------------------------
(* Properties.                                                             *)

\* The state variables stay within the records the code builds.
TypeOK ==
  /\ call \in [Calls -> Call]
  /\ plans \in [Calls -> Plan]
  /\ \A c \in Calls : Len(plans[c].actions) <= MaxPlanLength
  /\ task \in [Calls -> [Spawners -> Task]]
  /\ world \in [Calls -> [Slots -> Effect]]
  /\ restarts \in 0..MaxRestarts

\* The loop's budget holds whatever analysts decide while it sleeps: no plan has
\* more actions started without a person than max_auto_actions_per_incident.
AutoBudget ==
  \A c \in Calls :
    Cardinality({i \in Indices(c) : plans[c].actions[i].by = "auto"}) <= MaxAutoActions

\* An action that requires approval leaves "pending" only by an analyst's hand,
\* also when the requirement was added late, at the loop's limit.
AnalystGate ==
  \A c \in Calls : \A i \in Indices(c) :
    LET action == plans[c].actions[i]
    IN  action.gated /\ action.status \notin {"pending", "vetoed"} => action.by = "analyst"

\* The adapters are asked to execute exactly the actions the plan says were
\* started, each once: the loop and an approval never both run one, a vetoed
\* action is never run, and a dry run executes nothing.
CommandedOnce ==
  \A c \in Calls : \A i \in Indices(c) :
    LET action == plans[c].actions[i]
    IN  world[c][i].runs = IF action.by # "nobody" /\ HasAdapter(action.kind) /\ ~plans[c].dry
                             THEN 1 ELSE 0

\* While a verification or a rollback runs, no action of the plan is still
\* pending or executing: what is verified can no longer change under it.
QuietVerification ==
  \A c \in Calls, k \in Spawners :
    Running(c, k) =>
      \A i \in Indices(c) : plans[c].actions[i].status \notin {"pending", "executing"}

\* No plan waits for approval with nothing left to decide or to finish.
AwaitingMeansWork ==
  \A c \in Calls :
    plans[c].status = "awaiting_approval" =>
      \E i \in Indices(c) : plans[c].actions[i].status \in {"pending", "executing"}

\* The counters reported for a plan agree with its actions once the trigger has
\* returned: decisions taken during the loop are not counted twice or lost.
CountsAgree ==
  \A c \in Calls : Present(c) =>
    /\ plans[c].humanCount =
         Cardinality({i \in Indices(c) : plans[c].actions[i].by = "analyst"})
    /\ call[c].pc = "returned" =>
         plans[c].autoCount = Cardinality({i \in Indices(c) : plans[c].actions[i].by = "auto"})

\* What the service reports of a plan can be trusted: it is well formed, the
\* loop's budget holds, and the counters agree with the actions.
Bookkeeping == TypeOK /\ AutoBudget /\ CountsAgree

\* Rollback runs against the order of execution: an action is rolled back only
\* after the rollback of every later action that had completed was tried.
RollbackInReverse ==
  [][\A c \in Calls : \A i, j \in Slots :
       /\ world'[c][i].undos > world[c][i].undos
       /\ j > i /\ j \in Indices(c)
       /\ plans[c].actions[j].status = "completed"
       => world[c][j].undos > 0]_vars

\* A call that was admitted comes to an end, however upstream services behave.
TriggersReturn ==
  \A c \in Calls : call[c].pc \in InFlight ~> call[c].pc \in {"notfound", "returned", "lost"}

\* The trigger woke up after its plan had been rolled back: with an action that
\* is rolled_back it takes the plan for one that is still executing.
Overtaken(c) ==
  /\ plans[c].status = "executing"
  /\ \E i \in Indices(c) : plans[c].actions[i].status = "rolled_back"

\* Once the trigger has returned and no action is open, the plan reaches a
\* terminal status for good (or is lost with the process), whatever the
\* verification finds; unless the plan was rolled back under the loop.
ResolvedPlansFinish ==
  \A c \in Calls :
    <>[](/\ call[c].pc = "returned"
         /\ \A i \in Indices(c) : plans[c].actions[i].status \notin {"pending", "executing"}
         => plans[c].status \in Terminal \cup {"absent"} \/ Overtaken(c))

-----------------------------------------------------------------------------
(* What the repository says of the program, and the program does not do.   *)

\* orchestrator.py:8, "COMPLETED (or ROLLED_BACK)" ends the state machine.
TerminalIsFinal ==
  [][\A c \in Calls :
       plans[c].status \in Terminal => plans'[c].status \in {plans[c].status, "absent"}]_vars

\* config.py:62, max_concurrent_plans under "Safety Limits".
ConcurrentPlanLimit == Cardinality(ActivePlans) <= MaxConcurrentPlans

\* models.py:211, "If true, no actions were actually executed".
DryRunTouchesNothing ==
  \A c \in Calls : plans[c].dry => world[c] = [i \in Slots |-> NoEffect]

\* wazuh.py:394, a rollback reported as "reconnected to network" has undone
\* the isolation.
RolledBackActionIsUndone ==
  \A c \in Calls : \A i \in Indices(c) :
    plans[c].actions[i].status = "rolled_back" => world[c][i].effect # "applied"

\* orchestrator.py:118, "Complete or cancel existing plans first": a plan can
\* be brought to its end through what the service lists.
PlansFinish == \A c \in Calls : Present(c) ~> plans[c].status \in Terminal \cup {"absent"}
=============================================================================
