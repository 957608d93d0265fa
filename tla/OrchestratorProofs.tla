------------------------- MODULE OrchestratorProofs -------------------------
(***************************************************************************)
(* Theorems about ResponseOrchestrator, for every set of calls, every      *)
(* draft the planner may produce and every setting.                        *)
(***************************************************************************)
EXTENDS OrchestratorLedger, SequenceTheorems, FiniteSetTheorems, TLAPS

-----------------------------------------------------------------------------
(* The operators on plans keep a plan a plan, of the same length.          *)

\* Replacing one action keeps a list of actions, its length and its indices.
LEMMA ActionReplaced ==
  ASSUME NEW s \in Seq(Action), NEW i, NEW a, i \in DOMAIN s => a \in Action
  PROVE  /\ [s EXCEPT ![i] = a] \in Seq(Action)
         /\ Len([s EXCEPT ![i] = a]) = Len(s)
         /\ DOMAIN [s EXCEPT ![i] = a] = DOMAIN s
<1>1. DOMAIN s = 1..Len(s)
  OBVIOUS
<1>2. CASE i \in DOMAIN s
  BY <1>1, <1>2, ExceptSeq
<1>3. CASE i \notin DOMAIN s
  <2>1. [s EXCEPT ![i] = a] = s
    BY <1>1, <1>3
  <2> QED
    BY <2>1
<1> QED
  BY <1>2, <1>3

\* What of a plan is a plan again when its list of actions is replaced.
LEMMA ActionsReplaced ==
  ASSUME NEW plan \in Plan, NEW s \in Seq(Action)
  PROVE  /\ [plan EXCEPT !.actions = s] \in Plan
         /\ [plan EXCEPT !.actions = s].actions = s
  BY DEF Plan

\* Starting an action keeps a plan a plan of the same length.
LEMMA BegunType ==
  ASSUME NEW plan \in Plan, NEW i \in DOMAIN plan.actions, NEW who \in {"auto", "analyst"}
  PROVE  /\ Begun(plan, i, who) \in Plan
         /\ Len(Begun(plan, i, who).actions) = Len(plan.actions)
<1> DEFINE st == IF HasAdapter(plan.actions[i].kind) THEN "executing" ELSE "failed"
           a  == [plan.actions[i] EXCEPT !.status = st, !.by = who]
           s  == [plan.actions EXCEPT ![i] = a]
<1>1. plan.actions \in Seq(Action) /\ plan.actions[i] \in Action
  BY DEF Plan
<1>2. st \in ActionStatus
  BY DEF ActionStatus
<1>3. a \in Action
  BY <1>1, <1>2 DEF Action
<1>4. s \in Seq(Action) /\ Len(s) = Len(plan.actions)
  BY <1>1, <1>3, ActionReplaced
<1>5. Begun(plan, i, who) = [plan EXCEPT !.actions = s]
  BY <1>1 DEF Begun, Plan, Action
<1> QED
  BY <1>4, <1>5, ActionsReplaced

\* The reply of an adapter, and a veto, keep a plan a plan of the same length.
LEMMA StatusType ==
  ASSUME NEW plan \in Plan, NEW i, NEW status,
         i \in DOMAIN plan.actions => status \in ActionStatus
  PROVE  /\ WithStatus(plan, i, status) \in Plan
         /\ Len(WithStatus(plan, i, status).actions) = Len(plan.actions)
         /\ DOMAIN WithStatus(plan, i, status).actions = DOMAIN plan.actions
<1> DEFINE a == [plan.actions[i] EXCEPT !.status = status]
           s == [plan.actions EXCEPT ![i] = a]
<1>1. plan.actions \in Seq(Action)
  BY DEF Plan
<1>2. ASSUME i \in DOMAIN plan.actions PROVE a \in Action
  <2>1. plan.actions[i] \in Action
    BY <1>1, <1>2
  <2> QED
    BY <2>1, <1>2 DEF Action
<1>3. s \in Seq(Action) /\ Len(s) = Len(plan.actions) /\ DOMAIN s = DOMAIN plan.actions
  BY <1>1, <1>2, ActionReplaced
<1>4. WithStatus(plan, i, status) = [plan EXCEPT !.actions = s]
  BY <1>1 DEF WithStatus, Plan
<1> QED
  BY <1>3, <1>4, ActionsReplaced

-----------------------------------------------------------------------------
(* Type correctness.                                                       *)

PlansType(ps) == ps \in [Calls -> Plan] /\ \A c \in Calls : Len(ps[c].actions) <= MaxPlanLength
TaskType == [Calls -> [Spawners -> Task]]
WorldType == [Calls -> [Slots -> Effect]]

LEMMA PlansReplaced ==
  ASSUME PlansType(plans), NEW c \in Calls, NEW plan \in Plan, Len(plan.actions) <= MaxPlanLength
  PROVE  PlansType([plans EXCEPT ![c] = plan])
  BY DEF PlansType

LEMMA CallReplaced ==
  ASSUME TypeOK, NEW c \in Calls
  PROVE  /\ \A r \in Call : [call EXCEPT ![c] = r] \in [Calls -> Call]
         /\ \A pc \in CallPc : [call EXCEPT ![c].pc = pc] \in [Calls -> Call]
         /\ \A pc \in CallPc, n \in Nat :
              [call EXCEPT ![c].pc = pc, ![c].count = n] \in [Calls -> Call]
         /\ \A pc \in CallPc : Ended(pc) \in Call
<1>1. call[c] \in Call
  BY DEF TypeOK
<1>2. ASSUME NEW pc \in CallPc, NEW n \in Nat
      PROVE  /\ [call[c] EXCEPT !.pc = pc] \in Call
             /\ [call[c] EXCEPT !.pc = pc, !.count = n] \in Call
             /\ Ended(pc) \in Call
  BY <1>1, <1>2 DEF Call, Ended
<1> QED
  BY <1>1, <1>2 DEF TypeOK

LEMMA TaskReplaced ==
  ASSUME TypeOK, NEW c \in Calls, NEW k \in Spawners
  PROVE  /\ \A t \in Task : [task EXCEPT ![c][k] = t] \in TaskType
         /\ [task EXCEPT ![c][k].pc = "done"] \in TaskType
<1>1. task[c][k] \in Task
  BY DEF TypeOK
<1>2. [task[c][k] EXCEPT !.pc = "done"] \in Task
  BY <1>1 DEF Task
<1> QED
  BY <1>1, <1>2 DEF TypeOK, TaskType

LEMMA SpawnedType ==
  ASSUME task \in TaskType, NEW c \in Calls, NEW k \in Spawners
  PROVE  Spawned(c, k) \in TaskType
  BY DEF Spawned, TaskType, Task

LEMMA EffectChanged ==
  ASSUME world \in WorldType, NEW c \in Calls, NEW i,
         NEW e \in {"none", "requested", "applied", "undone"}
  PROVE  [world EXCEPT ![c][i].effect = e] \in WorldType
<1>1. CASE i \in Slots
  <2>1. world[c][i] \in Effect
    BY <1>1 DEF WorldType
  <2>2. [world[c][i] EXCEPT !.effect = e] \in Effect
    BY <2>1 DEF Effect
  <2> QED
    BY <2>2, <1>1 DEF WorldType
<1>2. CASE i \notin Slots
  <2>1. [world[c] EXCEPT ![i].effect = e] = world[c]
    BY <1>2 DEF WorldType
  <2> QED
    BY <2>1 DEF WorldType
<1> QED
  BY <1>1, <1>2

LEMMA ReplyEffectType ==
  ASSUME world \in WorldType, NEW c \in Calls, NEW i, NEW result, ReplyEffect(c, i, result)
  PROVE  world' \in WorldType
<1>1. CASE world' = world
  BY <1>1
<1>2. CASE world' = [world EXCEPT ![c][i].effect = "applied"]
  BY <1>2, EffectChanged
<1> QED
  BY <1>1, <1>2 DEF ReplyEffect

LEMMA CallAdapterType ==
  ASSUME world \in WorldType, NEW c \in Calls, NEW plan, NEW i \in Slots,
         CallAdapter(c, plan, i)
  PROVE  world' \in WorldType
<1>1. SUFFICES ASSUME NEW e \in {"requested", "applied", "none"}
               PROVE  [world EXCEPT ![c][i].effect = e, ![c][i].runs = @ + 1] \in WorldType
  BY DEF CallAdapter
<1>2. world[c][i] \in Effect
  BY DEF WorldType
<1>3. world[c][i].runs + 1 \in Nat
  BY <1>2 DEF Effect
<1> QED
  BY <1>2, <1>3 DEF WorldType, Effect

LEMMA SettleType ==
  ASSUME TypeOK, NEW c \in Calls, NEW plan \in Plan, Len(plan.actions) <= MaxPlanLength,
         Settle(c, plan), restarts' = restarts
  PROVE  TypeOK'
<1>1. call' \in [Calls -> Call]
  BY DEF Settle, TypeOK, Ended, Call, CallPc
<1>2. PICK st \in PlanStatus : plans' = [plans EXCEPT ![c] = [plan EXCEPT !.status = st]]
  BY DEF Settle, PlanStatus
<1>3. [plan EXCEPT !.status = st] \in Plan /\ [plan EXCEPT !.status = st].actions = plan.actions
  BY DEF Plan
<1>4. PlansType(plans')
  BY <1>2, <1>3, PlansReplaced DEF TypeOK, PlansType
<1>5. task' \in TaskType
  BY SpawnedType DEF Settle, TypeOK, TaskType, Spawners
<1> QED
  BY <1>1, <1>4, <1>5 DEF TypeOK, PlansType, TaskType, Settle

LEMMA ConcludeType ==
  ASSUME TypeOK, NEW c \in Calls, NEW plan \in Plan, Len(plan.actions) <= MaxPlanLength,
         Conclude(c, plan), call' = call, world' \in WorldType, restarts' = restarts
  PROVE  TypeOK'
<1>1. PICK st \in {plan.status, "verifying"} :
        plans' = [plans EXCEPT ![c] = [plan EXCEPT !.status = st]]
  BY DEF Conclude, Plan
<1>2. [plan EXCEPT !.status = st] \in Plan /\ [plan EXCEPT !.status = st].actions = plan.actions
  BY DEF Plan, PlanStatus
<1>3. PlansType(plans')
  BY <1>1, <1>2, PlansReplaced DEF TypeOK, PlansType
<1>4. task' \in TaskType
  BY SpawnedType DEF Conclude, TypeOK, TaskType, Spawners
<1> QED
  BY <1>3, <1>4 DEF TypeOK, PlansType, TaskType, WorldType

\* Switching the actions left over to approval keeps a plan a plan.
LEMMA GatedType ==
  ASSUME NEW plan \in Plan, NEW left, NEW count \in Nat
  PROVE  LET s == PutUnderApproval(plan.actions, left)
             p == [plan EXCEPT !.actions = s, !.autoCount = count]
         IN  p \in Plan /\ p.actions = s /\ Len(s) = Len(plan.actions)
<1> DEFINE s == PutUnderApproval(plan.actions, left)
<1>1. plan.actions \in Seq(Action)
  BY DEF Plan
<1>2. Len(plan.actions) \in Nat /\ DOMAIN plan.actions = 1..Len(plan.actions)
  BY <1>1
<1>3. ASSUME NEW i \in 1..Len(plan.actions) PROVE s[i] \in Action
  <2>1. plan.actions[i] \in Action
    BY <1>1, <1>2
  <2> QED
    BY <2>1, <1>2 DEF Action, PutUnderApproval
<1>4. s \in [1..Len(plan.actions) -> Action]
  BY <1>2, <1>3 DEF PutUnderApproval
<1>5. s \in Seq(Action) /\ Len(s) = Len(plan.actions)
  BY <1>2, <1>4, SeqDef
<1> HIDE DEF s
<1> QED
  BY <1>5 DEF Plan, s

LEMMA AutoLoopType ==
  ASSUME TypeOK, NEW c \in Calls, NEW plan \in Plan, Len(plan.actions) <= MaxPlanLength,
         NEW from, NEW count \in Nat, ContinueAutoLoop(c, plan, from, count),
         restarts' = restarts
  PROVE  TypeOK'
<1>1. CASE StartNextAuto(c, plan, from, count)
  <2>1. PICK i \in AutoReady(plan, from) :
          /\ plans' = [plans EXCEPT ![c] = Begun(plan, i, "auto")]
          /\ \E pc \in {"executing", "cooling"}, n \in {count, count + 1} :
               call' = [call EXCEPT ![c].pc = pc, ![c].at = i, ![c].count = n]
          /\ CallAdapter(c, plan, i)
    BY <1>1 DEF StartNextAuto
  <2>2. i \in DOMAIN plan.actions /\ i \in Nat /\ i \in Slots
    BY ConstantsAssumption DEF AutoReady, Plan, Slots
  <2>3. call' \in [Calls -> Call]
    <3>1. PICK pc \in {"executing", "cooling"}, n \in {count, count + 1} :
            call' = [call EXCEPT ![c].pc = pc, ![c].at = i, ![c].count = n]
      BY <2>1
    <3>3. n \in Nat /\ pc \in CallPc /\ call[c] \in Call
      BY DEF TypeOK, CallPc, InFlight
    <3>4. [call[c] EXCEPT !.pc = pc, !.at = i, !.count = n] \in Call
      BY <2>2, <3>3 DEF Call
    <3> QED
      BY <3>1, <3>4 DEF TypeOK
  <2>4. PlansType(plans')
    BY <2>1, <2>2, BegunType, PlansReplaced DEF TypeOK, PlansType
  <2>5. world' \in WorldType
    BY <2>1, <2>2, CallAdapterType DEF TypeOK, WorldType
  <2> QED
    BY <1>1, <2>3, <2>4, <2>5 DEF TypeOK, PlansType, WorldType, StartNextAuto
<1>2. CASE EndAutoLoop(c, plan, from, count)
  <2> DEFINE s == PutUnderApproval(plan.actions, AutoReady(plan, from))
             p == [plan EXCEPT !.actions = s, !.autoCount = count]
  <2>1. Settle(c, p)
    BY <1>2 DEF EndAutoLoop
  <2>2. p \in Plan /\ Len(p.actions) = Len(plan.actions)
    BY GatedType
  <2> QED
    BY <2>1, <2>2, SettleType
<1> QED
  BY <1>1, <1>2 DEF ContinueAutoLoop

\* The plan made of a draft is a plan of the draft's length.
LEMMA NewPlanType ==
  ASSUME TypeOK, NEW c \in Calls, NEW draft \in Drafts[c]
  PROVE  /\ NewPlan(c, draft) \in Plan
         /\ Len(NewPlan(c, draft).actions) <= MaxPlanLength
<1> DEFINE s == [i \in DOMAIN draft |-> [kind |-> draft[i].kind, gated |-> draft[i].gated,
                                        status |-> "pending", by |-> "nobody"]]
<1>1. draft \in Seq(DraftAction) /\ Len(draft) <= MaxPlanLength
  BY ConstantsAssumption
<1>2. Len(draft) \in Nat /\ DOMAIN draft = 1..Len(draft)
  BY <1>1
<1>3. ASSUME NEW i \in 1..Len(draft) PROVE s[i] \in Action
  <2>1. draft[i] \in DraftAction
    BY <1>1, <1>2
  <2> QED
    BY <2>1, <1>2 DEF DraftAction, Action, ActionStatus
<1>4. s \in [1..Len(draft) -> Action]
  BY <1>2, <1>3
<1>5. s \in Seq(Action) /\ Len(s) = Len(draft)
  BY <1>2, <1>4, SeqDef
<1>6. (call[c].dry \/ DryRunMode) \in BOOLEAN
  BY ConstantsAssumption DEF TypeOK, Call
<1>7. NewPlan(c, draft).actions = s
  BY DEF NewPlan, NoPlan
<1>8. NewPlan(c, draft) \in Plan
  BY <1>5, <1>6, <1>7 DEF NewPlan, NoPlan, Plan, PlanStatus
<1> QED
  BY <1>1, <1>5, <1>7, <1>8

LEMMA InitType == Init => TypeOK
<1> SUFFICES ASSUME Init PROVE TypeOK
  OBVIOUS
<1>1. NoPlan \in Plan /\ Len(NoPlan.actions) = 0
  BY DEF NoPlan, Plan
<1>2. call \in [Calls -> Call]
  BY DEF Init, Ended, Call, CallPc
<1>3. world \in [Calls -> [Slots -> Effect]] /\ task \in [Calls -> [Spawners -> Task]]
  BY DEF Init, NoEffect, Effect, NoTask, Task
<1> QED
  BY <1>1, <1>2, <1>3, ConstantsAssumption DEF Init, TypeOK

\* A step of the trigger keeps the types.
LEMMA TriggerType ==
  ASSUME TypeOK, NEW c \in Calls, TriggerStep(c)
  PROVE  TypeOK'
<1>1. CASE Refuse(c) \/ IncidentMissing(c)
  <2>1. call' \in [Calls -> Call]
    <3>1. "refused" \in CallPc /\ "notfound" \in CallPc
      BY DEF CallPc
    <3>2. call' = [call EXCEPT ![c] = Ended("refused")] \/ call' = [call EXCEPT ![c] = Ended("notfound")]
      BY <1>1 DEF Refuse, IncidentMissing
    <3> QED
      BY <3>1, <3>2, CallReplaced
  <2> QED
    BY <1>1, <2>1 DEF Refuse, IncidentMissing, TypeOK
<1>2. CASE Admit(c)
  <2>1. PICK r \in Requests[c] :
          call' = [call EXCEPT ![c] = [Ended("fetching") EXCEPT !.auto = r.auto, !.dry = r.dry]]
    BY <1>2 DEF Admit
  <2>2. r.auto \in BOOLEAN /\ r.dry \in BOOLEAN
    BY ConstantsAssumption
  <2>3. [Ended("fetching") EXCEPT !.auto = r.auto, !.dry = r.dry] \in Call
    BY <2>2 DEF Ended, Call, CallPc, InFlight
  <2> QED
    BY <1>2, <2>1, <2>3 DEF Admit, TypeOK
<1>3. CASE IncidentFetched(c) \/ Simulated(c)
  <2>1. call' \in [Calls -> Call]
    <3>1. "simulating" \in CallPc /\ "planning" \in CallPc
      BY DEF CallPc, InFlight
    <3>2. \E pc \in {"simulating", "planning"} : call' = [call EXCEPT ![c].pc = pc]
      BY <1>3 DEF IncidentFetched, Simulated
    <3> QED
      BY <3>1, <3>2, CallReplaced
  <2> QED
    BY <1>3, <2>1 DEF IncidentFetched, Simulated, TypeOK
<1>4. CASE Planned(c)
  <2>1. PICK draft \in Drafts[c] :
          IF call[c].auto /\ ~NewPlan(c, draft).dry
            THEN ContinueAutoLoop(c, NewPlan(c, draft), 1, 0)
            ELSE Settle(c, NewPlan(c, draft))
    BY <1>4 DEF Planned
  <2> QED
    BY <1>4, <2>1, NewPlanType, AutoLoopType, SettleType DEF Planned
<1>5. CASE AutoActionDone(c)
  <2>1. PICK status \in {"completed", "failed"} :
          plans' = [plans EXCEPT ![c] = WithStatus(plans[c], call[c].at, status)]
    BY <1>5 DEF AutoActionDone, Replied
  <2>2. PlansType(plans')
    <3>1. status \in ActionStatus /\ PlansType(plans)
      BY DEF ActionStatus, TypeOK, PlansType
    <3>2. plans[c] \in Plan /\ Len(plans[c].actions) <= MaxPlanLength
      BY <3>1 DEF PlansType
    <3>3. /\ WithStatus(plans[c], call[c].at, status) \in Plan
          /\ Len(WithStatus(plans[c], call[c].at, status).actions) <= MaxPlanLength
      BY <3>1, <3>2, StatusType
    <3> QED
      BY <2>1, <3>1, <3>3, PlansReplaced
  <2>3. world' \in WorldType
    <3>1. world \in WorldType
      BY DEF TypeOK, WorldType
    <3>2. PICK result \in {"ok", "error"} : ReplyEffect(c, call[c].at, result)
      BY <1>5 DEF AutoActionDone, ExecuteResults
    <3> QED
      BY <3>1, <3>2, ReplyEffectType
  <2>4. call' \in [Calls -> Call]
    <3>1. call' = [call EXCEPT ![c].pc = "cooling", ![c].count = call[c].count + 1]
      BY <1>5 DEF AutoActionDone, TypeOK, Call
    <3>2. call[c].count + 1 \in Nat
      BY DEF TypeOK, Call
    <3> QED
      BY <3>1, <3>2, CallReplaced DEF CallPc, InFlight
  <2> QED
    BY <1>5, <2>2, <2>3, <2>4 DEF AutoActionDone, TypeOK, PlansType, WorldType
<1>6. CASE CooldownOver(c)
  BY <1>6, AutoLoopType DEF CooldownOver, TypeOK, Call
<1> QED
  BY <1>1, <1>2, <1>3, <1>4, <1>5, <1>6 DEF TriggerStep

\* A decision, and the reply to an approved action, keep the types.
LEMMA DecisionType ==
  ASSUME TypeOK, NEW c \in Calls, NEW i \in Slots, Decide(c, i) \/ ApprovedActionDone(c, i)
  PROVE  TypeOK'
<1> USE DEF PlansType, TaskType, WorldType
<1> plans[c] \in Plan /\ Len(plans[c].actions) <= MaxPlanLength
  BY DEF TypeOK
<1>0. ASSUME NEW status \in ActionStatus
      PROVE  /\ WithStatus(plans[c], i, status) \in Plan
             /\ Len(WithStatus(plans[c], i, status).actions) <= MaxPlanLength
  BY StatusType
<1>1. CASE Veto(c, i)
  <2>1. "vetoed" \in ActionStatus
    BY DEF ActionStatus
  <2>2. Conclude(c, WithStatus(plans[c], i, "vetoed"))
    BY <1>1 DEF Veto
  <2>3. call' = call /\ restarts' = restarts /\ world' \in WorldType
    BY <1>1 DEF Veto, TypeOK
  <2> QED
    BY <2>2, <2>3, <1>0, <2>1, ConcludeType
<1>2. CASE Approve(c, i)
  <2> DEFINE plan == [Begun(plans[c], i, "analyst") EXCEPT !.humanCount = plans[c].humanCount + 1]
  <2>1. Begun(plans[c], i, "analyst") \in Plan
        /\ Len(Begun(plans[c], i, "analyst").actions) = Len(plans[c].actions)
    BY <1>2, BegunType DEF Approve, TypeOK, Indices
  <2>2. plans[c].humanCount + 1 \in Nat
    BY DEF TypeOK, Plan
  <2>3. plan \in Plan /\ Len(plan.actions) <= MaxPlanLength
    BY <2>1, <2>2 DEF TypeOK, Plan
  <2>4. world' \in WorldType
    BY <1>2, CallAdapterType DEF Approve, TypeOK
  <2>5. CASE HasAdapter(plans[c].actions[i].kind)
    BY <1>2, <2>3, <2>4, <2>5, PlansReplaced DEF Approve, TypeOK
  <2>6. CASE ~HasAdapter(plans[c].actions[i].kind)
    BY <1>2, <2>3, <2>4, <2>6, ConcludeType DEF Approve
  <2> QED
    BY <2>5, <2>6
<1>3. CASE ApprovedActionDone(c, i)
  <2>1. PICK status \in {"completed", "failed"} :
          Conclude(c, WithStatus(plans[c], i, status))
    BY <1>3 DEF ApprovedActionDone, Replied
  <2>2. world' \in WorldType
    <3>1. world \in WorldType
      BY DEF TypeOK
    <3>2. PICK result \in {"ok", "error"} : ReplyEffect(c, i, result)
      BY <1>3 DEF ApprovedActionDone, ExecuteResults
    <3> QED
      BY <3>1, <3>2, ReplyEffectType
  <2>3. status \in ActionStatus
    BY DEF ActionStatus
  <2>4. call' = call /\ restarts' = restarts
    BY <1>3 DEF ApprovedActionDone
  <2> QED
    BY <2>1, <2>2, <2>4, <1>0, <2>3, ConcludeType
<1> QED
  BY <1>1, <1>2, <1>3 DEF Decide

\* A step of a verification task keeps the types.
LEMMA VerifyType ==
  ASSUME TypeOK, NEW c \in Calls, NEW k \in Spawners, VerifyStep(c, k)
  PROVE  TypeOK'
<1> USE DEF PlansType, TaskType, WorldType
<1>1. CASE VerdictPassed(c, k) \/ VerdictRaised(c, k)
  <2>1. task' \in TaskType
    BY <1>1, TaskReplaced DEF VerdictPassed, VerdictRaised
  <2>2. /\ [plans[c] EXCEPT !.verification = "passed", !.status = "completed"] \in Plan
        /\ [plans[c] EXCEPT !.verification = "passed", !.status = "completed"].actions = plans[c].actions
        /\ [plans[c] EXCEPT !.status = "failed"] \in Plan
        /\ [plans[c] EXCEPT !.status = "failed"].actions = plans[c].actions
    BY DEF TypeOK, Plan, PlanStatus, Terminal
  <2>3. plans' \in {[plans EXCEPT ![c] = [plans[c] EXCEPT !.verification = "passed", !.status = "completed"]],
                   [plans EXCEPT ![c] = [plans[c] EXCEPT !.status = "failed"]]}
    BY <1>1 DEF VerdictPassed, VerdictRaised, TypeOK
  <2>4. PlansType(plans')
    BY <2>2, <2>3, PlansReplaced DEF TypeOK
  <2> QED
    BY <1>1, <2>1, <2>4 DEF VerdictPassed, VerdictRaised, TypeOK
<1>2. CASE VerdictFailed(c, k)
  <2>1. CompletedActions(c) \in SUBSET Slots
    BY ConstantsAssumption DEF CompletedActions, Indices, TypeOK, Plan, Slots
  <2>2. task' \in TaskType
    BY <1>2, <2>1 DEF VerdictFailed, TypeOK, Task
  <2>3. PICK st \in PlanStatus \cup {"absent"} :
          plans' = [plans EXCEPT ![c] = [plans[c] EXCEPT !.verification = "failed", !.status = st]]
    BY <1>2 DEF VerdictFailed, TypeOK, Plan, PlanStatus, Terminal
  <2>4. [plans[c] EXCEPT !.verification = "failed", !.status = st] \in Plan
    BY DEF TypeOK, Plan
  <2>5. PlansType(plans')
    BY <2>3, <2>4, PlansReplaced DEF TypeOK, Plan
  <2> QED
    BY <1>2, <2>2, <2>5 DEF VerdictFailed, TypeOK
<1>3. CASE RollbackReply(c, k)
  <2>0. PICK i \in Slots :
          \E status \in {"rolled_back", plans[c].actions[i].status}, e \in {"undone", world[c][i].effect},
             pc \in {"done", "rolling"} :
            /\ \/ plans' = [plans EXCEPT ![c] = WithStatus(plans[c], i, status)]
               \/ plans' = [plans EXCEPT ![c] =
                             [WithStatus(plans[c], i, status) EXCEPT !.status = "rolled_back"]]
            /\ task' = [task EXCEPT ![c][k] = [pc |-> pc, todo |-> task[c][k].todo \ {i}]]
            /\ world' = [world EXCEPT ![c][i].undos = @ + 1, ![c][i].effect = e]
    BY <1>3 DEF RollbackReply, TypeOK, Effect
  <2>1. PICK status \in {"rolled_back", plans[c].actions[i].status}, e \in {"undone", world[c][i].effect},
             pc \in {"done", "rolling"} :
            /\ \/ plans' = [plans EXCEPT ![c] = WithStatus(plans[c], i, status)]
               \/ plans' = [plans EXCEPT ![c] =
                             [WithStatus(plans[c], i, status) EXCEPT !.status = "rolled_back"]]
            /\ task' = [task EXCEPT ![c][k] = [pc |-> pc, todo |-> task[c][k].todo \ {i}]]
            /\ world' = [world EXCEPT ![c][i].undos = @ + 1, ![c][i].effect = e]
    BY <2>0
  <2> DEFINE after == WithStatus(plans[c], i, status)
             st    == "rolled_back"
  <2>2. i \in DOMAIN plans[c].actions => status \in ActionStatus
    <3>1. plans[c].actions \in Seq(Action)
      BY DEF TypeOK, Plan
    <3>2. i \in DOMAIN plans[c].actions => plans[c].actions[i] \in Action
      BY <3>1
    <3> QED
      BY <3>2 DEF Action, ActionStatus
  <2>3. after \in Plan /\ Len(after.actions) = Len(plans[c].actions)
    BY <2>2, StatusType DEF TypeOK
  <2>4. [after EXCEPT !.status = st] \in Plan /\ [after EXCEPT !.status = st].actions = after.actions
    BY <2>3 DEF TypeOK, Plan, PlanStatus, Terminal
  <2>5. PlansType(plans')
    BY <2>1, <2>3, <2>4, PlansReplaced DEF TypeOK
  <2>6. task' \in TaskType
    BY <2>1 DEF TypeOK, Task
  <2>7. world' \in WorldType
    <3>1. world[c][i] \in Effect
      BY DEF TypeOK
    <3>2. world[c][i].undos + 1 \in Nat /\ e \in {"none", "requested", "applied", "undone"}
      BY <3>1 DEF Effect
    <3> QED
      BY <2>1, <3>1, <3>2 DEF TypeOK, Effect
  <2> QED
    BY <1>3, <2>5, <2>6, <2>7 DEF RollbackReply, TypeOK
<1> QED
  BY <1>1, <1>2, <1>3 DEF VerifyStep

LEMMA NextType == TypeOK /\ [Next]_vars => TypeOK'
<1> SUFFICES ASSUME TypeOK, [Next]_vars PROVE TypeOK'
  OBVIOUS
<1>1. CASE \E c \in Calls : TriggerStep(c)
  BY <1>1, TriggerType
<1>2. CASE \E c \in Calls, i \in Slots : Decide(c, i) \/ ApprovedActionDone(c, i)
  BY <1>2, DecisionType
<1>3. CASE \E c \in Calls, i \in Slots : Lands(c, i)
  <2>1. PICK c \in Calls, i \in Slots : Lands(c, i)
    BY <1>3
  <2>2. world' \in WorldType
    BY <2>1, EffectChanged DEF Lands, TypeOK, WorldType
  <2> QED
    BY <2>1, <2>2 DEF Lands, TypeOK, WorldType
<1>4. CASE \E c \in Calls, k \in Spawners : VerifyStep(c, k)
  BY <1>4, VerifyType
<1>5. CASE \E c \in Calls, k \in Spawners : RollbackLands(c, k)
  <2>1. PICK c \in Calls, k \in Spawners : RollbackLands(c, k)
    BY <1>5
  <2>2. PICK i \in Slots : world' = [world EXCEPT ![c][i].effect = "undone"]
    BY <2>1 DEF RollbackLands
  <2>3. world' \in WorldType
    BY <2>2, EffectChanged DEF TypeOK, WorldType
  <2> QED
    BY <2>1, <2>3 DEF RollbackLands, TypeOK, WorldType
<1>6. CASE Restart
  <2>1. NoPlan \in Plan /\ Len(NoPlan.actions) = 0
    BY DEF NoPlan, Plan
  <2>2. call' \in [Calls -> Call]
    BY <1>6 DEF Restart, TypeOK, Ended, Call, CallPc
  <2>3. task' \in [Calls -> [Spawners -> Task]]
    BY <1>6 DEF Restart, NoTask, Task
  <2>4. restarts' \in 0..MaxRestarts
    BY <1>6, ConstantsAssumption DEF Restart, TypeOK
  <2> QED
    BY <1>6, <2>1, <2>2, <2>3, <2>4, ConstantsAssumption DEF Restart, TypeOK
<1>7. CASE Quiescent \/ UNCHANGED vars
  BY <1>7 DEF Quiescent, vars, TypeOK
<1> QED
  BY <1>1, <1>2, <1>3, <1>4, <1>5, <1>6, <1>7 DEF Next

\* Whatever the calls, analysts, adapters and verification tasks do, the state
\* stays within the records the orchestrator builds.
THEOREM TypeCorrect == Spec => []TypeOK
<1>1. Init => TypeOK
  BY InitType
<1>2. TypeOK /\ [Next]_vars => TypeOK'
  BY NextType
<1> QED
  BY <1>1, <1>2, PTL DEF Spec

-----------------------------------------------------------------------------
(* The inductive invariant.  Every conjunct speaks of one call: its        *)
(* coroutine cl, its plan p, its tasks t and its effects w.                *)

Early == {"idle", "fetching", "simulating", "planning"}
Open == {"pending", "executing"}

\* What has not left "pending" was started by nobody, what needs approval was
\* started by an analyst, and the adapters were called for what was started.
ActionsKept(p, w) ==
  \A i \in DOMAIN p.actions :
    LET a == p.actions[i]
    IN  /\ a.status = "pending" => a.by = "nobody"
        /\ a.gated /\ a.status \notin {"pending", "vetoed"} => a.by = "analyst"
        /\ w[i].runs = IF a.by # "nobody" /\ HasAdapter(a.kind) /\ ~p.dry THEN 1 ELSE 0

\* A running task finds every action resolved, and rolls back completed ones.
TasksKept(p, t) ==
  \A k \in Spawners :
    /\ t[k].pc \in {"verifying", "rolling"} =>
         \A i \in DOMAIN p.actions : p.actions[i].status \notin Open
    /\ t[k].pc = "rolling" =>
         \A i \in t[k].todo : i \in DOMAIN p.actions /\ p.actions[i].status \in {"completed", "rolled_back"}

\* The loop awaits an action it started itself; before the plan there is nothing.
CallKept(cl, p, t, w) ==
  /\ cl.pc = "executing" =>
       /\ cl.at \in DOMAIN p.actions
       /\ p.actions[cl.at].status = "executing" /\ p.actions[cl.at].by = "auto"
  /\ cl.pc \in Early =>
       /\ p = NoPlan
       /\ \A k \in Spawners : t[k].pc = "none"
       /\ \A i \in Slots : w[i] = NoEffect

Kept(c) ==
  /\ ActionsKept(plans[c], world[c])
  /\ TasksKept(plans[c], task[c])
  /\ CallKept(call[c], plans[c], task[c], world[c])

IInv == TypeOK /\ \A c \in Calls : Kept(c)

\* Only the call's own part of the state changes in a step of that call.
LEMMA KeptFrame ==
  ASSUME IInv, TypeOK', NEW c \in Calls, Kept(c)',
         \A d \in Calls \ {c} : /\ call'[d] = call[d] /\ plans'[d] = plans[d]
                               /\ task'[d] = task[d] /\ world'[d] = world[d]
  PROVE  IInv'
<1>1. ASSUME NEW d \in Calls \ {c} PROVE Kept(d)'
  BY <1>1 DEF IInv, Kept
<1> QED
  BY <1>1 DEF IInv

\* What starting an action changes of a plan.
LEMMA BegunFacts ==
  ASSUME NEW plan \in Plan, NEW i \in DOMAIN plan.actions, NEW who \in {"auto", "analyst"},
         NEW p, p = Begun(plan, i, who)
  PROVE  /\ DOMAIN p.actions = DOMAIN plan.actions /\ p.dry = plan.dry
         /\ \A j \in DOMAIN plan.actions : j # i => p.actions[j] = plan.actions[j]
         /\ p.actions[i].kind = plan.actions[i].kind /\ p.actions[i].gated = plan.actions[i].gated
         /\ p.actions[i].by = who
         /\ p.actions[i].status = IF HasAdapter(plan.actions[i].kind) THEN "executing" ELSE "failed"
<1>1. plan.actions \in Seq(Action) /\ plan.actions[i] \in Action
  BY DEF Plan
<1> QED
  BY <1>1 DEF Begun, Plan, Action

\* What changing the status of an action changes of a plan.
LEMMA StatusFacts ==
  ASSUME NEW plan \in Plan, NEW i \in DOMAIN plan.actions, NEW status,
         NEW p, p = WithStatus(plan, i, status)
  PROVE  /\ DOMAIN p.actions = DOMAIN plan.actions /\ p.dry = plan.dry
         /\ \A j \in DOMAIN plan.actions : j # i => p.actions[j] = plan.actions[j]
         /\ p.actions[i].kind = plan.actions[i].kind /\ p.actions[i].gated = plan.actions[i].gated
         /\ p.actions[i].by = plan.actions[i].by
         /\ p.actions[i].status = status
<1>1. plan.actions \in Seq(Action) /\ plan.actions[i] \in Action
  BY DEF Plan
<1> QED
  BY <1>1 DEF WithStatus, Plan, Action

LEMMA IndexInSlots ==
  ASSUME TypeOK, NEW plan \in Plan, Len(plan.actions) <= MaxPlanLength, NEW i \in DOMAIN plan.actions
  PROVE  i \in Slots
  BY ConstantsAssumption DEF Plan, Slots

LEMMA SettleKept ==
  ASSUME IInv, TypeOK', NEW c \in Calls, NEW plan \in Plan,
         ActionsKept(plan, world[c]), TasksKept(plan, task[c]), Settle(c, plan)
  PROVE  IInv'
<1>1. PICK st : plans' = [plans EXCEPT ![c] = [plan EXCEPT !.status = st]]
  BY DEF Settle
<1>2. /\ plans'[c].actions = plan.actions /\ plans'[c].dry = plan.dry
      /\ \A d \in Calls \ {c} : plans'[d] = plans[d]
  BY <1>1 DEF IInv, TypeOK, Plan
<1>3. call'[c].pc = "returned" /\ \A d \in Calls \ {c} : call'[d] = call[d]
  BY DEF Settle, Ended, IInv, TypeOK
<1>4. world' = world
  BY DEF Settle
<1>5. \/ task' = task
      \/ AllResolved(plan) /\ task' = Spawned(c, "trigger")
  BY DEF Settle
<1>6. /\ \A d \in Calls \ {c} : task'[d] = task[d]
      /\ \A k \in Spawners :
           \/ task'[c][k] = task[c][k]
           \/ AllResolved(plan) /\ task'[c][k] = [pc |-> "verifying", todo |-> {}]
  BY <1>5 DEF IInv, TypeOK, Spawned, Spawners
<1>7. ActionsKept(plans'[c], world'[c])
  BY <1>2, <1>4 DEF ActionsKept
<1>8. TasksKept(plans'[c], task'[c])
  BY <1>2, <1>6 DEF TasksKept, AllResolved, Resolved, Open
<1>9. CallKept(call'[c], plans'[c], task'[c], world'[c])
  BY <1>3 DEF CallKept, Early
<1> QED
  BY <1>2, <1>3, <1>4, <1>6, <1>7, <1>8, <1>9, KeptFrame DEF Kept

\* The adapter is called once for an action, unless the plan is dry.
LEMMA CallAdapterFacts ==
  ASSUME TypeOK, NEW c \in Calls, NEW plan, NEW i \in Slots, CallAdapter(c, plan, i)
  PROVE  /\ \A d \in Calls \ {c} : world'[d] = world[d]
         /\ \A j \in Slots \ {i} : world'[c][j] = world[c][j]
         /\ world'[c][i].runs = IF HasAdapter(plan.actions[i].kind) /\ ~plan.dry
                                  THEN world[c][i].runs + 1 ELSE world[c][i].runs
<1>1. world[c][i] \in Effect
  BY DEF TypeOK
<1> QED
  BY <1>1 DEF CallAdapter, TypeOK, Effect

\* Starting a pending action keeps the actions: it was started by nobody, so
\* its adapter had not been called.
LEMMA StartKept ==
  ASSUME TypeOK, NEW c \in Calls, NEW plan \in Plan, Len(plan.actions) <= MaxPlanLength,
         NEW i \in DOMAIN plan.actions, NEW who \in {"auto", "analyst"},
         plan.actions[i].status = "pending", plan.actions[i].gated => who = "analyst",
         ActionsKept(plan, world[c]), CallAdapter(c, plan, i)
  PROVE  /\ ActionsKept(Begun(plan, i, who), world'[c])
         /\ \A d \in Calls \ {c} : world'[d] = world[d]
<1> DEFINE p == Begun(plan, i, who)
<1>1. /\ DOMAIN p.actions = DOMAIN plan.actions /\ p.dry = plan.dry
      /\ \A j \in DOMAIN plan.actions : j # i => p.actions[j] = plan.actions[j]
      /\ p.actions[i].kind = plan.actions[i].kind /\ p.actions[i].gated = plan.actions[i].gated
      /\ p.actions[i].by = who
      /\ p.actions[i].status = IF HasAdapter(plan.actions[i].kind) THEN "executing" ELSE "failed"
  BY BegunFacts
<1>2. \A j \in DOMAIN plan.actions : j \in Slots
  BY IndexInSlots
<1>3. /\ \A d \in Calls \ {c} : world'[d] = world[d]
      /\ \A j \in Slots \ {i} : world'[c][j] = world[c][j]
      /\ world'[c][i].runs = IF HasAdapter(plan.actions[i].kind) /\ ~plan.dry
                               THEN world[c][i].runs + 1 ELSE world[c][i].runs
  BY <1>2, CallAdapterFacts
<1>4. world[c][i].runs = 0
  BY DEF ActionsKept
<1> HIDE DEF p
<1>5. ActionsKept(p, world'[c])
  <2> SUFFICES ASSUME NEW j \in DOMAIN p.actions
               PROVE  LET a == p.actions[j]
                      IN  /\ a.status = "pending" => a.by = "nobody"
                          /\ a.gated /\ a.status \notin {"pending", "vetoed"} => a.by = "analyst"
                          /\ world'[c][j].runs = IF a.by # "nobody" /\ HasAdapter(a.kind) /\ ~p.dry
                                                   THEN 1 ELSE 0
    BY DEF ActionsKept
  <2>1. CASE j = i
    BY <1>1, <1>3, <1>4, <2>1
  <2>2. CASE j # i
    BY <1>1, <1>2, <1>3, <2>2 DEF ActionsKept
  <2> QED
    BY <2>1, <2>2
<1> QED
  BY <1>3, <1>5 DEF p

\* While an action is pending no task of the plan runs.
LEMMA NoTaskRuns ==
  ASSUME NEW p, NEW t, TasksKept(p, t), NEW i \in DOMAIN p.actions, p.actions[i].status \in Open
  PROVE  \A q : TasksKept(q, t)
  BY DEF TasksKept

LEMMA AutoLoopKept ==
  ASSUME IInv, TypeOK', NEW c \in Calls, NEW plan \in Plan, Len(plan.actions) <= MaxPlanLength,
         ActionsKept(plan, world[c]), TasksKept(plan, task[c]),
         NEW from, NEW count \in Nat, ContinueAutoLoop(c, plan, from, count)
  PROVE  IInv'
<1>1. CASE StartNextAuto(c, plan, from, count)
  <2>1. PICK i \in AutoReady(plan, from) :
          /\ plans' = [plans EXCEPT ![c] = Begun(plan, i, "auto")]
          /\ call' = [call EXCEPT ![c].pc = IF HasAdapter(plan.actions[i].kind) THEN "executing" ELSE "cooling",
                                  ![c].at = i,
                                  ![c].count = IF HasAdapter(plan.actions[i].kind) THEN count ELSE count + 1]
          /\ CallAdapter(c, plan, i)
    BY <1>1 DEF StartNextAuto
  <2>2. i \in DOMAIN plan.actions /\ plan.actions[i].status = "pending" /\ ~plan.actions[i].gated
    BY DEF AutoReady
  <2>3. /\ ActionsKept(Begun(plan, i, "auto"), world'[c])
        /\ \A d \in Calls \ {c} : world'[d] = world[d]
    BY <2>1, <2>2, StartKept DEF IInv
  <2>4. plans'[c] = Begun(plan, i, "auto") /\ \A d \in Calls \ {c} : plans'[d] = plans[d]
    BY <2>1 DEF IInv, TypeOK
  <2>5. task' = task
    BY <1>1 DEF StartNextAuto
  <2>6. TasksKept(plans'[c], task'[c])
    BY <2>2, <2>5, NoTaskRuns DEF Open
  <2>7. /\ call'[c].pc = IF HasAdapter(plan.actions[i].kind) THEN "executing" ELSE "cooling"
        /\ call'[c].at = i
        /\ \A d \in Calls \ {c} : call'[d] = call[d]
    BY <2>1 DEF IInv, TypeOK, Call
  <2>8. CallKept(call'[c], plans'[c], task'[c], world'[c])
    BY <2>2, <2>4, <2>7, BegunFacts DEF CallKept, Early
  <2> QED
    BY <2>3, <2>4, <2>5, <2>6, <2>7, <2>8, KeptFrame DEF Kept
<1>2. CASE EndAutoLoop(c, plan, from, count)
  <2> DEFINE s == PutUnderApproval(plan.actions, AutoReady(plan, from))
             p == [plan EXCEPT !.actions = s, !.autoCount = count]
  <2>1. Settle(c, p)
    BY <1>2 DEF EndAutoLoop
  <2>2. p \in Plan /\ p.actions = s /\ p.dry = plan.dry
    BY GatedType DEF Plan
  <2>3. \A i \in DOMAIN plan.actions : plan.actions[i] \in Action
    BY DEF Plan
  <2>4. DOMAIN s = DOMAIN plan.actions
    BY DEF PutUnderApproval
  <2>5. \A i \in DOMAIN plan.actions :
          /\ s[i].status = plan.actions[i].status /\ s[i].by = plan.actions[i].by
          /\ s[i].kind = plan.actions[i].kind
          /\ s[i].gated => plan.actions[i].gated \/ plan.actions[i].status = "pending"
    BY <2>3 DEF Action, AutoReady, PutUnderApproval
  <2> HIDE DEF p
  <2>7. ActionsKept(p, world[c])
    BY <2>2, <2>4, <2>5 DEF ActionsKept
  <2>8. TasksKept(p, task[c])
    BY <2>2, <2>4, <2>5 DEF TasksKept
  <2> QED
    BY <2>1, <2>2, <2>7, <2>8, SettleKept
<1> QED
  BY <1>1, <1>2 DEF ContinueAutoLoop

\* A reply does not call an adapter.
LEMMA ReplyRuns ==
  ASSUME TypeOK, NEW c \in Calls, NEW i, NEW result, ReplyEffect(c, i, result)
  PROVE  /\ \A d \in Calls \ {c} : world'[d] = world[d]
         /\ \A j \in Slots : world'[c][j].runs = world[c][j].runs
<1>1. \A j \in Slots : world[c][j] \in Effect
  BY DEF TypeOK
<1> QED
  BY <1>1 DEF ReplyEffect, TypeOK, Effect

\* A new status other than "pending" keeps the actions, if the action had been
\* started, or is vetoed.
LEMMA AnswerKept ==
  ASSUME TypeOK, NEW c \in Calls, NEW i \in DOMAIN plans[c].actions, NEW status,
         ActionsKept(plans[c], world[c]),
         NEW w, \A j \in Slots : w[j].runs = world[c][j].runs,
         status # "pending",
         plans[c].actions[i].status \in {"pending", "vetoed"} => status = "vetoed"
  PROVE  ActionsKept(WithStatus(plans[c], i, status), w)
<1> DEFINE p == WithStatus(plans[c], i, status)
<1>1. plans[c] \in Plan /\ \A j \in DOMAIN plans[c].actions : j \in Slots
  BY IndexInSlots DEF TypeOK
<1>2. /\ DOMAIN p.actions = DOMAIN plans[c].actions /\ p.dry = plans[c].dry
      /\ \A j \in DOMAIN plans[c].actions : j # i => p.actions[j] = plans[c].actions[j]
      /\ p.actions[i].kind = plans[c].actions[i].kind /\ p.actions[i].gated = plans[c].actions[i].gated
      /\ p.actions[i].by = plans[c].actions[i].by
      /\ p.actions[i].status = status
  BY <1>1, StatusFacts
<1> SUFFICES ASSUME NEW j \in DOMAIN p.actions
             PROVE  LET a == p.actions[j]
                    IN  /\ a.status = "pending" => a.by = "nobody"
                        /\ a.gated /\ a.status \notin {"pending", "vetoed"} => a.by = "analyst"
                        /\ w[j].runs = IF a.by # "nobody" /\ HasAdapter(a.kind) /\ ~p.dry
                                         THEN 1 ELSE 0
  BY DEF ActionsKept
<1> HIDE DEF p
<1>3. CASE j = i
  BY <1>1, <1>2, <1>3 DEF ActionsKept
<1>4. CASE j # i
  BY <1>1, <1>2, <1>4 DEF ActionsKept
<1> QED
  BY <1>3, <1>4

\* A step of the trigger keeps the invariant.
LEMMA TriggerKept ==
  ASSUME IInv, TypeOK', NEW c \in Calls, TriggerStep(c)
  PROVE  IInv'
<1> Kept(c) /\ TypeOK
  BY DEF IInv
<1>1. CASE Refuse(c) \/ Admit(c) \/ IncidentMissing(c) \/ IncidentFetched(c) \/ Simulated(c)
  <2>1. plans' = plans /\ task' = task /\ world' = world
    BY <1>1 DEF Refuse, Admit, IncidentMissing, IncidentFetched, Simulated
  <2>2. /\ call[c].pc \in Early
        /\ call'[c].pc \in Early \cup {"refused", "notfound"}
        /\ \A d \in Calls \ {c} : call'[d] = call[d]
    <3>1. CASE Refuse(c) \/ IncidentMissing(c)
      BY <3>1 DEF Refuse, IncidentMissing, Early, Ended, TypeOK
    <3>2. CASE Admit(c)
      BY <3>2 DEF Admit, Early, Ended, TypeOK
    <3>3. CASE IncidentFetched(c) \/ Simulated(c)
      BY <3>3 DEF IncidentFetched, Simulated, Early, TypeOK, Call
    <3> QED
      BY <1>1, <3>1, <3>2, <3>3
  <2>3. Kept(c)'
    BY <2>1, <2>2 DEF Kept, CallKept, Early
  <2> QED
    BY <2>1, <2>2, <2>3, KeptFrame
<1>2. CASE Planned(c)
  <2>1. PICK draft \in Drafts[c] :
          \/ ContinueAutoLoop(c, NewPlan(c, draft), 1, 0)
          \/ Settle(c, NewPlan(c, draft))
    BY <1>2 DEF Planned
  <2> DEFINE plan == NewPlan(c, draft)
  <2>2. plan \in Plan /\ Len(plan.actions) <= MaxPlanLength
    BY NewPlanType
  <2>3. \A i \in DOMAIN plan.actions :
          plan.actions[i].status = "pending" /\ plan.actions[i].by = "nobody"
    BY DEF NewPlan, NoPlan
  <2> HIDE DEF plan
  <2>4. \A i \in DOMAIN plan.actions : i \in Slots
    BY <2>2, IndexInSlots
  <2>5. call[c].pc \in Early
    BY <1>2 DEF Planned, Early
  <2>6. ActionsKept(plan, world[c])
    BY <2>3, <2>4, <2>5 DEF Kept, CallKept, ActionsKept, NoEffect
  <2>7. TasksKept(plan, task[c])
    BY <2>5 DEF Kept, CallKept, TasksKept
  <2> QED
    BY <2>1, <2>2, <2>6, <2>7, AutoLoopKept, SettleKept DEF plan
<1>3. CASE AutoActionDone(c)
  <2> DEFINE i == call[c].at
  <2>1. PICK status \in {"completed", "failed"} :
          plans' = [plans EXCEPT ![c] = WithStatus(plans[c], i, status)]
    BY <1>3 DEF AutoActionDone, Replied
  <2>2. /\ i \in DOMAIN plans[c].actions /\ plans[c].actions[i].status = "executing"
        /\ plans[c].actions[i].by = "auto"
    BY <1>3 DEF AutoActionDone, Kept, CallKept
  <2>3. /\ plans'[c] = WithStatus(plans[c], i, status)
        /\ \A d \in Calls \ {c} : plans'[d] = plans[d]
    BY <2>1 DEF TypeOK
  <2>4. task' = task
    BY <1>3 DEF AutoActionDone
  <2>5. PICK result : ReplyEffect(c, i, result)
    BY <1>3 DEF AutoActionDone
  <2>6. /\ \A d \in Calls \ {c} : world'[d] = world[d]
        /\ \A j \in Slots : world'[c][j].runs = world[c][j].runs
    BY <2>5, ReplyRuns
  <2>7. ActionsKept(plans'[c], world'[c])
    <3>1. ActionsKept(plans[c], world[c]) /\ TypeOK
      BY DEF Kept
    <3>2. /\ status # "pending"
          /\ plans[c].actions[i].status \in {"pending", "vetoed"} => status = "vetoed"
      BY <2>2
    <3>3. ActionsKept(WithStatus(plans[c], i, status), world'[c])
      BY <2>2, <2>6, <3>1, <3>2, AnswerKept
    <3> QED
      BY <2>3, <3>3
  <2>8. TasksKept(plans'[c], task'[c])
    BY <2>2, <2>4, NoTaskRuns DEF Kept, Open
  <2>9. /\ call'[c].pc = "cooling" /\ \A d \in Calls \ {c} : call'[d] = call[d]
    BY <1>3 DEF AutoActionDone, TypeOK, Call
  <2>10. CallKept(call'[c], plans'[c], task'[c], world'[c])
    BY <2>9 DEF CallKept, Early
  <2> QED
    BY <2>3, <2>4, <2>6, <2>7, <2>8, <2>9, <2>10, KeptFrame DEF Kept
<1>4. CASE CooldownOver(c)
  <2>1. plans[c] \in Plan /\ Len(plans[c].actions) <= MaxPlanLength /\ call[c].count \in Nat
    BY DEF TypeOK, Call
  <2> QED
    BY <1>4, <2>1, AutoLoopKept DEF CooldownOver, Kept
<1> QED
  BY <1>1, <1>2, <1>3, <1>4 DEF TriggerStep

\* The action the loop awaits, if it awaits one.
LoopAt(cl, p) ==
  cl.pc = "executing" =>
    /\ cl.at \in DOMAIN p.actions
    /\ p.actions[cl.at].status = "executing" /\ p.actions[cl.at].by = "auto"

LEMMA ConcludeKept ==
  ASSUME IInv, TypeOK', NEW c \in Calls, NEW plan \in Plan,
         ActionsKept(plan, world'[c]), TasksKept(plan, task[c]),
         LoopAt(call[c], plan), call[c].pc \notin Early,
         Conclude(c, plan), call' = call, \A d \in Calls \ {c} : world'[d] = world[d]
  PROVE  IInv'
<1>1. PICK st : plans' = [plans EXCEPT ![c] = [plan EXCEPT !.status = st]]
  BY DEF Conclude, Plan
<1>2. /\ plans'[c].actions = plan.actions /\ plans'[c].dry = plan.dry
      /\ \A d \in Calls \ {c} : plans'[d] = plans[d]
  BY <1>1 DEF IInv, TypeOK, Plan
<1>3. \/ task' = task
      \/ AllResolved(plan) /\ task' = Spawned(c, "approval")
  BY DEF Conclude
<1>4. /\ \A d \in Calls \ {c} : task'[d] = task[d]
      /\ \A k \in Spawners :
           \/ task'[c][k] = task[c][k]
           \/ AllResolved(plan) /\ task'[c][k] = [pc |-> "verifying", todo |-> {}]
  BY <1>3 DEF IInv, TypeOK, Spawned, Spawners
<1>5. ActionsKept(plans'[c], world'[c])
  BY <1>2 DEF ActionsKept
<1>6. TasksKept(plans'[c], task'[c])
  BY <1>2, <1>4 DEF TasksKept, AllResolved, Resolved, Open
<1>7. CallKept(call'[c], plans'[c], task'[c], world'[c])
  BY <1>2 DEF CallKept, LoopAt
<1> QED
  BY <1>2, <1>4, <1>5, <1>6, <1>7, KeptFrame DEF Kept

\* A plan with an action was registered: its call is past planning.
LEMMA PastPlanning ==
  ASSUME NEW c \in Calls, Kept(c), NEW i \in DOMAIN plans[c].actions
  PROVE  call[c].pc \notin Early
<1>1. DOMAIN NoPlan.actions = {}
  BY DEF NoPlan
<1> QED
  BY <1>1 DEF Kept, CallKept

\* An analyst's decision, and the reply to an approved action, keep the
\* invariant: the loop awaits an action that was never pending meanwhile.
LEMMA DecisionKept ==
  ASSUME IInv, TypeOK', NEW c \in Calls, NEW i \in Slots, Decide(c, i) \/ ApprovedActionDone(c, i)
  PROVE  IInv'
<1> Kept(c) /\ TypeOK /\ plans[c] \in Plan /\ Len(plans[c].actions) <= MaxPlanLength
  BY DEF IInv, TypeOK
<1>1. /\ i \in DOMAIN plans[c].actions
      /\ plans[c].actions[i].status \in Open
      /\ plans[c].actions[i].status = "pending" \/ plans[c].actions[i].by = "analyst"
  BY DEF Decide, Approve, Veto, ApprovedActionDone, Indices, Open
<1>2. call[c].pc \notin Early
  BY <1>1, PastPlanning
<1>3. \A p : TasksKept(p, task[c])
  BY <1>1, NoTaskRuns DEF Kept
<1>4. ASSUME NEW p, DOMAIN p.actions = DOMAIN plans[c].actions,
             \A j \in DOMAIN plans[c].actions : j # i => p.actions[j] = plans[c].actions[j]
      PROVE  LoopAt(call[c], p)
  BY <1>1, <1>4 DEF LoopAt, Kept, CallKept
<1>5. ASSUME NEW status, NEW p, p = WithStatus(plans[c], i, status)
      PROVE  LoopAt(call[c], p)
  <2>1. /\ DOMAIN p.actions = DOMAIN plans[c].actions
        /\ \A j \in DOMAIN plans[c].actions : j # i => p.actions[j] = plans[c].actions[j]
    BY <1>1, <1>5, StatusFacts
  <2> QED
    BY <2>1, <1>4
<1>6. CASE Veto(c, i)
  <2> DEFINE p == WithStatus(plans[c], i, "vetoed")
  <2>1. Conclude(c, p) /\ call' = call /\ world' = world
    BY <1>6 DEF Veto
  <2>2. p \in Plan
    BY StatusType DEF ActionStatus
  <2>3. ActionsKept(p, world'[c])
    BY <1>1, <2>1, AnswerKept DEF Kept
  <2>4. LoopAt(call[c], p)
    BY <1>5
  <2> HIDE DEF p
  <2> QED
    BY <1>2, <1>3, <2>1, <2>2, <2>3, <2>4, ConcludeKept
<1>7. CASE Approve(c, i)
  <2> DEFINE b == Begun(plans[c], i, "analyst")
             p == [b EXCEPT !.humanCount = plans[c].humanCount + 1]
  <2>1. /\ plans[c].actions[i].status = "pending"
        /\ CallAdapter(c, plans[c], i) /\ call' = call
    BY <1>7 DEF Approve
  <2>2. /\ ActionsKept(b, world'[c])
        /\ \A d \in Calls \ {c} : world'[d] = world[d]
    BY <1>1, <2>1, StartKept DEF Kept
  <2>3. b \in Plan
    BY <1>1, BegunType
  <2>4. plans[c].humanCount + 1 \in Nat
    BY DEF Plan
  <2>5. LoopAt(call[c], b)
    BY <1>1, <1>4, BegunFacts
  <2> HIDE DEF b
  <2>6. p \in Plan /\ p.actions = b.actions /\ p.dry = b.dry
    BY <2>3, <2>4 DEF Plan
  <2>7. \/ Conclude(c, p)
        \/ plans' = [plans EXCEPT ![c] = p] /\ task' = task
    BY <1>7 DEF Approve, b
  <2> HIDE DEF p
  <2>8. ActionsKept(p, world'[c]) /\ LoopAt(call[c], p)
    BY <2>2, <2>5, <2>6 DEF ActionsKept, LoopAt
  <2>9. CASE Conclude(c, p)
    BY <1>2, <1>3, <2>1, <2>2, <2>6, <2>8, <2>9, ConcludeKept
  <2>10. CASE plans' = [plans EXCEPT ![c] = p] /\ task' = task
    <3>1. plans'[c] = p /\ \A d \in Calls \ {c} : plans'[d] = plans[d]
      BY <2>10 DEF TypeOK
    <3>2. CallKept(call'[c], plans'[c], task'[c], world'[c])
      BY <1>2, <2>1, <2>8, <3>1 DEF CallKept, LoopAt
    <3>3. Kept(c)'
      BY <1>3, <2>8, <2>10, <3>1, <3>2 DEF Kept
    <3> QED
      BY <2>1, <2>2, <2>10, <3>1, <3>3, KeptFrame
  <2> QED
    BY <2>7, <2>9, <2>10
<1>8. CASE ApprovedActionDone(c, i)
  <2>1. PICK status \in {"completed", "failed"} :
          Conclude(c, WithStatus(plans[c], i, status))
    BY <1>8 DEF ApprovedActionDone, Replied
  <2>2. PICK result : ReplyEffect(c, i, result)
    BY <1>8 DEF ApprovedActionDone
  <2>3. /\ \A d \in Calls \ {c} : world'[d] = world[d]
        /\ \A j \in Slots : world'[c][j].runs = world[c][j].runs
    BY <2>2, ReplyRuns
  <2>4. plans[c].actions[i].status \notin {"pending", "vetoed"} /\ call' = call
    BY <1>8 DEF ApprovedActionDone
  <2> DEFINE p == WithStatus(plans[c], i, status)
  <2>5. ActionsKept(p, world'[c])
    <3>1. ActionsKept(plans[c], world[c]) /\ TypeOK
      BY DEF Kept
    <3>2. /\ status # "pending"
          /\ plans[c].actions[i].status \in {"pending", "vetoed"} => status = "vetoed"
      BY <2>4
    <3> QED
      BY <1>1, <2>3, <3>1, <3>2, AnswerKept
  <2>6. p \in Plan
    BY StatusType DEF ActionStatus
  <2>7. LoopAt(call[c], p)
    BY <1>5
  <2>8. Conclude(c, p)
    BY <2>1
  <2> HIDE DEF p
  <2> QED
    BY <1>2, <1>3, <2>3, <2>4, <2>5, <2>6, <2>7, <2>8, ConcludeKept
<1> QED
  BY <1>6, <1>7, <1>8 DEF Decide

\* A step of a verification task keeps the invariant: it verdicts on resolved
\* actions and turns completed ones into rolled-back ones.
LEMMA VerifyKept ==
  ASSUME IInv, TypeOK', NEW c \in Calls, NEW k \in Spawners, VerifyStep(c, k)
  PROVE  IInv'
<1> Kept(c) /\ TypeOK /\ plans[c] \in Plan /\ Len(plans[c].actions) <= MaxPlanLength
  BY DEF IInv, TypeOK
<1>1. task[c][k].pc \in {"verifying", "rolling"} /\ call' = call
  BY DEF VerifyStep, VerdictPassed, VerdictFailed, VerdictRaised, RollbackReply
<1>2. \A i \in DOMAIN plans[c].actions : plans[c].actions[i].status \notin Open
  BY <1>1 DEF Kept, TasksKept
<1>3. call[c].pc \notin Early \cup {"executing"}
  BY <1>1, <1>2 DEF Kept, CallKept, Open
<1>4. \A p, t, w : CallKept(call[c], p, t, w)
  BY <1>3 DEF CallKept
<1>5. CASE VerdictPassed(c, k) \/ VerdictFailed(c, k) \/ VerdictRaised(c, k)
  <2>1. world' = world
    BY <1>5 DEF VerdictPassed, VerdictFailed, VerdictRaised
  <2>2. /\ plans'[c].actions = plans[c].actions /\ plans'[c].dry = plans[c].dry
        /\ \A d \in Calls \ {c} : plans'[d] = plans[d]
    BY <1>5 DEF VerdictPassed, VerdictFailed, VerdictRaised, TypeOK, Plan
  <2>3. /\ \A d \in Calls \ {c} : task'[d] = task[d]
        /\ \A m \in Spawners \ {k} : task'[c][m] = task[c][m]
        /\ \/ task'[c][k].pc = "done"
           \/ task'[c][k].pc = "rolling" /\ task'[c][k].todo = CompletedActions(c)
    BY <1>5 DEF VerdictPassed, VerdictFailed, VerdictRaised, TypeOK, Task
  <2>4. ActionsKept(plans'[c], world'[c])
    BY <2>1, <2>2 DEF Kept, ActionsKept
  <2>5. TasksKept(plans'[c], task'[c])
    BY <1>2, <2>2, <2>3 DEF Kept, TasksKept, CompletedActions, Indices
  <2> QED
    BY <1>1, <1>4, <2>1, <2>2, <2>3, <2>4, <2>5, KeptFrame DEF Kept
<1>6. CASE RollbackReply(c, k)
  <2>0. PICK i \in Slots :
          \E status \in {"rolled_back", plans[c].actions[i].status}, e \in {"undone", world[c][i].effect},
             pc \in {"done", "rolling"} :
            /\ i \in task[c][k].todo
            /\ \/ plans' = [plans EXCEPT ![c] = WithStatus(plans[c], i, status)]
               \/ plans' = [plans EXCEPT ![c] =
                             [WithStatus(plans[c], i, status) EXCEPT !.status = "rolled_back"]]
            /\ task' = [task EXCEPT ![c][k] = [pc |-> pc, todo |-> task[c][k].todo \ {i}]]
            /\ world' = [world EXCEPT ![c][i].undos = @ + 1, ![c][i].effect = e]
    BY <1>6 DEF RollbackReply, RollsBack, TypeOK, Effect
  <2>2. i \in task[c][k].todo /\ task[c][k].pc = "rolling"
    BY <1>6, <2>0 DEF RollbackReply
  <2>3. i \in DOMAIN plans[c].actions /\ plans[c].actions[i].status \in {"completed", "rolled_back"}
    BY <2>2 DEF Kept, TasksKept
  <2>1. PICK status \in {"completed", "rolled_back"}, e \in {"undone", world[c][i].effect},
             pc \in {"done", "rolling"} :
            /\ i \in task[c][k].todo
            /\ \/ plans' = [plans EXCEPT ![c] = WithStatus(plans[c], i, status)]
               \/ plans' = [plans EXCEPT ![c] =
                             [WithStatus(plans[c], i, status) EXCEPT !.status = "rolled_back"]]
            /\ task' = [task EXCEPT ![c][k] = [pc |-> pc, todo |-> task[c][k].todo \ {i}]]
            /\ world' = [world EXCEPT ![c][i].undos = @ + 1, ![c][i].effect = e]
    BY <2>0, <2>3
  <2> DEFINE after == WithStatus(plans[c], i, status)
  <2>5. /\ DOMAIN after.actions = DOMAIN plans[c].actions /\ after.dry = plans[c].dry
        /\ \A j \in DOMAIN plans[c].actions : j # i => after.actions[j] = plans[c].actions[j]
        /\ after.actions[i].status = status
    BY <2>3, StatusFacts
  <2>6. after \in Plan
    BY StatusType DEF ActionStatus
  <2>7. \/ plans' = [plans EXCEPT ![c] = after]
        \/ plans' = [plans EXCEPT ![c] = [after EXCEPT !.status = "rolled_back"]]
    BY <2>1
  <2>8. /\ \A d \in Calls \ {c} : world'[d] = world[d]
        /\ \A j \in Slots : world'[c][j].runs = world[c][j].runs
    <3>1. \A j \in Slots : world[c][j] \in Effect
      BY DEF TypeOK
    <3> QED
      BY <2>1, <3>1 DEF TypeOK, Effect
  <2>9. ActionsKept(after, world'[c])
    <3>1. ActionsKept(plans[c], world[c]) /\ TypeOK
      BY DEF Kept
    <3>2. /\ status # "pending"
          /\ plans[c].actions[i].status \in {"pending", "vetoed"} => status = "vetoed"
      BY <2>3
    <3>3. i \in DOMAIN plans[c].actions /\ \A j \in Slots : world'[c][j].runs = world[c][j].runs
      BY <2>3, <2>8
    <3>4. ActionsKept(WithStatus(plans[c], i, status), world'[c])
      BY <3>1, <3>2, <3>3, AnswerKept
    <3> QED
      BY <3>4
  <2> HIDE DEF after
  <2>10. /\ plans'[c].actions = after.actions /\ plans'[c].dry = after.dry
         /\ \A d \in Calls \ {c} : plans'[d] = plans[d]
    BY <2>6, <2>7 DEF TypeOK, Plan
  <2>11. ActionsKept(plans'[c], world'[c])
    BY <2>9, <2>10 DEF ActionsKept
  <2>12. /\ \A d \in Calls \ {c} : task'[d] = task[d]
         /\ \A m \in Spawners : /\ task'[c][m].pc \in {task[c][m].pc, "done"}
                                /\ task'[c][m].todo \subseteq task[c][m].todo
    BY <2>1, <2>2 DEF TypeOK, Task
  <2>13. \A j \in DOMAIN plans[c].actions :
           /\ after.actions[j].status \notin Open
           /\ plans[c].actions[j].status \in {"completed", "rolled_back"} =>
                after.actions[j].status \in {"completed", "rolled_back"}
    BY <1>2, <2>5 DEF Open
  <2>14. TasksKept(plans'[c], task'[c])
    BY <2>5, <2>10, <2>12, <2>13 DEF Kept, TasksKept
  <2> QED
    BY <1>1, <1>4, <2>8, <2>10, <2>11, <2>12, <2>14, KeptFrame DEF Kept
<1> QED
  BY <1>5, <1>6 DEF VerifyStep

\* A command that takes effect, or a rollback command, calls no adapter anew;
\* before the plan exists nothing was requested that could take effect.
LEMMA EffectKept ==
  ASSUME IInv, TypeOK', NEW c \in Calls, NEW i \in Slots, NEW e,
         world[c][i].effect # "none", world' = [world EXCEPT ![c][i].effect = e],
         call' = call, plans' = plans, task' = task
  PROVE  IInv'
<1> Kept(c) /\ TypeOK
  BY DEF IInv
<1>1. \A j \in Slots : world[c][j] \in Effect
  BY DEF TypeOK
<1>2. /\ \A d \in Calls \ {c} : world'[d] = world[d]
      /\ \A j \in Slots : world'[c][j].runs = world[c][j].runs
  BY <1>1 DEF TypeOK, Effect
<1>3. \A j \in DOMAIN plans[c].actions : j \in Slots
  BY IndexInSlots DEF TypeOK
<1>4. ActionsKept(plans'[c], world'[c])
  BY <1>2, <1>3 DEF Kept, ActionsKept
<1>5. call[c].pc \notin Early
  BY DEF Kept, CallKept, NoEffect
<1>6. CallKept(call'[c], plans'[c], task'[c], world'[c])
  BY <1>5 DEF Kept, CallKept
<1> QED
  BY <1>2, <1>4, <1>6, KeptFrame DEF Kept

\* After a restart no plan is left to speak of; calls that had not been sent
\* find what they found before.
LEMMA RestartKept ==
  ASSUME IInv, TypeOK', Restart
  PROVE  IInv'
<1> SUFFICES ASSUME NEW c \in Calls PROVE Kept(c)'
  BY DEF IInv
<1>1. plans'[c] = NoPlan /\ \A k \in Spawners : task'[c][k] = NoTask
  BY DEF Restart
<1>2. DOMAIN NoPlan.actions = {} /\ NoTask.pc = "none"
  BY DEF NoPlan, NoTask
<1>3. /\ world' = world /\ call'[c] \in {Ended("lost"), call[c]}
      /\ call[c].pc \in InFlight => call'[c] = Ended("lost")
  BY DEF Restart
<1>4. CallKept(call'[c], plans'[c], task'[c], world'[c])
  <2>1. CASE call'[c] = Ended("lost")
    BY <2>1 DEF CallKept, Ended, Early
  <2>2. CASE call'[c] = call[c] /\ call[c].pc \notin InFlight
    BY <1>1, <1>2, <1>3, <2>2 DEF IInv, Kept, CallKept, InFlight
  <2> QED
    BY <1>3, <2>1, <2>2
<1> QED
  BY <1>1, <1>2, <1>4 DEF Kept, ActionsKept, TasksKept

LEMMA InitKept == Init => IInv
<1> SUFFICES ASSUME Init PROVE IInv
  OBVIOUS
<1>1. DOMAIN NoPlan.actions = {} /\ NoTask.pc = "none"
  BY DEF NoPlan, NoTask
<1>2. ASSUME NEW c \in Calls PROVE Kept(c)
  <2>1. /\ plans[c] = NoPlan /\ \A k \in Spawners : task[c][k] = NoTask
        /\ \A i \in Slots : world[c][i] = NoEffect
        /\ call[c].pc = "idle"
    BY DEF Init, Ended
  <2> QED
    BY <1>1, <2>1 DEF Kept, ActionsKept, TasksKept, CallKept
<1> QED
  BY <1>2, InitType DEF IInv

LEMMA NextKept == IInv /\ [Next]_vars => IInv'
<1> SUFFICES ASSUME IInv, [Next]_vars PROVE IInv'
  OBVIOUS
<1>1. TypeOK'
  BY NextType DEF IInv
<1>2. CASE \E c \in Calls : TriggerStep(c)
  BY <1>1, <1>2, TriggerKept
<1>3. CASE \E c \in Calls, i \in Slots : Decide(c, i) \/ ApprovedActionDone(c, i)
  BY <1>1, <1>3, DecisionKept
<1>4. CASE \E c \in Calls, i \in Slots : Lands(c, i)
  <2>1. PICK c \in Calls, i \in Slots : Lands(c, i)
    BY <1>4
  <2> QED
    BY <1>1, <2>1, EffectKept DEF Lands
<1>5. CASE \E c \in Calls, k \in Spawners : VerifyStep(c, k)
  BY <1>1, <1>5, VerifyKept
<1>6. CASE \E c \in Calls, k \in Spawners : RollbackLands(c, k)
  <2>1. PICK c \in Calls, k \in Spawners : RollbackLands(c, k)
    BY <1>6
  <2>2. PICK i \in Slots : /\ world[c][i].effect = "applied"
                           /\ world' = [world EXCEPT ![c][i].effect = "undone"]
    BY <2>1 DEF RollbackLands
  <2> QED
    BY <1>1, <2>1, <2>2, EffectKept DEF RollbackLands
<1>7. CASE Restart
  BY <1>1, <1>7, RestartKept
<1>8. CASE Quiescent \/ UNCHANGED vars
  <2>1. call' = call /\ plans' = plans /\ task' = task /\ world' = world
    BY <1>8 DEF Quiescent, vars
  <2> QED
    BY <1>1, <2>1 DEF IInv, Kept
<1> QED
  BY <1>2, <1>3, <1>4, <1>5, <1>6, <1>7, <1>8 DEF Next

\* The inductive invariant holds in every reachable state.
THEOREM Inductive == Spec => []IInv
<1>1. Init => IInv
  BY InitKept
<1>2. IInv /\ [Next]_vars => IInv'
  BY NextKept
<1> QED
  BY <1>1, <1>2, PTL DEF Spec

\* An action that requires approval leaves "pending" only by an analyst's hand,
\* for every plan the planner may draft and every automatic budget.
THEOREM AnalystGateHolds == Spec => []AnalystGate
<1>1. IInv => AnalystGate
  BY DEF IInv, Kept, ActionsKept, AnalystGate, Indices
<1> QED
  BY <1>1, Inductive, PTL

\* Every action is sent to its adapter exactly once if the plan says that it
\* was started, and never otherwise, whoever decides while the loop sleeps.
THEOREM CommandedOnceHolds == Spec => []CommandedOnce
<1>1. IInv => CommandedOnce
  BY DEF IInv, Kept, ActionsKept, CommandedOnce, Indices
<1> QED
  BY <1>1, Inductive, PTL

\* No action is pending or executing while a verification or a rollback of its
\* plan runs, however many tasks the plan has.
THEOREM QuietVerificationHolds == Spec => []QuietVerification
<1>1. IInv => QuietVerification
  BY DEF IInv, Kept, TasksKept, QuietVerification, Running, Indices, Open
<1> QED
  BY <1>1, Inductive, PTL

-----------------------------------------------------------------------------
(* The counters, the waiting plans and the order of a rollback: a second   *)
(* invariant, inductive with the first.                                    *)

By(p, who) == {i \in DOMAIN p.actions : p.actions[i].by = who}

\* A plan counts what analysts started, its loop kept to the budget, and what
\* was rolled back was rolled back when nothing was open any more.
PlanBooked(p) ==
  /\ p.humanCount = Cardinality(By(p, "analyst"))
  /\ Cardinality(By(p, "auto")) <= MaxAutoActions
  /\ \A i, j \in DOMAIN p.actions :
       p.actions[i].status \in Open => p.actions[j].status # "rolled_back"

\* The loop's count is ahead of its plan by no more than the action under way.
LoopBooked(cl, p) ==
  /\ cl.pc = "executing" => Cardinality(By(p, "auto")) = cl.count + 1
  /\ cl.pc = "cooling" => Cardinality(By(p, "auto")) = cl.count
  /\ cl.pc = "returned" => Cardinality(By(p, "auto")) = p.autoCount

\* A plan that awaits approval has something open, and its loop has ended.
WaitBooked(cl, p) ==
  p.status = "awaiting_approval" =>
    cl.pc \notin InFlight /\ \E i \in DOMAIN p.actions : p.actions[i].status \in Open

\* What a rollback has left behind was tried.
RollBooked(p, t, w) ==
  \A k \in Spawners : t[k].pc = "rolling" =>
    \A j \in DOMAIN p.actions :
      p.actions[j].status = "completed" /\ j \notin t[k].todo => w[j].undos > 0

Booked(c) ==
  /\ PlanBooked(plans[c]) /\ LoopBooked(call[c], plans[c]) /\ WaitBooked(call[c], plans[c])
  /\ RollBooked(plans[c], task[c], world[c])

BInv == IInv /\ \A c \in Calls : Booked(c)

LEMMA BookedFrame ==
  ASSUME BInv, IInv', NEW c \in Calls, Booked(c)',
         \A d \in Calls \ {c} : /\ call'[d] = call[d] /\ plans'[d] = plans[d]
                               /\ task'[d] = task[d] /\ world'[d] = world[d]
  PROVE  BInv'
<1>1. ASSUME NEW d \in Calls \ {c} PROVE Booked(d)'
  BY <1>1 DEF BInv, Booked
<1> QED
  BY <1>1 DEF BInv

LEMMA ByFinite ==
  ASSUME NEW plan \in Plan, NEW who
  PROVE  IsFiniteSet(By(plan, who)) /\ Cardinality(By(plan, who)) \in Nat
<1>1. plan.actions \in Seq(Action)
  BY DEF Plan
<1>2. DOMAIN plan.actions = 1..Len(plan.actions) /\ Len(plan.actions) \in Nat
  BY <1>1
<1>3. IsFiniteSet(DOMAIN plan.actions)
  BY <1>2, FS_Interval
<1>4. By(plan, who) \subseteq DOMAIN plan.actions
  BY DEF By
<1> QED
  BY <1>3, <1>4, FS_Subset, FS_CardinalityType

\* The same actions started by the same coroutines.
LEMMA BySame ==
  ASSUME NEW p, NEW q, DOMAIN q.actions = DOMAIN p.actions,
         \A i \in DOMAIN p.actions : q.actions[i].by = p.actions[i].by
  PROVE  \A who : By(q, who) = By(p, who)
  BY DEF By

\* Starting an action adds it to those of its starter.
LEMMA ByStarted ==
  ASSUME NEW plan \in Plan, NEW i \in DOMAIN plan.actions, NEW who \in {"auto", "analyst"},
         plan.actions[i].by = "nobody"
  PROVE  /\ Cardinality(By(Begun(plan, i, who), who)) = Cardinality(By(plan, who)) + 1
         /\ \A other \in {"auto", "analyst"} \ {who} : By(Begun(plan, i, who), other) = By(plan, other)
<1> DEFINE p == Begun(plan, i, who)
<1>1. /\ DOMAIN p.actions = DOMAIN plan.actions
      /\ \A j \in DOMAIN plan.actions : j # i => p.actions[j] = plan.actions[j]
      /\ p.actions[i].by = who
  BY BegunFacts
<1> HIDE DEF p
<1>2. By(p, who) = By(plan, who) \cup {i} /\ i \notin By(plan, who)
  BY <1>1 DEF By
<1>3. Cardinality(By(p, who)) = Cardinality(By(plan, who)) + 1
  BY <1>2, ByFinite, FS_AddElement
<1>4. ASSUME NEW other \in {"auto", "analyst"} \ {who} PROVE By(p, other) = By(plan, other)
  BY <1>1 DEF By
<1> QED
  BY <1>3, <1>4 DEF p

\* While something is open no rollback runs.
LEMMA NoRollback ==
  ASSUME NEW p, NEW t, TasksKept(p, t), NEW i \in DOMAIN p.actions, p.actions[i].status \in Open
  PROVE  \A k \in Spawners : t[k].pc # "rolling"
  BY DEF TasksKept

\* Starting an action keeps the books, as the loop within its budget does, or as
\* an approval that is counted.
LEMMA PlanStarted ==
  ASSUME NEW plan \in Plan, NEW i \in DOMAIN plan.actions, plan.actions[i].status = "pending",
         plan.actions[i].by = "nobody", PlanBooked(plan), MaxAutoActions \in Nat
  PROVE  /\ Cardinality(By(plan, "auto")) < MaxAutoActions => PlanBooked(Begun(plan, i, "auto"))
         /\ PlanBooked([Begun(plan, i, "analyst") EXCEPT !.humanCount = plan.humanCount + 1])
<1>1. ASSUME NEW who \in {"auto", "analyst"}, NEW p, p = Begun(plan, i, who)
      PROVE  \A j, k \in DOMAIN p.actions :
               p.actions[j].status \in Open => p.actions[k].status # "rolled_back"
  <2>1. /\ DOMAIN p.actions = DOMAIN plan.actions
        /\ \A j \in DOMAIN plan.actions : j # i => p.actions[j] = plan.actions[j]
        /\ p.actions[i].status \in {"executing", "failed"}
    BY <1>1, BegunFacts
  <2>2. \A k \in DOMAIN plan.actions : plan.actions[k].status # "rolled_back"
    BY DEF PlanBooked, Open
  <2> QED
    BY <2>1, <2>2
<1>2. ASSUME Cardinality(By(plan, "auto")) < MaxAutoActions
      PROVE  PlanBooked(Begun(plan, i, "auto"))
  <2> DEFINE p == Begun(plan, i, "auto")
  <2>1. Cardinality(By(p, "auto")) = Cardinality(By(plan, "auto")) + 1 /\ By(p, "analyst") = By(plan, "analyst")
    BY ByStarted
  <2>2. p.humanCount = plan.humanCount
    BY DEF Begun, Plan
  <2>3. \A j, k \in DOMAIN p.actions : p.actions[j].status \in Open => p.actions[k].status # "rolled_back"
    BY <1>1
  <2> HIDE DEF p
  <2>4. Cardinality(By(plan, "auto")) \in Nat
    BY ByFinite
  <2> QED
    BY <1>2, <2>1, <2>2, <2>3, <2>4 DEF PlanBooked, p
<1>3. PlanBooked([Begun(plan, i, "analyst") EXCEPT !.humanCount = plan.humanCount + 1])
  <2> DEFINE b == Begun(plan, i, "analyst")
             p == [b EXCEPT !.humanCount = plan.humanCount + 1]
  <2>1. Cardinality(By(b, "analyst")) = Cardinality(By(plan, "analyst")) + 1 /\ By(b, "auto") = By(plan, "auto")
    BY ByStarted
  <2>2. b \in Plan
    BY BegunType
  <2>3. \A j, k \in DOMAIN b.actions : b.actions[j].status \in Open => b.actions[k].status # "rolled_back"
    BY <1>1
  <2> HIDE DEF b
  <2>4. p.actions = b.actions /\ p.humanCount = plan.humanCount + 1
    BY <2>2 DEF Plan
  <2> HIDE DEF p
  <2>5. By(p, "analyst") = By(b, "analyst") /\ By(p, "auto") = By(b, "auto")
    BY <2>4 DEF By
  <2>6. PlanBooked(p)
    BY <2>1, <2>3, <2>4, <2>5 DEF PlanBooked
  <2> QED
    BY <2>6 DEF p, b
<1> QED
  BY <1>2, <1>3

\* A new status for an open action that is neither open nor rolled back.
LEMMA PlanAnswered ==
  ASSUME NEW plan \in Plan, NEW i \in DOMAIN plan.actions, plan.actions[i].status \in Open,
         PlanBooked(plan), NEW status \in Resolved
  PROVE  /\ PlanBooked(WithStatus(plan, i, status))
         /\ \A who : By(WithStatus(plan, i, status), who) = By(plan, who)
<1> DEFINE p == WithStatus(plan, i, status)
<1>1. /\ DOMAIN p.actions = DOMAIN plan.actions
      /\ \A j \in DOMAIN plan.actions : j # i => p.actions[j] = plan.actions[j]
      /\ p.actions[i].by = plan.actions[i].by /\ p.actions[i].status = status
  BY StatusFacts
<1>2. p.humanCount = plan.humanCount
  BY DEF WithStatus, Plan
<1> HIDE DEF p
<1>3. \A j \in DOMAIN plan.actions : p.actions[j].by = plan.actions[j].by
  BY <1>1
<1>4. \A who : By(p, who) = By(plan, who)
  BY <1>1, <1>3 DEF By
<1>5. \A j \in DOMAIN plan.actions : plan.actions[j].status # "rolled_back"
  BY DEF PlanBooked
<1>6. \A j \in DOMAIN p.actions : p.actions[j].status # "rolled_back"
  BY <1>1, <1>5 DEF Resolved
<1>7. PlanBooked(p)
  BY <1>2, <1>4, <1>6 DEF PlanBooked
<1> QED
  BY <1>4, <1>7 DEF p

\* The trigger's last step: the status it settles on says whether work is left.
LEMMA SettleBooked ==
  ASSUME BInv, IInv', NEW c \in Calls, NEW plan \in Plan, PlanBooked(plan),
         Cardinality(By(plan, "auto")) = plan.autoCount,
         RollBooked(plan, task[c], world[c]), Settle(c, plan)
  PROVE  BInv'
<1> TypeOK
  BY DEF BInv, IInv
<1> DEFINE waits == \E i \in DOMAIN plan.actions : AwaitsApproval(plan.actions[i])
           st == IF waits THEN "awaiting_approval"
                 ELSE IF ~waits /\ AllResolved(plan) THEN "verifying" ELSE "executing"
<1>1. /\ plans' = [plans EXCEPT ![c] = [plan EXCEPT !.status = st]]
      /\ st = "awaiting_approval" => waits
  BY DEF Settle
<1> HIDE DEF st
<1>2. /\ plans'[c].actions = plan.actions /\ plans'[c].humanCount = plan.humanCount
      /\ plans'[c].autoCount = plan.autoCount /\ plans'[c].status = st
      /\ \A d \in Calls \ {c} : plans'[d] = plans[d]
  BY <1>1 DEF TypeOK, Plan
<1>3. call'[c].pc = "returned" /\ \A d \in Calls \ {c} : call'[d] = call[d]
  BY DEF Settle, Ended, TypeOK
<1>4. /\ world' = world
      /\ \A d \in Calls \ {c} : task'[d] = task[d]
      /\ \A k \in Spawners : task'[c][k] = task[c][k] \/ task'[c][k].pc = "verifying"
  BY DEF Settle, TypeOK, Spawned, Spawners
<1>5. PlanBooked(plans'[c]) /\ LoopBooked(call'[c], plans'[c])
  BY <1>2, <1>3 DEF PlanBooked, LoopBooked, By
<1>6. WaitBooked(call'[c], plans'[c])
  BY <1>1, <1>2, <1>3 DEF WaitBooked, InFlight, AwaitsApproval, Open
<1>7. RollBooked(plans'[c], task'[c], world'[c])
  BY <1>2, <1>4 DEF RollBooked
<1> QED
  BY <1>2, <1>3, <1>4, <1>5, <1>6, <1>7, BookedFrame DEF Booked

\* The loop counts what it starts and stops at the budget.
LEMMA LoopKeepsBooks ==
  ASSUME BInv, IInv', NEW c \in Calls, NEW plan \in Plan, Len(plan.actions) <= MaxPlanLength,
         ActionsKept(plan, world[c]), TasksKept(plan, task[c]),
         PlanBooked(plan), RollBooked(plan, task[c], world[c]), plan.status # "awaiting_approval",
         NEW from, NEW count \in Nat, Cardinality(By(plan, "auto")) = count,
         ContinueAutoLoop(c, plan, from, count)
  PROVE  BInv'
<1> TypeOK
  BY DEF BInv, IInv
<1>1. CASE StartNextAuto(c, plan, from, count)
  <2>1. PICK i \in AutoReady(plan, from) :
          /\ plans' = [plans EXCEPT ![c] = Begun(plan, i, "auto")]
          /\ call' = [call EXCEPT ![c].pc = IF HasAdapter(plan.actions[i].kind) THEN "executing" ELSE "cooling",
                                  ![c].at = i,
                                  ![c].count = IF HasAdapter(plan.actions[i].kind) THEN count ELSE count + 1]
          /\ CallAdapter(c, plan, i)
    BY <1>1 DEF StartNextAuto
  <2>2. i \in DOMAIN plan.actions /\ plan.actions[i].status = "pending" /\ plan.actions[i].by = "nobody"
    BY DEF AutoReady, ActionsKept
  <2>3. count < MaxAutoActions /\ MaxAutoActions \in Nat /\ task' = task
    BY <1>1, ConstantsAssumption DEF StartNextAuto
  <2>4. plans'[c] = Begun(plan, i, "auto") /\ \A d \in Calls \ {c} : plans'[d] = plans[d]
    BY <2>1 DEF TypeOK
  <2>5. PlanBooked(plans'[c])
    BY <2>2, <2>3, <2>4, PlanStarted
  <2>6. Cardinality(By(plans'[c], "auto")) = count + 1
    BY <2>2, <2>4, ByStarted
  <2>7. /\ \/ call'[c].pc = "executing" /\ call'[c].count = count
           \/ call'[c].pc = "cooling" /\ call'[c].count = count + 1
        /\ \A d \in Calls \ {c} : call'[d] = call[d]
    BY <2>1 DEF TypeOK, Call
  <2>8. LoopBooked(call'[c], plans'[c])
    BY <2>6, <2>7 DEF LoopBooked
  <2>9. plans'[c].status = plan.status
    BY <2>4 DEF Begun, Plan
  <2>10. WaitBooked(call'[c], plans'[c])
    BY <2>9 DEF WaitBooked
  <2>11. \A k \in Spawners : task'[c][k].pc # "rolling"
    BY <2>2, <2>3, NoRollback DEF Open
  <2>12. RollBooked(plans'[c], task'[c], world'[c])
    BY <2>11 DEF RollBooked
  <2>13. \A d \in Calls \ {c} : world'[d] = world[d]
    <3>1. i \in Slots
      BY <2>2, IndexInSlots
    <3>2. QED
      BY <2>1, <3>1, CallAdapterFacts
  <2> QED
    BY <2>3, <2>4, <2>5, <2>7, <2>8, <2>10, <2>12, <2>13, BookedFrame DEF Booked
<1>2. CASE EndAutoLoop(c, plan, from, count)
  <2> DEFINE s == PutUnderApproval(plan.actions, AutoReady(plan, from))
             p == [plan EXCEPT !.actions = s, !.autoCount = count]
  <2>1. Settle(c, p)
    BY <1>2 DEF EndAutoLoop
  <2>2. p \in Plan /\ p.actions = s /\ p.humanCount = plan.humanCount /\ p.autoCount = count
    BY GatedType DEF Plan
  <2>3. \A i \in DOMAIN plan.actions : plan.actions[i] \in Action
    BY DEF Plan
  <2>4. DOMAIN s = DOMAIN plan.actions
    BY DEF PutUnderApproval
  <2>5. \A i \in DOMAIN plan.actions :
          s[i].status = plan.actions[i].status /\ s[i].by = plan.actions[i].by
    BY <2>3 DEF Action, AutoReady, PutUnderApproval
  <2> HIDE DEF p, s
  <2>6. \A who : By(p, who) = By(plan, who)
    BY <2>2, <2>4, <2>5 DEF By
  <2>7. PlanBooked(p) /\ Cardinality(By(p, "auto")) = p.autoCount
    BY <2>2, <2>4, <2>5, <2>6 DEF PlanBooked
  <2>8. RollBooked(p, task[c], world[c])
    BY <2>2, <2>4, <2>5 DEF RollBooked
  <2> QED
    BY <2>1, <2>2, <2>7, <2>8, SettleBooked
<1> QED
  BY <1>1, <1>2 DEF ContinueAutoLoop

LEMMA NoPlanBooked ==
  /\ PlanBooked(NoPlan) /\ By(NoPlan, "auto") = {} /\ By(NoPlan, "analyst") = {}
  /\ \A cl : WaitBooked(cl, NoPlan) /\ (cl.pc \notin {"executing", "cooling"} => LoopBooked(cl, NoPlan))
  /\ \A t, w : RollBooked(NoPlan, t, w)
<1>1. DOMAIN NoPlan.actions = {} /\ NoPlan.humanCount = 0 /\ NoPlan.autoCount = 0
      /\ NoPlan.status = "absent"
  BY DEF NoPlan
<1>2. By(NoPlan, "auto") = {} /\ By(NoPlan, "analyst") = {}
  BY <1>1 DEF By
<1>3. Cardinality({}) = 0
  BY FS_EmptySet
<1>4. PlanBooked(NoPlan)
  <2>1. MaxAutoActions \in Nat
    BY ConstantsAssumption
  <2>2. Cardinality(By(NoPlan, "auto")) = 0 /\ Cardinality(By(NoPlan, "analyst")) = 0
    BY <1>2, <1>3
  <2> QED
    BY <1>1, <2>1, <2>2 DEF PlanBooked
<1> QED
  BY <1>1, <1>2, <1>3, <1>4 DEF WaitBooked, LoopBooked, RollBooked

LEMMA TriggerBooked ==
  ASSUME BInv, IInv', NEW c \in Calls, TriggerStep(c)
  PROVE  BInv'
<1> Booked(c) /\ Kept(c) /\ TypeOK
  BY DEF BInv, IInv
<1>1. CASE Refuse(c) \/ Admit(c) \/ IncidentMissing(c) \/ IncidentFetched(c) \/ Simulated(c)
  <2>1. plans' = plans /\ task' = task /\ world' = world
    BY <1>1 DEF Refuse, Admit, IncidentMissing, IncidentFetched, Simulated
  <2>2. /\ call[c].pc \in Early
        /\ call'[c].pc \in Early \cup {"refused", "notfound"}
        /\ \A d \in Calls \ {c} : call'[d] = call[d]
    <3>1. CASE Refuse(c) \/ IncidentMissing(c)
      BY <3>1 DEF Refuse, IncidentMissing, Early, Ended, TypeOK
    <3>2. CASE Admit(c)
      BY <3>2 DEF Admit, Early, Ended, TypeOK
    <3>3. CASE IncidentFetched(c) \/ Simulated(c)
      BY <3>3 DEF IncidentFetched, Simulated, Early, TypeOK, Call
    <3> QED
      BY <1>1, <3>1, <3>2, <3>3
  <2>3. plans[c] = NoPlan
    BY <2>2 DEF Kept, CallKept
  <2>4. call'[c].pc \notin {"executing", "cooling"}
    BY <2>2 DEF Early
  <2>5. Booked(c)'
    BY <2>1, <2>3, <2>4, NoPlanBooked DEF Booked
  <2> QED
    BY <2>1, <2>2, <2>5, BookedFrame
<1>2. CASE Planned(c)
  <2>1. PICK draft \in Drafts[c] :
          \/ ContinueAutoLoop(c, NewPlan(c, draft), 1, 0)
          \/ Settle(c, NewPlan(c, draft))
    BY <1>2 DEF Planned
  <2> DEFINE plan == NewPlan(c, draft)
  <2>2. plan \in Plan /\ Len(plan.actions) <= MaxPlanLength
    BY NewPlanType
  <2>3. /\ \A i \in DOMAIN plan.actions :
             plan.actions[i].status = "pending" /\ plan.actions[i].by = "nobody"
        /\ plan.humanCount = 0 /\ plan.autoCount = 0 /\ plan.status # "awaiting_approval"
    BY DEF NewPlan, NoPlan
  <2> HIDE DEF plan
  <2>4. \A i \in DOMAIN plan.actions : i \in Slots
    BY <2>2, IndexInSlots
  <2>5. call[c].pc \in Early
    BY <1>2 DEF Planned, Early
  <2>6. ActionsKept(plan, world[c])
    BY <2>3, <2>4, <2>5 DEF Kept, CallKept, ActionsKept, NoEffect
  <2>7. TasksKept(plan, task[c]) /\ RollBooked(plan, task[c], world[c])
    BY <2>5 DEF Kept, CallKept, TasksKept, RollBooked
  <2>8. Cardinality(By(plan, "auto")) = 0 /\ Cardinality(By(plan, "analyst")) = 0
    <3>1. By(plan, "auto") = {} /\ By(plan, "analyst") = {}
      BY <2>3 DEF By
    <3> QED
      BY <3>1, FS_EmptySet
  <2>9. PlanBooked(plan)
    BY <2>3, <2>8, ConstantsAssumption DEF PlanBooked, Open
  <2>10. Settle(c, plan) => BInv'
    BY <2>2, <2>3, <2>7, <2>8, <2>9, SettleBooked
  <2>11. ContinueAutoLoop(c, plan, 1, 0) => BInv'
    BY <2>2, <2>3, <2>6, <2>7, <2>8, <2>9, LoopKeepsBooks
  <2> QED
    BY <2>1, <2>10, <2>11 DEF plan
<1>3. CASE AutoActionDone(c)
  <2> DEFINE i == call[c].at
  <2>1. PICK status \in {"completed", "failed"} :
          plans' = [plans EXCEPT ![c] = WithStatus(plans[c], i, status)]
    BY <1>3 DEF AutoActionDone, Replied
  <2>2. i \in DOMAIN plans[c].actions /\ plans[c].actions[i].status \in Open
    BY <1>3 DEF AutoActionDone, Kept, CallKept, Open
  <2>3. /\ plans'[c] = WithStatus(plans[c], i, status)
        /\ \A d \in Calls \ {c} : plans'[d] = plans[d]
    BY <2>1 DEF TypeOK
  <2>4. plans[c] \in Plan
    BY DEF TypeOK
  <2>5. PlanBooked(plans'[c]) /\ By(plans'[c], "auto") = By(plans[c], "auto")
    BY <2>2, <2>3, <2>4, PlanAnswered DEF Booked, Resolved
  <2>6. task' = task /\ \A k \in Spawners : task'[c][k].pc # "rolling"
    BY <1>3, <2>2, NoRollback DEF AutoActionDone, Kept
  <2>7. PICK result : ReplyEffect(c, i, result)
    BY <1>3 DEF AutoActionDone
  <2>8. \A d \in Calls \ {c} : world'[d] = world[d]
    BY <2>7, ReplyRuns
  <2>9. /\ call[c].pc = "executing" /\ call'[c].pc = "cooling" /\ call'[c].count = call[c].count + 1
        /\ \A d \in Calls \ {c} : call'[d] = call[d]
    BY <1>3 DEF AutoActionDone, TypeOK, Call
  <2>10. LoopBooked(call'[c], plans'[c])
    BY <2>5, <2>9 DEF LoopBooked, Booked
  <2>11. plans'[c].status = plans[c].status /\ plans[c].status # "awaiting_approval"
    BY <2>3, <2>4, <2>9 DEF WithStatus, Plan, Booked, WaitBooked, InFlight
  <2>12. Booked(c)'
    BY <2>5, <2>6, <2>10, <2>11 DEF Booked, WaitBooked, RollBooked
  <2> QED
    BY <2>3, <2>6, <2>8, <2>9, <2>12, BookedFrame
<1>4. CASE CooldownOver(c)
  <2>1. plans[c] \in Plan /\ Len(plans[c].actions) <= MaxPlanLength /\ call[c].count \in Nat
    BY DEF TypeOK, Call
  <2>2. call[c].pc = "cooling" /\ ContinueAutoLoop(c, plans[c], call[c].at + 1, call[c].count)
    BY <1>4 DEF CooldownOver
  <2>3. plans[c].status # "awaiting_approval"
    BY <2>2 DEF Booked, WaitBooked, InFlight
  <2>4. Cardinality(By(plans[c], "auto")) = call[c].count
    BY <2>2 DEF Booked, LoopBooked
  <2> QED
    BY <2>1, <2>2, <2>3, <2>4, LoopKeepsBooks DEF Kept, Booked
<1> QED
  BY <1>1, <1>2, <1>3, <1>4 DEF TriggerStep

\* After a decision or its reply the plan waits on only if something is open.
LEMMA ConcludeBooked ==
  ASSUME BInv, IInv', NEW c \in Calls, NEW plan \in Plan, PlanBooked(plan),
         LoopBooked(call[c], plan),
         plan.status = "awaiting_approval" => call[c].pc \notin InFlight,
         \A i \in DOMAIN plan.actions : plan.actions[i].status # "rolled_back",
         \A k \in Spawners : task[c][k].pc # "rolling",
         Conclude(c, plan), call' = call, \A d \in Calls \ {c} : world'[d] = world[d]
  PROVE  BInv'
<1> TypeOK
  BY DEF BInv, IInv
<1>1. \/ plans' = [plans EXCEPT ![c] = [plan EXCEPT !.status = "verifying"]]
      \/ ~AllResolved(plan) /\ plans' = [plans EXCEPT ![c] = plan]
  BY DEF Conclude
<1>2. /\ plans'[c].actions = plan.actions /\ plans'[c].humanCount = plan.humanCount
      /\ plans'[c].autoCount = plan.autoCount
      /\ \/ plans'[c].status = "verifying"
         \/ ~AllResolved(plan) /\ plans'[c].status = plan.status
      /\ \A d \in Calls \ {c} : plans'[d] = plans[d]
  <2>1. CASE plans' = [plans EXCEPT ![c] = [plan EXCEPT !.status = "verifying"]]
    BY <2>1 DEF TypeOK, Plan
  <2>2. CASE ~AllResolved(plan) /\ plans' = [plans EXCEPT ![c] = plan]
    BY <2>2 DEF TypeOK
  <2> QED
    BY <1>1, <2>1, <2>2
<1>3. /\ \A d \in Calls \ {c} : task'[d] = task[d]
      /\ \A k \in Spawners : task'[c][k] = task[c][k] \/ task'[c][k].pc = "verifying"
  BY DEF Conclude, TypeOK, Spawned, Spawners
<1>4. PlanBooked(plans'[c]) /\ LoopBooked(call'[c], plans'[c])
  BY <1>2 DEF PlanBooked, LoopBooked, By
<1>5. WaitBooked(call'[c], plans'[c])
  <2>1. ASSUME NEW i \in DOMAIN plan.actions, plan.actions[i].status \notin Resolved \cup {"rolled_back"}
        PROVE  plan.actions[i].status \in Open
    <3>1. plan.actions[i] \in Action
      BY DEF Plan
    <3> QED
      BY <2>1, <3>1 DEF Action, Resolved, ActionStatus, Open
  <2>2. ~AllResolved(plan) => \E i \in DOMAIN plan.actions : plan.actions[i].status \in Open
    BY <2>1 DEF AllResolved
  <2>3. call'[c] = call[c]
    OBVIOUS
  <2>4. CASE plans'[c].status = "verifying"
    BY <2>4 DEF WaitBooked
  <2>5. CASE ~AllResolved(plan) /\ plans'[c].status = plan.status
    <3> SUFFICES ASSUME plans'[c].status = "awaiting_approval"
                 PROVE  /\ call'[c].pc \notin InFlight
                        /\ \E i \in DOMAIN plans'[c].actions : plans'[c].actions[i].status \in Open
      BY DEF WaitBooked
    <3> QED
      BY <1>2, <2>2, <2>3, <2>5
  <2> QED
    BY <1>2, <2>4, <2>5
<1>6. RollBooked(plans'[c], task'[c], world'[c])
  BY <1>3 DEF RollBooked
<1> QED
  BY <1>2, <1>3, <1>4, <1>5, <1>6, BookedFrame DEF Booked

LEMMA DecisionBooked ==
  ASSUME BInv, IInv', NEW c \in Calls, NEW i \in Slots, Decide(c, i) \/ ApprovedActionDone(c, i)
  PROVE  BInv'
<1> Booked(c) /\ Kept(c) /\ TypeOK /\ plans[c] \in Plan
  BY DEF BInv, IInv, TypeOK
<1>1. i \in DOMAIN plans[c].actions /\ plans[c].actions[i].status \in Open
  BY DEF Decide, Approve, Veto, ApprovedActionDone, Indices, Open
<1>2. \A k \in Spawners : task[c][k].pc # "rolling"
  BY <1>1, NoRollback DEF Kept
<1>3. \A j \in DOMAIN plans[c].actions : plans[c].actions[j].status # "rolled_back"
  BY <1>1 DEF Booked, PlanBooked
<1>4. plans[c].status = "awaiting_approval" => call[c].pc \notin InFlight
  BY DEF Booked, WaitBooked
<1>5. ASSUME NEW status \in Resolved, Conclude(c, WithStatus(plans[c], i, status)), call' = call,
             \A d \in Calls \ {c} : world'[d] = world[d]
      PROVE  BInv'
  <2> DEFINE p == WithStatus(plans[c], i, status)
  <2>1. p \in Plan
    BY <1>1, StatusType DEF Resolved, ActionStatus
  <2>2. PlanBooked(p) /\ \A who : By(p, who) = By(plans[c], who)
    BY <1>1, PlanAnswered DEF Booked
  <2>3. p.status = plans[c].status /\ p.autoCount = plans[c].autoCount
    BY DEF WithStatus, Plan
  <2>4. \A j \in DOMAIN p.actions : p.actions[j].status # "rolled_back"
    BY <1>1, <1>3, StatusFacts DEF Resolved
  <2>5. Conclude(c, p)
    BY <1>5
  <2> HIDE DEF p
  <2>6. LoopBooked(call[c], p)
    BY <2>2, <2>3 DEF Booked, LoopBooked
  <2> QED
    BY <1>2, <1>4, <1>5, <2>1, <2>2, <2>3, <2>4, <2>5, <2>6, ConcludeBooked
<1>6. CASE Veto(c, i)
  BY <1>5, <1>6 DEF Veto, Resolved
<1>7. CASE Approve(c, i)
  <2> DEFINE b == Begun(plans[c], i, "analyst")
             p == [b EXCEPT !.humanCount = plans[c].humanCount + 1]
  <2>1. /\ plans[c].actions[i].status = "pending" /\ plans[c].actions[i].by = "nobody"
        /\ CallAdapter(c, plans[c], i) /\ call' = call
    BY <1>1, <1>7 DEF Approve, Kept, ActionsKept
  <2>2. \A d \in Calls \ {c} : world'[d] = world[d]
    BY <2>1, CallAdapterFacts
  <2>3. b \in Plan /\ plans[c].humanCount + 1 \in Nat
    <3>1. b \in Plan
      BY <1>1, BegunType
    <3>2. plans[c].humanCount + 1 \in Nat
      BY DEF Plan
    <3> QED
      BY <3>1, <3>2
  <2>4. By(b, "auto") = By(plans[c], "auto")
    BY <1>1, <2>1, ByStarted
  <2>5. b.status = plans[c].status /\ b.autoCount = plans[c].autoCount
    BY DEF Begun, Plan
  <2>6. \A j \in DOMAIN b.actions : b.actions[j].status # "rolled_back"
    BY <1>1, <1>3, BegunFacts
  <2>7. PlanBooked(p)
    BY <1>1, <2>1, PlanStarted, ConstantsAssumption DEF Booked
  <2>8. \/ Conclude(c, p)
        \/ /\ plans' = [plans EXCEPT ![c] = p] /\ task' = task
           /\ HasAdapter(plans[c].actions[i].kind)
    BY <1>7 DEF Approve
  <2>9. HasAdapter(plans[c].actions[i].kind) =>
          i \in DOMAIN b.actions /\ b.actions[i].status \in Open
    BY <1>1, BegunFacts DEF Open
  <2> HIDE DEF b
  <2>10. /\ p \in Plan /\ p.actions = b.actions /\ p.status = plans[c].status
         /\ p.autoCount = plans[c].autoCount
    BY <2>3, <2>5 DEF Plan
  <2> HIDE DEF p
  <2>11. By(p, "auto") = By(plans[c], "auto")
    BY <2>4, <2>10 DEF By
  <2>12. LoopBooked(call[c], p)
    BY <2>10, <2>11 DEF Booked, LoopBooked
  <2>13. CASE Conclude(c, p)
    BY <1>2, <1>4, <2>1, <2>2, <2>6, <2>7, <2>10, <2>12, <2>13, ConcludeBooked
  <2>14. CASE /\ plans' = [plans EXCEPT ![c] = p] /\ task' = task
              /\ HasAdapter(plans[c].actions[i].kind)
    <3>1. plans'[c] = p /\ \A d \in Calls \ {c} : plans'[d] = plans[d]
      BY <2>14 DEF TypeOK
    <3>2. WaitBooked(call'[c], p)
      BY <1>4, <2>1, <2>9, <2>10, <2>14 DEF WaitBooked
    <3>3. RollBooked(p, task'[c], world'[c])
      BY <1>2, <2>14 DEF RollBooked
    <3>4. Booked(c)'
      BY <2>1, <2>7, <2>12, <3>1, <3>2, <3>3 DEF Booked
    <3> QED
      BY <2>1, <2>2, <2>14, <3>1, <3>4, BookedFrame
  <2> QED
    BY <2>8, <2>13, <2>14
<1>8. CASE ApprovedActionDone(c, i)
  <2>1. PICK status \in {"completed", "failed"} :
          Conclude(c, WithStatus(plans[c], i, status))
    BY <1>8 DEF ApprovedActionDone, Replied
  <2>2. PICK result : ReplyEffect(c, i, result)
    BY <1>8 DEF ApprovedActionDone
  <2>3. \A d \in Calls \ {c} : world'[d] = world[d]
    BY <2>2, ReplyRuns
  <2>4. status \in Resolved /\ call' = call
    BY <1>8 DEF ApprovedActionDone, Resolved
  <2> QED
    BY <1>5, <2>1, <2>3, <2>4
<1> QED
  BY <1>6, <1>7, <1>8 DEF Decide

\* What a rollback step does to the effects: it counts one more rollback of one
\* action of its list, the last one left.
LEMMA ReplyFacts ==
  ASSUME TypeOK, NEW c \in Calls, NEW k \in Spawners, RollbackReply(c, k)
  PROVE  \E i \in Slots :
           /\ RollsBack(c, k, i) /\ world'[c][i].undos = world[c][i].undos + 1
           /\ \A j \in Slots \ {i} : world'[c][j] = world[c][j]
           /\ \A d \in Calls \ {c} : world'[d] = world[d]
<1>1. PICK i \in Slots :
        /\ RollsBack(c, k, i)
        /\ \E e \in {"undone", world[c][i].effect} :
             world' = [world EXCEPT ![c][i].undos = @ + 1, ![c][i].effect = e]
  BY DEF RollbackReply, TypeOK, Effect
<1>2. PICK e \in {"undone", world[c][i].effect} :
        world' = [world EXCEPT ![c][i].undos = @ + 1, ![c][i].effect = e]
  BY <1>1
<1>3. world[c][i] \in Effect
  BY DEF TypeOK
<1>4. world'[c][i].undos = world[c][i].undos + 1
  BY <1>2, <1>3 DEF TypeOK, Effect
<1>5. /\ \A j \in Slots \ {i} : world'[c][j] = world[c][j]
      /\ \A d \in Calls \ {c} : world'[d] = world[d]
  BY <1>2 DEF TypeOK
<1> QED
  BY <1>1, <1>4, <1>5

\* Verdicts and rollbacks leave the counters, and strike off the list only what
\* was tried.
LEMMA VerifyBooked ==
  ASSUME BInv, IInv', NEW c \in Calls, NEW k \in Spawners, VerifyStep(c, k)
  PROVE  BInv'
<1> Booked(c) /\ Kept(c) /\ TypeOK /\ plans[c] \in Plan
  BY DEF BInv, IInv, TypeOK
<1>1. task[c][k].pc \in {"verifying", "rolling"} /\ call' = call
  BY DEF VerifyStep, VerdictPassed, VerdictFailed, VerdictRaised, RollbackReply
<1>2. \A i \in DOMAIN plans[c].actions : plans[c].actions[i].status \notin Open
  BY <1>1 DEF Kept, TasksKept
<1>3. plans[c].status # "awaiting_approval"
  BY <1>2 DEF Booked, WaitBooked
<1>4. CASE VerdictPassed(c, k) \/ VerdictFailed(c, k) \/ VerdictRaised(c, k)
  <2>1. world' = world
    BY <1>4 DEF VerdictPassed, VerdictFailed, VerdictRaised
  <2>2. /\ plans'[c].actions = plans[c].actions /\ plans'[c].humanCount = plans[c].humanCount
        /\ plans'[c].autoCount = plans[c].autoCount
        /\ plans'[c].status \in {"completed", "rolled_back", "failed", plans[c].status}
        /\ \A d \in Calls \ {c} : plans'[d] = plans[d]
    BY <1>4 DEF VerdictPassed, VerdictFailed, VerdictRaised, TypeOK, Plan
  <2>3. /\ \A d \in Calls \ {c} : task'[d] = task[d]
        /\ \A m \in Spawners \ {k} : task'[c][m] = task[c][m]
        /\ \/ task'[c][k].pc = "done"
           \/ task'[c][k].pc = "rolling" /\ task'[c][k].todo = CompletedActions(c)
    BY <1>4 DEF VerdictPassed, VerdictFailed, VerdictRaised, TypeOK, Task
  <2>4. PlanBooked(plans'[c]) /\ LoopBooked(call'[c], plans'[c])
    BY <1>1, <2>2 DEF Booked, PlanBooked, LoopBooked, By
  <2>5. WaitBooked(call'[c], plans'[c])
    BY <1>3, <2>2 DEF WaitBooked
  <2>6. RollBooked(plans'[c], task'[c], world'[c])
    <3> SUFFICES ASSUME NEW m \in Spawners, task'[c][m].pc = "rolling", NEW j \in DOMAIN plans'[c].actions,
                        plans'[c].actions[j].status = "completed", j \notin task'[c][m].todo
                 PROVE  world'[c][j].undos > 0
      BY DEF RollBooked
    <3>1. CASE m = k
      BY <2>2, <2>3, <3>1 DEF CompletedActions, Indices
    <3>2. CASE m # k
      BY <2>1, <2>2, <2>3, <3>2 DEF Booked, RollBooked
    <3> QED
      BY <3>1, <3>2
  <2> QED
    BY <1>1, <2>1, <2>2, <2>3, <2>4, <2>5, <2>6, BookedFrame DEF Booked
<1>5. CASE RollbackReply(c, k)
  <2>1. PICK i \in Slots, status \in ActionStatus, pc \in {"done", "rolling"} :
          /\ i \in task[c][k].todo /\ status \in {"rolled_back", plans[c].actions[i].status}
          /\ \/ plans' = [plans EXCEPT ![c] = WithStatus(plans[c], i, status)]
             \/ plans' = [plans EXCEPT ![c] =
                           [WithStatus(plans[c], i, status) EXCEPT !.status = "rolled_back"]]
          /\ task' = [task EXCEPT ![c][k] = [pc |-> pc, todo |-> task[c][k].todo \ {i}]]
          /\ world'[c][i].undos = world[c][i].undos + 1
          /\ \A j \in Slots \ {i} : world'[c][j] = world[c][j]
          /\ \A d \in Calls \ {c} : world'[d] = world[d]
    <3>0. PICK i \in Slots :
            \E status \in {"rolled_back", plans[c].actions[i].status},
               pc \in {"done", "rolling"}, e \in {"undone", world[c][i].effect} :
              /\ i \in task[c][k].todo
              /\ \/ plans' = [plans EXCEPT ![c] = WithStatus(plans[c], i, status)]
                 \/ plans' = [plans EXCEPT ![c] =
                               [WithStatus(plans[c], i, status) EXCEPT !.status = "rolled_back"]]
              /\ task' = [task EXCEPT ![c][k] = [pc |-> pc, todo |-> task[c][k].todo \ {i}]]
              /\ world' = [world EXCEPT ![c][i].undos = @ + 1, ![c][i].effect = e]
      BY <1>5 DEF RollbackReply, RollsBack, TypeOK, Effect
    <3>1. PICK status \in {"rolled_back", plans[c].actions[i].status},
               pc \in {"done", "rolling"}, e \in {"undone", world[c][i].effect} :
            /\ i \in task[c][k].todo
            /\ \/ plans' = [plans EXCEPT ![c] = WithStatus(plans[c], i, status)]
               \/ plans' = [plans EXCEPT ![c] =
                             [WithStatus(plans[c], i, status) EXCEPT !.status = "rolled_back"]]
            /\ task' = [task EXCEPT ![c][k] = [pc |-> pc, todo |-> task[c][k].todo \ {i}]]
            /\ world' = [world EXCEPT ![c][i].undos = @ + 1, ![c][i].effect = e]
      BY <3>0
    <3>2. world[c][i] \in Effect
      BY DEF TypeOK
    <3>3. /\ world'[c][i].undos = world[c][i].undos + 1
          /\ \A j \in Slots \ {i} : world'[c][j] = world[c][j]
          /\ \A d \in Calls \ {c} : world'[d] = world[d]
      BY <3>1, <3>2 DEF TypeOK, Effect
    <3>4. status \in ActionStatus
      <4>1. task[c][k].pc = "rolling"
        BY <1>5 DEF RollbackReply
      <4>2. plans[c].actions[i].status \in {"completed", "rolled_back"}
        BY <3>1, <4>1 DEF Kept, TasksKept
      <4> QED
        BY <3>1, <4>2 DEF ActionStatus
    <3> QED
      BY <3>1, <3>3, <3>4
  <2>2. task[c][k].pc = "rolling"
    BY <1>5 DEF RollbackReply
  <2>3. i \in DOMAIN plans[c].actions /\ plans[c].actions[i].status \in {"completed", "rolled_back"}
    BY <2>1, <2>2 DEF Kept, TasksKept
  <2> DEFINE after == WithStatus(plans[c], i, status)
  <2>4. /\ DOMAIN after.actions = DOMAIN plans[c].actions
        /\ \A j \in DOMAIN plans[c].actions : j # i => after.actions[j] = plans[c].actions[j]
        /\ after.actions[i].status = status /\ after.actions[i].by = plans[c].actions[i].by
    BY <2>3, StatusFacts
  <2>5. after \in Plan /\ after.status = plans[c].status
        /\ after.humanCount = plans[c].humanCount /\ after.autoCount = plans[c].autoCount
    <3>1. status \in ActionStatus
      BY <2>1, <2>3 DEF ActionStatus
    <3>2. after \in Plan
      BY <3>1, StatusType
    <3> QED
      BY <3>2 DEF WithStatus, Plan
  <2>6. \/ plans' = [plans EXCEPT ![c] = after]
        \/ plans' = [plans EXCEPT ![c] = [after EXCEPT !.status = "rolled_back"]]
    BY <2>1
  <2> HIDE DEF after
  <2>7. /\ plans'[c].actions = after.actions /\ plans'[c].humanCount = plans[c].humanCount
        /\ plans'[c].autoCount = plans[c].autoCount
        /\ plans'[c].status \in {plans[c].status, "rolled_back"}
        /\ \A d \in Calls \ {c} : plans'[d] = plans[d]
    BY <2>5, <2>6 DEF TypeOK, Plan
  <2>8. \A j \in DOMAIN plans'[c].actions :
          /\ plans'[c].actions[j].by = plans[c].actions[j].by
          /\ plans'[c].actions[j].status \notin Open
          /\ plans'[c].actions[j].status = "completed" => j = i \/ plans[c].actions[j].status = "completed"
    BY <1>2, <2>1, <2>3, <2>4, <2>7 DEF Open
  <2>9. DOMAIN plans'[c].actions = DOMAIN plans[c].actions
    BY <2>4, <2>7
  <2>10. \A who : By(plans'[c], who) = By(plans[c], who)
    BY <2>8, <2>9 DEF By
  <2>11. PlanBooked(plans'[c]) /\ LoopBooked(call'[c], plans'[c])
    BY <1>1, <2>7, <2>8, <2>10 DEF Booked, PlanBooked, LoopBooked
  <2>12. WaitBooked(call'[c], plans'[c])
    BY <1>3, <2>7 DEF WaitBooked
  <2>13. /\ \A d \in Calls \ {c} : task'[d] = task[d]
         /\ \A m \in Spawners : task'[c][m].pc = "rolling" =>
              /\ task[c][m].pc = "rolling"
              /\ \A j : j \in task[c][m].todo => j \in task'[c][m].todo \/ j = i
    BY <2>1, <2>2 DEF TypeOK, Task
  <2>14. RollBooked(plans'[c], task'[c], world'[c])
    <3> SUFFICES ASSUME NEW m \in Spawners, task'[c][m].pc = "rolling", NEW j \in DOMAIN plans'[c].actions,
                        plans'[c].actions[j].status = "completed", j \notin task'[c][m].todo
                 PROVE  world'[c][j].undos > 0
      BY DEF RollBooked
    <3>1. CASE j = i
      <4>1. world[c][i] \in Effect
        BY DEF TypeOK
      <4> QED
        BY <2>1, <3>1, <4>1 DEF Effect
    <3>2. CASE j # i
      <4>1. world[c][j].undos > 0
        BY <2>8, <2>9, <2>13, <3>2 DEF Booked, RollBooked
      <4>2. j \in Slots
        BY <2>9, IndexInSlots DEF TypeOK
      <4> QED
        BY <2>1, <3>2, <4>1, <4>2
    <3> QED
      BY <3>1, <3>2
  <2> QED
    BY <1>1, <2>1, <2>7, <2>11, <2>12, <2>13, <2>14, BookedFrame DEF Booked
<1> QED
  BY <1>4, <1>5 DEF VerifyStep

\* A command that takes effect is not counted.
LEMMA EffectBooked ==
  ASSUME BInv, IInv', NEW c \in Calls, NEW i \in Slots, NEW e,
         world' = [world EXCEPT ![c][i].effect = e],
         call' = call, plans' = plans, task' = task
  PROVE  /\ BInv'
         /\ \A d \in Calls, j \in Slots : world'[d][j].undos = world[d][j].undos
<1> TypeOK
  BY DEF BInv, IInv
<1>1. \A d \in Calls, j \in Slots : world'[d][j].undos = world[d][j].undos
  <2>1. \A d \in Calls, j \in Slots : world[d][j] \in Effect
    BY DEF TypeOK
  <2> QED
    BY <2>1 DEF TypeOK, Effect
<1>2. ASSUME NEW d \in Calls PROVE Booked(d)'
  <2>1. \A j \in DOMAIN plans[d].actions : j \in Slots
    BY IndexInSlots DEF TypeOK
  <2>2. Booked(d)
    BY DEF BInv
  <2>3. RollBooked(plans'[d], task'[d], world'[d])
    BY <1>1, <2>1, <2>2 DEF Booked, RollBooked
  <2> QED
    BY <2>2, <2>3 DEF Booked
<1> QED
  BY <1>1, <1>2 DEF BInv

LEMMA RestartBooked ==
  ASSUME BInv, IInv', Restart
  PROVE  BInv'
<1> SUFFICES ASSUME NEW c \in Calls PROVE Booked(c)'
  BY DEF BInv
<1>1. plans'[c] = NoPlan
  BY DEF Restart
<1>2. call'[c].pc \notin {"executing", "cooling"}
  <2>1. CASE call[c].pc \in InFlight
    BY <2>1 DEF Restart, Ended
  <2>2. CASE call[c].pc \notin InFlight
    BY <2>2 DEF Restart, InFlight
  <2> QED
    BY <2>1, <2>2
<1> QED
  BY <1>1, <1>2, NoPlanBooked DEF Booked

LEMMA InitBooked == Init => BInv
<1> SUFFICES ASSUME Init PROVE BInv
  OBVIOUS
<1>1. ASSUME NEW c \in Calls PROVE Booked(c)
  <2>1. plans[c] = NoPlan /\ call[c].pc = "idle"
    BY DEF Init, Ended
  <2> QED
    BY <2>1, NoPlanBooked DEF Booked
<1> QED
  BY <1>1, InitKept DEF BInv

LEMMA NextBooked == BInv /\ [Next]_vars => BInv'
<1> SUFFICES ASSUME BInv, [Next]_vars PROVE BInv'
  OBVIOUS
<1>1. IInv'
  BY NextKept DEF BInv
<1>2. CASE \E c \in Calls : TriggerStep(c)
  BY <1>1, <1>2, TriggerBooked
<1>3. CASE \E c \in Calls, i \in Slots : Decide(c, i) \/ ApprovedActionDone(c, i)
  BY <1>1, <1>3, DecisionBooked
<1>4. CASE \E c \in Calls, i \in Slots : Lands(c, i)
  <2>1. PICK c \in Calls, i \in Slots : Lands(c, i)
    BY <1>4
  <2> QED
    BY <1>1, <2>1, EffectBooked DEF Lands
<1>5. CASE \E c \in Calls, k \in Spawners : VerifyStep(c, k)
  BY <1>1, <1>5, VerifyBooked
<1>6. CASE \E c \in Calls, k \in Spawners : RollbackLands(c, k)
  <2>1. PICK c \in Calls, k \in Spawners : RollbackLands(c, k)
    BY <1>6
  <2>2. PICK i \in Slots : world' = [world EXCEPT ![c][i].effect = "undone"]
    BY <2>1 DEF RollbackLands
  <2> QED
    BY <1>1, <2>1, <2>2, EffectBooked DEF RollbackLands
<1>7. CASE Restart
  BY <1>1, <1>7, RestartBooked
<1>8. CASE Quiescent \/ UNCHANGED vars
  <2>1. call' = call /\ plans' = plans /\ task' = task /\ world' = world
    BY <1>8 DEF Quiescent, vars
  <2> QED
    BY <1>1, <2>1 DEF BInv, Booked
<1> QED
  BY <1>2, <1>3, <1>4, <1>5, <1>6, <1>7, <1>8 DEF Next

\* The second invariant holds in every reachable state.
THEOREM BooksInductive == Spec => []BInv
<1>1. Init => BInv
  BY InitBooked
<1>2. BInv /\ [Next]_vars => BInv'
  BY NextBooked
<1> QED
  BY <1>1, <1>2, PTL DEF Spec

\* The loop keeps to its budget and the counters of a plan agree with its
\* actions, whatever analysts decide while the loop sleeps and whatever the
\* limit on automatic actions is.
THEOREM BookkeepingHolds == Spec => []Bookkeeping
<1>1. BInv => AutoBudget
  BY DEF BInv, Booked, PlanBooked, By, AutoBudget, Indices
<1>2. BInv => CountsAgree
  BY DEF BInv, Booked, PlanBooked, LoopBooked, By, CountsAgree, Indices
<1>3. BInv => Bookkeeping
  BY <1>1, <1>2 DEF BInv, IInv, Bookkeeping
<1> QED
  BY <1>3, BooksInductive, PTL

\* A plan that waits for approval has an action that is still to be decided or
\* to finish, in whatever order decisions and replies arrive.
THEOREM AwaitingMeansWorkHolds == Spec => []AwaitingMeansWork
<1>1. BInv => AwaitingMeansWork
  BY DEF BInv, Booked, WaitBooked, AwaitingMeansWork, Indices, Open
<1> QED
  BY <1>1, BooksInductive, PTL

UndosStay == \A c \in Calls, i \in Slots : world'[c][i].undos = world[c][i].undos

\* Calling an adapter to execute, its reply and a command that takes effect
\* count no rollback.
LEMMA EffectsUndoNothing ==
  ASSUME TypeOK, NEW c \in Calls, NEW i
  PROVE  /\ world' = world => UndosStay
         /\ \A e : world' = [world EXCEPT ![c][i].effect = e] => UndosStay
         /\ \A plan : CallAdapter(c, plan, i) => UndosStay
         /\ \A result : ReplyEffect(c, i, result) => UndosStay
<1>1. \A d \in Calls, j \in Slots : world[d][j] \in Effect
  BY DEF TypeOK
<1>2. world' = world => UndosStay
  BY DEF UndosStay
<1>3. ASSUME NEW e, world' = [world EXCEPT ![c][i].effect = e] PROVE UndosStay
  BY <1>1, <1>3 DEF UndosStay, TypeOK, Effect
<1>4. ASSUME NEW e, world' = [world EXCEPT ![c][i].effect = e, ![c][i].runs = @ + 1] PROVE UndosStay
  BY <1>1, <1>4 DEF UndosStay, TypeOK, Effect
<1>5. \A plan : CallAdapter(c, plan, i) => UndosStay
  BY <1>2, <1>4 DEF CallAdapter
<1>6. \A result : ReplyEffect(c, i, result) => UndosStay
  BY <1>2, <1>3 DEF ReplyEffect
<1> QED
  BY <1>2, <1>3, <1>5, <1>6

\* Nothing but the reply to a rollback counts one.
LEMMA OnlyRepliesUndo ==
  ASSUME TypeOK, [Next]_vars
  PROVE  UndosStay \/ \E c \in Calls, k \in Spawners : RollbackReply(c, k)
<1>1. ASSUME NEW c \in Calls, TriggerStep(c) PROVE UndosStay
  <2>1. ASSUME NEW plan, NEW from, NEW count, ContinueAutoLoop(c, plan, from, count) PROVE UndosStay
    <3>1. \/ world' = world
          \/ \E i \in AutoReady(plan, from) : CallAdapter(c, plan, i)
      BY <2>1 DEF ContinueAutoLoop, StartNextAuto, EndAutoLoop, Settle
    <3> QED
      BY <3>1, EffectsUndoNothing
  <2>2. CASE AutoActionDone(c)
    BY <2>2, EffectsUndoNothing DEF AutoActionDone
  <2>3. CASE Planned(c) \/ CooldownOver(c)
    <3>1. \/ world' = world
          \/ \E plan, from, count : ContinueAutoLoop(c, plan, from, count)
      BY <2>3 DEF Planned, CooldownOver, Settle
    <3> QED
      BY <2>1, <3>1, EffectsUndoNothing
  <2>4. CASE Refuse(c) \/ Admit(c) \/ IncidentMissing(c) \/ IncidentFetched(c) \/ Simulated(c)
    BY <2>4, EffectsUndoNothing DEF Refuse, Admit, IncidentMissing, IncidentFetched, Simulated
  <2> QED
    BY <1>1, <2>2, <2>3, <2>4 DEF TriggerStep
<1>2. ASSUME NEW c \in Calls, NEW i \in Slots, Decide(c, i) \/ ApprovedActionDone(c, i) \/ Lands(c, i)
      PROVE  UndosStay
  <2>1. \/ world' = world \/ world' = [world EXCEPT ![c][i].effect = "applied"]
        \/ CallAdapter(c, plans[c], i)
        \/ \E result : ReplyEffect(c, i, result)
    BY <1>2 DEF Decide, Approve, Veto, ApprovedActionDone, Lands
  <2> QED
    BY <2>1, EffectsUndoNothing
<1>3. ASSUME NEW c \in Calls, NEW k \in Spawners, VerifyStep(c, k), ~RollbackReply(c, k)
      PROVE  UndosStay
  BY <1>3 DEF VerifyStep, VerdictPassed, VerdictFailed, VerdictRaised, UndosStay
<1>4. ASSUME NEW c \in Calls, NEW k \in Spawners, RollbackLands(c, k)
      PROVE  UndosStay
  <2>1. PICK i \in Slots : world' = [world EXCEPT ![c][i].effect = "undone"]
    BY <1>4 DEF RollbackLands
  <2> QED
    BY <2>1, EffectsUndoNothing
<1>5. CASE Restart \/ Quiescent \/ UNCHANGED vars
  BY <1>5 DEF Restart, Quiescent, vars, UndosStay
<1> QED
  BY <1>1, <1>2, <1>3, <1>4, <1>5 DEF Next

\* An action is rolled back only after the rollback of every later action that
\* had completed was tried, even when two tasks roll the same plan back.
THEOREM RollbackInReverseHolds == Spec => RollbackInReverse
<1>1. ASSUME BInv, [Next]_vars, NEW c \in Calls, NEW i \in Slots, NEW j \in Slots,
             world'[c][i].undos > world[c][i].undos, j > i, j \in Indices(c),
             plans[c].actions[j].status = "completed"
      PROVE  world[c][j].undos > 0
  <2> /\ TypeOK /\ Booked(c) /\ \A d \in Calls, m \in Slots : world[d][m].undos \in Nat
    BY <1>1 DEF BInv, IInv, TypeOK, Effect
  <2>1. PICK d \in Calls, k \in Spawners : RollbackReply(d, k)
    BY <1>1, OnlyRepliesUndo DEF UndosStay
  <2>2. PICK l \in Slots :
          /\ RollsBack(d, k, l)
          /\ \A m \in Slots \ {l} : world'[d][m] = world[d][m]
          /\ \A e \in Calls \ {d} : world'[e] = world[e]
    BY <2>1, ReplyFacts
  <2>3. d = c /\ l = i
    BY <1>1, <2>2
  <2>4. j \notin task[c][k].todo
    BY <1>1, <2>2, <2>3 DEF RollsBack, Slots
  <2>5. task[c][k].pc = "rolling"
    BY <2>1, <2>3 DEF RollbackReply
  <2> QED
    BY <1>1, <2>4, <2>5 DEF Booked, RollBooked, Indices
<1>2. BInv /\ [Next]_vars =>
        [\A c \in Calls : \A i, j \in Slots :
           /\ world'[c][i].undos > world[c][i].undos
           /\ j > i /\ j \in Indices(c)
           /\ plans[c].actions[j].status = "completed"
           => world[c][j].undos > 0]_vars
  BY <1>1
<1> QED
  BY <1>2, BooksInductive, PTL DEF Spec, RollbackInReverse

-----------------------------------------------------------------------------
(* ResponseOrchestrator implements ActionLedger, for every value of the      *)
(* constants: every step moves the entries of one plan lawfully, loses them   *)
(* all, or leaves the ledger as it is.                                        *)
\* The entry of slot s in the ledger of a plan.
LEMMA Entry ==
  ASSUME NEW plan \in Plan, NEW s \in Slots
  PROVE  /\ s \in DOMAIN plan.actions =>
              /\ ledgerOf(plan)[s].status = plan.actions[s].status
              /\ ledgerOf(plan)[s].gated = plan.actions[s].gated
              /\ ledgerOf(plan)[s].by = plan.actions[s].by
              /\ ledgerOf(plan)[s].status # "absent"
         /\ s \notin DOMAIN plan.actions => ledgerOf(plan)[s] = Ledger!NoEntry
         /\ ledgerOf(plan)[s] \in [status : ActionStatus \cup {"absent"}, gated : BOOLEAN,
                                   by : {"nobody", "auto", "analyst"}]
<1>1. CASE s \in DOMAIN plan.actions
  <2>1. plan.actions[s] \in Action
    BY <1>1 DEF Plan
  <2> QED
    BY <1>1, <2>1 DEF ledgerOf, Action, ActionStatus
<1>2. CASE s \notin DOMAIN plan.actions
  BY <1>2 DEF ledgerOf, Ledger!NoEntry
<1> QED
  BY <1>1, <1>2

\* A plan whose list of actions stays the same leaves its entries alone.
LEMMA SameLedger ==
  ASSUME TypeOK, TypeOK', \A c \in Calls : plans'[c].actions = plans[c].actions
  PROVE  ledgerView' = ledgerView
  BY DEF ledgerView, ledgerOf

\* One plan moves if each of its entries moves lawfully and at most entry i of
\* those it had changes its status.
LEMMA MoveOfPlan ==
  ASSUME TypeOK, TypeOK', NEW c \in Calls, NEW i,
         \A d \in Calls \ {c} : plans'[d] = plans[d],
         \A s \in Slots :
           /\ Ledger!Lawful(ledgerOf(plans[c])[s], ledgerOf(plans'[c])[s])
           /\ \/ s = i
              \/ ledgerOf(plans[c])[s].status = "absent"
              \/ ledgerOf(plans'[c])[s].status = ledgerOf(plans[c])[s].status
  PROVE  Ledger!Next
<1>1. /\ ledgerView[c] = ledgerOf(plans[c]) /\ ledgerView'[c] = ledgerOf(plans'[c])
      /\ \A d \in Calls \ {c} : ledgerView'[d] = ledgerView[d]
  BY DEF ledgerView, ledgerOf
<1>2. Ledger!Move(c)
  BY <1>1 DEF Ledger!Move
<1> QED
  BY <1>2 DEF Ledger!Next

\* An entry that keeps its status and its starter, and stays under approval if
\* it was, moves lawfully.
LEMMA KeepsLawful ==
  ASSUME NEW p \in Plan, NEW q \in Plan, NEW s \in Slots,
         DOMAIN q.actions = DOMAIN p.actions,
         s \in DOMAIN p.actions =>
           /\ q.actions[s].status = p.actions[s].status /\ q.actions[s].by = p.actions[s].by
           /\ q.actions[s].gated = p.actions[s].gated
              \/ (p.actions[s].status = "pending" /\ q.actions[s].gated)
  PROVE  /\ Ledger!Lawful(ledgerOf(p)[s], ledgerOf(q)[s])
         /\ ledgerOf(q)[s].status = ledgerOf(p)[s].status
<1>1. CASE s \in DOMAIN p.actions
  <2>1. Ledger!Keeps(ledgerOf(p)[s], ledgerOf(q)[s])
    BY <1>1, Entry DEF Ledger!Keeps
  <2> QED
    BY <1>1, <2>1, Entry DEF Ledger!Lawful
<1>2. CASE s \notin DOMAIN p.actions
  <2>1. ledgerOf(p)[s] = Ledger!NoEntry /\ ledgerOf(q)[s] = Ledger!NoEntry
    BY <1>2, Entry
  <2>2. Ledger!Keeps(ledgerOf(p)[s], ledgerOf(q)[s])
    BY <2>1 DEF Ledger!Keeps, Ledger!NoEntry
  <2> QED
    BY <2>1, <2>2 DEF Ledger!Lawful
<1> QED
  BY <1>1, <1>2

\* One action of a plan changes as the ledger allows, the others not at all.
LEMMA OneMoves ==
  ASSUME TypeOK, TypeOK', NEW c \in Calls, NEW i \in DOMAIN plans[c].actions, NEW q \in Plan,
         plans'[c].actions = q.actions, \A d \in Calls \ {c} : plans'[d] = plans[d],
         DOMAIN q.actions = DOMAIN plans[c].actions,
         \A j \in DOMAIN plans[c].actions : j # i => q.actions[j] = plans[c].actions[j],
         Ledger!Lawful(ledgerOf(plans[c])[i], ledgerOf(q)[i])
  PROVE  Ledger!Next
<1>1. plans[c] \in Plan /\ ledgerOf(plans'[c]) = ledgerOf(q)
  BY DEF TypeOK, ledgerOf
<1>2. ASSUME NEW s \in Slots, s # i
      PROVE  /\ Ledger!Lawful(ledgerOf(plans[c])[s], ledgerOf(q)[s])
             /\ ledgerOf(q)[s].status = ledgerOf(plans[c])[s].status
  BY <1>1, <1>2, KeepsLawful
<1> QED
  BY <1>1, <1>2, MoveOfPlan

\* The status of one action changes as the life of an action allows.
LEMMA StatusMoves ==
  ASSUME TypeOK, TypeOK', NEW c \in Calls, NEW i \in DOMAIN plans[c].actions, NEW status,
         plans'[c].actions = WithStatus(plans[c], i, status).actions,
         \A d \in Calls \ {c} : plans'[d] = plans[d],
         \/ plans[c].actions[i].status = "pending" /\ status = "vetoed"
         \/ plans[c].actions[i].status = "executing" /\ status \in {"completed", "failed"}
         \/ plans[c].actions[i].status = "completed" /\ status = "rolled_back"
         \/ plans[c].actions[i].status = status
  PROVE  Ledger!Next
<1> DEFINE q == WithStatus(plans[c], i, status)
           e == ledgerOf(plans[c])[i]
           f == ledgerOf(q)[i]
<1>1. plans[c] \in Plan /\ i \in Slots /\ plans[c].actions[i] \in Action
  BY IndexInSlots DEF TypeOK, Plan
<1>2. status \in ActionStatus
  BY <1>1 DEF ActionStatus, Action
<1>3. q \in Plan
  BY <1>1, <1>2, StatusType
<1>4. /\ DOMAIN q.actions = DOMAIN plans[c].actions
      /\ \A j \in DOMAIN plans[c].actions : j # i => q.actions[j] = plans[c].actions[j]
      /\ q.actions[i].gated = plans[c].actions[i].gated
      /\ q.actions[i].by = plans[c].actions[i].by
      /\ q.actions[i].status = status
  BY <1>1, StatusFacts
<1> HIDE DEF q
<1>5. /\ e = [status |-> plans[c].actions[i].status, gated |-> plans[c].actions[i].gated,
             by |-> plans[c].actions[i].by]
      /\ f = [status |-> status, gated |-> plans[c].actions[i].gated,
             by |-> plans[c].actions[i].by]
  BY <1>1, <1>4 DEF ledgerOf
<1>6. Ledger!Lawful(e, f)
  BY <1>5 DEF Ledger!Lawful, Ledger!Vetoed, Ledger!Answered, Ledger!RolledBack, Ledger!Keeps
<1> QED
  BY <1>3, <1>4, <1>6, OneMoves DEF q

\* A pending action is started: by the loop only if it needs no approval.
LEMMA StartMoves ==
  ASSUME TypeOK, TypeOK', NEW c \in Calls, NEW i \in DOMAIN plans[c].actions,
         NEW who \in {"auto", "analyst"},
         plans'[c].actions = Begun(plans[c], i, who).actions,
         \A d \in Calls \ {c} : plans'[d] = plans[d],
         plans[c].actions[i].status = "pending", plans[c].actions[i].gated => who = "analyst"
  PROVE  Ledger!Next
<1> DEFINE q == Begun(plans[c], i, who)
           e == ledgerOf(plans[c])[i]
           f == ledgerOf(q)[i]
<1>1. plans[c] \in Plan /\ i \in Slots
  BY IndexInSlots DEF TypeOK
<1>2. q \in Plan
  BY <1>1, BegunType
<1>3. /\ DOMAIN q.actions = DOMAIN plans[c].actions
      /\ \A j \in DOMAIN plans[c].actions : j # i => q.actions[j] = plans[c].actions[j]
      /\ q.actions[i].gated = plans[c].actions[i].gated
      /\ q.actions[i].by = who
      /\ q.actions[i].status \in {"executing", "failed"}
  BY <1>1, BegunFacts
<1> HIDE DEF q
<1>4. /\ e.status = "pending" /\ e.gated = plans[c].actions[i].gated
      /\ f.status \in {"executing", "failed"} /\ f.gated = e.gated /\ f.by = who
  BY <1>1, <1>3 DEF ledgerOf
<1>5. Ledger!Starts(e, f)
  BY <1>4 DEF Ledger!Starts
<1>6. Ledger!Lawful(e, f)
  BY <1>5 DEF Ledger!Lawful
<1> QED
  BY <1>2, <1>3, <1>6, OneMoves DEF q

\* A plan is registered: its actions are pending, except one that the loop may
\* have started already.
LEMMA OpenMoves ==
  ASSUME TypeOK, TypeOK', NEW c \in Calls, plans[c] = NoPlan,
         \A d \in Calls \ {c} : plans'[d] = plans[d],
         \A i \in DOMAIN plans'[c].actions :
           LET a == plans'[c].actions[i]
           IN  \/ a.status = "pending" /\ a.by = "nobody"
               \/ a.status \in {"executing", "failed"} /\ a.by = "auto" /\ ~a.gated
  PROVE  Ledger!Next
<1>1. plans[c] \in Plan /\ plans'[c] \in Plan /\ DOMAIN plans[c].actions = {}
  <2>1. DOMAIN NoPlan.actions = {}
    BY DEF NoPlan
  <2> QED
    BY <2>1 DEF TypeOK
<1>2. ASSUME NEW s \in Slots
      PROVE  /\ Ledger!Lawful(ledgerOf(plans[c])[s], ledgerOf(plans'[c])[s])
             /\ ledgerOf(plans[c])[s].status = "absent"
  <2> DEFINE e == ledgerOf(plans[c])[s]
             f == ledgerOf(plans'[c])[s]
  <2>1. e = Ledger!NoEntry
    BY <1>1, Entry
  <2>2. CASE s \notin DOMAIN plans'[c].actions
    <3>1. f = Ledger!NoEntry
      BY <1>1, <2>2, Entry
    <3> QED
      BY <2>1, <3>1 DEF Ledger!Lawful, Ledger!Keeps, Ledger!NoEntry
  <2>3. CASE s \in DOMAIN plans'[c].actions
    <3>1. f = [status |-> plans'[c].actions[s].status, gated |-> plans'[c].actions[s].gated,
               by |-> plans'[c].actions[s].by]
      BY <2>3 DEF ledgerOf
    <3>2. Ledger!Opens(e, f)
      BY <2>1, <2>3, <3>1 DEF Ledger!Opens, Ledger!Starts
    <3> QED
      BY <2>1, <3>2 DEF Ledger!Lawful, Ledger!NoEntry
  <2> QED
    BY <2>1, <2>2, <2>3 DEF Ledger!NoEntry
<1> QED
  BY <1>2, MoveOfPlan

\* Every plan Settle gives a status to keeps its actions.
LEMMA SettleActions ==
  ASSUME TypeOK, NEW c \in Calls, NEW plan \in Plan, Settle(c, plan)
  PROVE  plans'[c].actions = plan.actions /\ \A d \in Calls \ {c} : plans'[d] = plans[d]
  BY DEF Settle, TypeOK, Plan

LEMMA ConcludeActions ==
  ASSUME TypeOK, NEW c \in Calls, NEW plan \in Plan, Conclude(c, plan)
  PROVE  plans'[c].actions = plan.actions /\ \A d \in Calls \ {c} : plans'[d] = plans[d]
  BY DEF Conclude, TypeOK, Plan

\* What the loop does to the actions: it starts one it may start, or puts the
\* pending ones left over under approval.
LEMMA LoopActions ==
  ASSUME TypeOK, NEW c \in Calls, NEW plan \in Plan, NEW from, NEW count \in Nat,
         ContinueAutoLoop(c, plan, from, count)
  PROVE  /\ \A d \in Calls \ {c} : plans'[d] = plans[d]
         /\ \/ \E i \in AutoReady(plan, from) : plans'[c].actions = Begun(plan, i, "auto").actions
            \/ plans'[c].actions = PutUnderApproval(plan.actions, AutoReady(plan, from))
<1>1. CASE StartNextAuto(c, plan, from, count)
  BY <1>1 DEF StartNextAuto, TypeOK
<1>2. CASE EndAutoLoop(c, plan, from, count)
  <2> DEFINE p == [plan EXCEPT !.actions = PutUnderApproval(plan.actions, AutoReady(plan, from)),
                               !.autoCount = count]
  <2>1. Settle(c, p)
    BY <1>2 DEF EndAutoLoop
  <2>2. p \in Plan /\ p.actions = PutUnderApproval(plan.actions, AutoReady(plan, from))
    BY GatedType
  <2> HIDE DEF p
  <2> QED
    BY <2>1, <2>2, SettleActions
<1> QED
  BY <1>1, <1>2 DEF ContinueAutoLoop

\* A step of the trigger moves one plan or none.
LEMMA TriggerMoves ==
  ASSUME IInv, TypeOK', NEW c \in Calls, TriggerStep(c)
  PROVE  Ledger!Next \/ UNCHANGED ledgerView
<1> Kept(c) /\ TypeOK /\ plans[c] \in Plan
  BY DEF IInv, TypeOK
<1>1. CASE Refuse(c) \/ Admit(c) \/ IncidentMissing(c) \/ IncidentFetched(c) \/ Simulated(c)
  <2>1. plans' = plans
    BY <1>1 DEF Refuse, Admit, IncidentMissing, IncidentFetched, Simulated
  <2> QED
    BY <2>1, SameLedger
<1>2. CASE Planned(c)
  <2>1. PICK draft \in Drafts[c] :
          \/ ContinueAutoLoop(c, NewPlan(c, draft), 1, 0)
          \/ Settle(c, NewPlan(c, draft))
    BY <1>2 DEF Planned
  <2> DEFINE plan == NewPlan(c, draft)
  <2>2. plan \in Plan
    BY NewPlanType
  <2>3. \A i \in DOMAIN plan.actions :
          plan.actions[i].status = "pending" /\ plan.actions[i].by = "nobody"
    BY DEF NewPlan, NoPlan
  <2> HIDE DEF plan
  <2>4. plans[c] = NoPlan
    BY <1>2 DEF Planned, Kept, CallKept, Early
  <2>5. /\ \A d \in Calls \ {c} : plans'[d] = plans[d]
        /\ \/ \E i \in AutoReady(plan, 1) : plans'[c].actions = Begun(plan, i, "auto").actions
           \/ plans'[c].actions = PutUnderApproval(plan.actions, AutoReady(plan, 1))
           \/ plans'[c].actions = plan.actions
    BY <2>1, <2>2, LoopActions, SettleActions DEF plan
  <2>6. CASE plans'[c].actions = plan.actions
    BY <2>3, <2>4, <2>5, <2>6, OpenMoves
  <2>7. CASE plans'[c].actions = PutUnderApproval(plan.actions, AutoReady(plan, 1))
    <3>1. \A i \in DOMAIN plan.actions : plan.actions[i] \in Action
      BY <2>2 DEF Plan
    <3>2. /\ DOMAIN plans'[c].actions = DOMAIN plan.actions
          /\ \A i \in DOMAIN plan.actions : /\ plans'[c].actions[i].status = "pending"
                                            /\ plans'[c].actions[i].by = "nobody"
      BY <2>3, <2>7, <3>1 DEF PutUnderApproval, Action
    <3> QED
      BY <2>4, <2>5, <3>2, OpenMoves
  <2>8. CASE \E i \in AutoReady(plan, 1) : plans'[c].actions = Begun(plan, i, "auto").actions
    <3>1. PICK i \in AutoReady(plan, 1) : plans'[c].actions = Begun(plan, i, "auto").actions
      BY <2>8
    <3>2. i \in DOMAIN plan.actions /\ ~plan.actions[i].gated
      BY DEF AutoReady
    <3>3. /\ DOMAIN plans'[c].actions = DOMAIN plan.actions
          /\ \A j \in DOMAIN plan.actions : j # i => plans'[c].actions[j] = plan.actions[j]
          /\ ~plans'[c].actions[i].gated /\ plans'[c].actions[i].by = "auto"
          /\ plans'[c].actions[i].status \in {"executing", "failed"}
      BY <2>2, <3>1, <3>2, BegunFacts
    <3>4. ASSUME NEW j \in DOMAIN plans'[c].actions
          PROVE  LET a == plans'[c].actions[j]
                 IN  \/ a.status = "pending" /\ a.by = "nobody"
                     \/ a.status \in {"executing", "failed"} /\ a.by = "auto" /\ ~a.gated
      BY <2>3, <3>3
    <3> QED
      BY <2>4, <2>5, <3>4, OpenMoves
  <2> QED
    BY <2>5, <2>6, <2>7, <2>8
<1>3. CASE AutoActionDone(c)
  <2> DEFINE i == call[c].at
  <2>1. PICK status \in {"completed", "failed"} :
          plans' = [plans EXCEPT ![c] = WithStatus(plans[c], i, status)]
    BY <1>3 DEF AutoActionDone, Replied
  <2>2. i \in DOMAIN plans[c].actions /\ plans[c].actions[i].status = "executing"
    BY <1>3 DEF AutoActionDone, Kept, CallKept
  <2>3. /\ plans'[c] = WithStatus(plans[c], i, status)
        /\ \A d \in Calls \ {c} : plans'[d] = plans[d]
    BY <2>1 DEF TypeOK
  <2> QED
    BY <2>2, <2>3, StatusMoves
<1>4. CASE CooldownOver(c)
  <2> DEFINE from == call[c].at + 1
  <2>1. /\ \A d \in Calls \ {c} : plans'[d] = plans[d]
        /\ \/ \E i \in AutoReady(plans[c], from) : plans'[c].actions = Begun(plans[c], i, "auto").actions
           \/ plans'[c].actions = PutUnderApproval(plans[c].actions, AutoReady(plans[c], from))
    <3>1. call[c].count \in Nat
      BY DEF TypeOK, Call
    <3> QED
      BY <1>4, <3>1, LoopActions DEF CooldownOver
  <2>2. CASE \E i \in AutoReady(plans[c], from) : plans'[c].actions = Begun(plans[c], i, "auto").actions
    BY <2>1, <2>2, StartMoves DEF AutoReady
  <2>3. CASE plans'[c].actions = PutUnderApproval(plans[c].actions, AutoReady(plans[c], from))
    <3>1. \A j \in DOMAIN plans[c].actions : plans[c].actions[j] \in Action
      BY DEF Plan
    <3>2. /\ DOMAIN plans'[c].actions = DOMAIN plans[c].actions
          /\ \A j \in DOMAIN plans[c].actions :
               LET a == plans[c].actions[j]
                   b == plans'[c].actions[j]
               IN  /\ b.status = a.status /\ b.by = a.by
                   /\ b.gated = a.gated \/ (a.status = "pending" /\ b.gated)
      <4>1. DOMAIN plans'[c].actions = DOMAIN plans[c].actions
        BY <2>3 DEF PutUnderApproval
      <4>2. ASSUME NEW j \in DOMAIN plans[c].actions
            PROVE  LET a == plans[c].actions[j]
                       b == plans'[c].actions[j]
                   IN  /\ b.status = a.status /\ b.by = a.by
                       /\ b.gated = a.gated \/ (a.status = "pending" /\ b.gated)
        <5> DEFINE a == plans[c].actions[j]
                   left == AutoReady(plans[c], from)
        <5>1. a \in Action /\ plans'[c].actions[j] = [a EXCEPT !.gated = a.gated \/ j \in left]
          BY <2>3, <3>1 DEF PutUnderApproval
        <5>2. CASE j \in left
          BY <5>1, <5>2 DEF Action, AutoReady
        <5>3. CASE j \notin left
          <6>1. (a.gated \/ j \in left) = a.gated
            BY <5>1, <5>3 DEF Action
          <6> HIDE DEF left
          <6> QED
            BY <5>1, <6>1 DEF Action
        <5> QED
          BY <5>2, <5>3
      <4> QED
        BY <4>1, <4>2
    <3>3. plans'[c] \in Plan
      BY DEF TypeOK
    <3>4. \A s \in Slots : /\ Ledger!Lawful(ledgerOf(plans[c])[s], ledgerOf(plans'[c])[s])
                           /\ ledgerOf(plans'[c])[s].status = ledgerOf(plans[c])[s].status
      BY <3>2, <3>3, KeepsLawful
    <3> QED
      BY <2>1, <3>4, MoveOfPlan
  <2> QED
    BY <2>1, <2>2, <2>3
<1> QED
  BY <1>1, <1>2, <1>3, <1>4 DEF TriggerStep

\* A decision, and the reply to an approved action, move one action of a plan.
LEMMA DecisionMoves ==
  ASSUME IInv, TypeOK', NEW c \in Calls, NEW i \in Slots, Decide(c, i) \/ ApprovedActionDone(c, i)
  PROVE  Ledger!Next
<1> TypeOK /\ plans[c] \in Plan
  BY DEF IInv, TypeOK
<1>1. i \in DOMAIN plans[c].actions
  BY DEF Decide, Approve, Veto, ApprovedActionDone, Indices
<1>2. CASE Veto(c, i)
  <2>1. WithStatus(plans[c], i, "vetoed") \in Plan
    BY StatusType DEF ActionStatus
  <2>2. Conclude(c, WithStatus(plans[c], i, "vetoed")) /\ plans[c].actions[i].status = "pending"
    BY <1>2 DEF Veto
  <2>3. /\ plans'[c].actions = WithStatus(plans[c], i, "vetoed").actions
        /\ \A d \in Calls \ {c} : plans'[d] = plans[d]
    BY <2>1, <2>2, ConcludeActions
  <2> QED
    BY <1>1, <2>2, <2>3, StatusMoves
<1>3. CASE Approve(c, i)
  <2> DEFINE b == Begun(plans[c], i, "analyst")
             p == [b EXCEPT !.humanCount = plans[c].humanCount + 1]
  <2>1. plans[c].actions[i].status = "pending"
    BY <1>3 DEF Approve
  <2>2. b \in Plan /\ plans[c].humanCount + 1 \in Nat
    <3>1. b \in Plan
      BY <1>1, BegunType
    <3>2. plans[c].humanCount + 1 \in Nat
      BY DEF Plan
    <3> QED
      BY <3>1, <3>2
  <2>3. \/ Conclude(c, p)
        \/ plans' = [plans EXCEPT ![c] = p]
    BY <1>3 DEF Approve
  <2> HIDE DEF b
  <2>4. p \in Plan /\ p.actions = b.actions
    BY <2>2 DEF Plan
  <2> HIDE DEF p
  <2>5. plans'[c].actions = p.actions /\ \A d \in Calls \ {c} : plans'[d] = plans[d]
    BY <2>3, <2>4, ConcludeActions DEF TypeOK
  <2> QED
    BY <1>1, <2>1, <2>4, <2>5, StartMoves DEF b
<1>4. CASE ApprovedActionDone(c, i)
  <2>1. PICK status \in {"completed", "failed"} : Conclude(c, WithStatus(plans[c], i, status))
    BY <1>4 DEF ApprovedActionDone, Replied
  <2>2. WithStatus(plans[c], i, status) \in Plan
    BY StatusType DEF ActionStatus
  <2>3. /\ plans'[c].actions = WithStatus(plans[c], i, status).actions
        /\ \A d \in Calls \ {c} : plans'[d] = plans[d]
    BY <2>1, <2>2, ConcludeActions
  <2>4. plans[c].actions[i].status = "executing"
    BY <1>4 DEF ApprovedActionDone
  <2> QED
    BY <1>1, <2>3, <2>4, StatusMoves
<1> QED
  BY <1>2, <1>3, <1>4 DEF Decide

\* A verdict leaves the actions alone; a rollback moves one completed action.
LEMMA VerifyMoves ==
  ASSUME IInv, TypeOK', NEW c \in Calls, NEW k \in Spawners, VerifyStep(c, k)
  PROVE  Ledger!Next \/ UNCHANGED ledgerView
<1> Kept(c) /\ TypeOK /\ plans[c] \in Plan
  BY DEF IInv, TypeOK
<1>1. CASE VerdictPassed(c, k) \/ VerdictFailed(c, k) \/ VerdictRaised(c, k)
  <2>1. /\ plans'[c].actions = plans[c].actions
        /\ \A d \in Calls \ {c} : plans'[d] = plans[d]
    BY <1>1 DEF VerdictPassed, VerdictFailed, VerdictRaised, TypeOK, Plan
  <2> QED
    BY <2>1, SameLedger
<1>2. CASE RollbackReply(c, k)
  <2>1. PICK i \in Slots :
          \E status \in {"rolled_back", plans[c].actions[i].status} :
            /\ i \in task[c][k].todo
            /\ \/ plans' = [plans EXCEPT ![c] = WithStatus(plans[c], i, status)]
               \/ plans' = [plans EXCEPT ![c] =
                             [WithStatus(plans[c], i, status) EXCEPT !.status = "rolled_back"]]
    BY <1>2 DEF RollbackReply, RollsBack
  <2>2. i \in DOMAIN plans[c].actions /\ plans[c].actions[i].status \in {"completed", "rolled_back"}
    BY <1>2, <2>1 DEF RollbackReply, Kept, TasksKept
  <2>3. PICK status \in {"completed", "rolled_back"} :
          /\ status \in {"rolled_back", plans[c].actions[i].status}
          /\ \/ plans' = [plans EXCEPT ![c] = WithStatus(plans[c], i, status)]
             \/ plans' = [plans EXCEPT ![c] =
                           [WithStatus(plans[c], i, status) EXCEPT !.status = "rolled_back"]]
    BY <2>1, <2>2
  <2>4. WithStatus(plans[c], i, status) \in Plan
    BY StatusType DEF ActionStatus
  <2>5. /\ plans'[c].actions = WithStatus(plans[c], i, status).actions
        /\ \A d \in Calls \ {c} : plans'[d] = plans[d]
    BY <2>3, <2>4 DEF TypeOK, Plan
  <2> QED
    BY <2>2, <2>3, <2>5, StatusMoves
<1> QED
  BY <1>1, <1>2 DEF VerifyStep

LEMMA LedgerStep ==
  ASSUME IInv, TypeOK', [Next]_vars
  PROVE  [Ledger!Next]_ledgerView
<1> TypeOK
  BY DEF IInv
<1>1. CASE \E c \in Calls : TriggerStep(c)
  BY <1>1, TriggerMoves
<1>2. CASE \E c \in Calls, i \in Slots : Decide(c, i) \/ ApprovedActionDone(c, i)
  BY <1>2, DecisionMoves
<1>3. CASE \E c \in Calls, k \in Spawners : VerifyStep(c, k)
  BY <1>3, VerifyMoves
<1>4. CASE \/ \E c \in Calls, i \in Slots : Lands(c, i)
           \/ \E c \in Calls, k \in Spawners : RollbackLands(c, k)
           \/ Quiescent \/ UNCHANGED vars
  <2>1. plans' = plans
    BY <1>4 DEF Lands, RollbackLands, Quiescent, vars
  <2> QED
    BY <2>1, SameLedger
<1>5. CASE Restart
  <2>1. \A c \in Calls : DOMAIN plans'[c].actions = {}
    BY <1>5 DEF Restart, NoPlan
  <2>2. Ledger!Lose
    BY <2>1 DEF Ledger!Lose, Ledger!NoEntry, ledgerView, ledgerOf
  <2> QED
    BY <2>2 DEF Ledger!Next
<1> QED
  BY <1>1, <1>2, <1>3, <1>4, <1>5 DEF Next

LEMMA LedgerInit == Init => Ledger!Init
<1>1. DOMAIN NoPlan.actions = {}
  BY DEF NoPlan
<1> QED
  BY <1>1 DEF Init, Ledger!Init, Ledger!NoEntry, ledgerView, ledgerOf

\* The orchestrator implements the ledger: no action is started twice, or
\* without the approval it needs, or after its veto, and each step of a
\* coroutine decides one action of one plan.
THEOREM Refinement == Spec => ImplementsLedger
<1>1. Init => Ledger!Init
  BY LedgerInit
<1>2. IInv /\ IInv' /\ [Next]_vars => [Ledger!Next]_ledgerView
  BY LedgerStep DEF IInv
<1> QED
  BY <1>1, <1>2, Inductive, PTL DEF Spec, ImplementsLedger, Ledger!Spec

-----------------------------------------------------------------------------
(* What the planner decided of an action outlasts everything that is done   *)
(* to the plan: the gate holds for the planner's word, not only for the     *)
(* flag the action carries by then.                                         *)

\* The kind of an action is the draft's, and approval is never taken back.
Descends(actions, draft) ==
  /\ DOMAIN actions = DOMAIN draft
  /\ \A i \in DOMAIN draft : /\ actions[i].kind = draft[i].kind
                             /\ draft[i].gated => actions[i].gated

Drafted(c) ==
  DOMAIN plans[c].actions # {} => \E draft \in Drafts[c] : Descends(plans[c].actions, draft)

DraftKept == \A c \in Calls : Drafted(c)

\* From one list of actions to the next.
Continues(actions, later) ==
  /\ DOMAIN later = DOMAIN actions
  /\ \A i \in DOMAIN actions : /\ later[i].kind = actions[i].kind
                               /\ actions[i].gated => later[i].gated

LEMMA ContinuedDraft ==
  ASSUME NEW actions, NEW later, NEW draft, Descends(actions, draft), Continues(actions, later)
  PROVE  Descends(later, draft)
  BY DEF Descends, Continues

LEMMA BegunContinues ==
  ASSUME NEW plan \in Plan, NEW i \in DOMAIN plan.actions, NEW who \in {"auto", "analyst"}
  PROVE  Continues(plan.actions, Begun(plan, i, who).actions)
<1> DEFINE p == Begun(plan, i, who)
<1>1. /\ DOMAIN p.actions = DOMAIN plan.actions
      /\ \A j \in DOMAIN plan.actions : j # i => p.actions[j] = plan.actions[j]
      /\ p.actions[i].kind = plan.actions[i].kind /\ p.actions[i].gated = plan.actions[i].gated
  BY BegunFacts
<1> HIDE DEF p
<1>2. \A j \in DOMAIN plan.actions : /\ p.actions[j].kind = plan.actions[j].kind
                                     /\ p.actions[j].gated = plan.actions[j].gated
  BY <1>1
<1> QED
  BY <1>1, <1>2 DEF Continues, p

LEMMA StatusContinues ==
  ASSUME NEW plan \in Plan, NEW i \in DOMAIN plan.actions, NEW status
  PROVE  Continues(plan.actions, WithStatus(plan, i, status).actions)
<1> DEFINE p == WithStatus(plan, i, status)
<1>1. /\ DOMAIN p.actions = DOMAIN plan.actions
      /\ \A j \in DOMAIN plan.actions : j # i => p.actions[j] = plan.actions[j]
      /\ p.actions[i].kind = plan.actions[i].kind /\ p.actions[i].gated = plan.actions[i].gated
  BY StatusFacts
<1> HIDE DEF p
<1>2. \A j \in DOMAIN plan.actions : /\ p.actions[j].kind = plan.actions[j].kind
                                     /\ p.actions[j].gated = plan.actions[j].gated
  BY <1>1
<1> QED
  BY <1>1, <1>2 DEF Continues, p

LEMMA LimitContinues ==
  ASSUME NEW plan \in Plan, NEW left
  PROVE  Continues(plan.actions, PutUnderApproval(plan.actions, left))
<1> DEFINE later == PutUnderApproval(plan.actions, left)
<1>1. DOMAIN later = DOMAIN plan.actions
  BY DEF PutUnderApproval
<1>2. ASSUME NEW i \in DOMAIN plan.actions
      PROVE  /\ later[i].kind = plan.actions[i].kind
             /\ plan.actions[i].gated => later[i].gated
  <2> DEFINE a == plan.actions[i]
  <2>1. a \in Action /\ later[i] = [a EXCEPT !.gated = a.gated \/ i \in left]
    BY DEF PutUnderApproval, Plan
  <2> HIDE DEF later
  <2> QED
    BY <2>1 DEF Action
<1> QED
  BY <1>1, <1>2 DEF Continues

LEMMA NewPlanDescends ==
  ASSUME NEW c \in Calls, NEW draft \in Drafts[c]
  PROVE  Descends(NewPlan(c, draft).actions, draft)
  BY DEF Descends, NewPlan, NoPlan

\* A plan moves on and the others stay.
LEMMA DraftFrame ==
  ASSUME DraftKept, NEW c \in Calls, Drafted(c)',
         \A d \in Calls \ {c} : plans'[d] = plans[d]
  PROVE  DraftKept'
<1>1. ASSUME NEW d \in Calls \ {c} PROVE Drafted(d)'
  BY <1>1 DEF DraftKept, Drafted
<1> QED
  BY <1>1 DEF DraftKept

LEMMA PlanGoesOn ==
  ASSUME DraftKept, NEW c \in Calls, Continues(plans[c].actions, plans'[c].actions)
  PROVE  Drafted(c)'
<1> SUFFICES ASSUME DOMAIN plans'[c].actions # {}
             PROVE  \E draft \in Drafts[c] : Descends(plans'[c].actions, draft)
  BY DEF Drafted
<1>1. DOMAIN plans[c].actions # {}
  BY DEF Continues
<1>2. PICK draft \in Drafts[c] : Descends(plans[c].actions, draft)
  BY <1>1 DEF DraftKept, Drafted
<1> QED
  BY <1>2, ContinuedDraft

\* What a step does to the lists of actions.
LEMMA TriggerKeepsDraft ==
  ASSUME IInv, TypeOK', DraftKept, NEW c \in Calls, TriggerStep(c)
  PROVE  DraftKept'
<1> TypeOK /\ plans[c] \in Plan /\ Kept(c)
  BY DEF IInv, TypeOK
<1>1. CASE Refuse(c) \/ Admit(c) \/ IncidentMissing(c) \/ IncidentFetched(c) \/ Simulated(c)
  <2>1. plans' = plans
    BY <1>1 DEF Refuse, Admit, IncidentMissing, IncidentFetched, Simulated
  <2> QED
    BY <2>1 DEF DraftKept, Drafted
<1>2. CASE Planned(c)
  <2>1. PICK draft \in Drafts[c] :
          \/ ContinueAutoLoop(c, NewPlan(c, draft), 1, 0)
          \/ Settle(c, NewPlan(c, draft))
    BY <1>2 DEF Planned
  <2> DEFINE plan == NewPlan(c, draft)
  <2>2. plan \in Plan /\ Descends(plan.actions, draft)
    BY NewPlanType, NewPlanDescends
  <2> HIDE DEF plan
  <2>3. /\ \A d \in Calls \ {c} : plans'[d] = plans[d]
        /\ \/ \E i \in AutoReady(plan, 1) : plans'[c].actions = Begun(plan, i, "auto").actions
           \/ plans'[c].actions = PutUnderApproval(plan.actions, AutoReady(plan, 1))
           \/ plans'[c].actions = plan.actions
    BY <2>1, <2>2, LoopActions, SettleActions DEF plan
  <2>4. Descends(plans'[c].actions, draft)
    <3>1. CASE \E i \in AutoReady(plan, 1) : plans'[c].actions = Begun(plan, i, "auto").actions
      BY <2>2, <3>1, BegunContinues, ContinuedDraft DEF AutoReady
    <3>2. CASE plans'[c].actions = PutUnderApproval(plan.actions, AutoReady(plan, 1))
      BY <2>2, <3>2, LimitContinues, ContinuedDraft
    <3> QED
      BY <2>2, <2>3, <3>1, <3>2
  <2>5. Drafted(c)'
    BY <2>4 DEF Drafted
  <2> QED
    BY <2>3, <2>5, DraftFrame
<1>3. CASE AutoActionDone(c)
  <2> DEFINE i == call[c].at
  <2>1. PICK status \in {"completed", "failed"} :
          plans' = [plans EXCEPT ![c] = WithStatus(plans[c], i, status)]
    BY <1>3 DEF AutoActionDone, Replied
  <2>2. i \in DOMAIN plans[c].actions /\ plans[c].actions[i].status = "executing"
    BY <1>3 DEF AutoActionDone, Kept, CallKept
  <2>3. /\ plans'[c] = WithStatus(plans[c], i, status)
        /\ \A d \in Calls \ {c} : plans'[d] = plans[d]
    BY <2>1 DEF TypeOK
  <2>4. Continues(plans[c].actions, plans'[c].actions)
    BY <2>2, <2>3, StatusContinues
  <2> QED
    BY <2>2, <2>3, <2>4, PlanGoesOn, DraftFrame
<1>4. CASE CooldownOver(c)
  <2> DEFINE from == call[c].at + 1
  <2>1. /\ \A d \in Calls \ {c} : plans'[d] = plans[d]
        /\ \/ \E i \in AutoReady(plans[c], from) : plans'[c].actions = Begun(plans[c], i, "auto").actions
           \/ plans'[c].actions = PutUnderApproval(plans[c].actions, AutoReady(plans[c], from))
    <3>1. call[c].count \in Nat
      BY DEF TypeOK, Call
    <3> QED
      BY <1>4, <3>1, LoopActions DEF CooldownOver
  <2>2. Continues(plans[c].actions, plans'[c].actions)
    BY <2>1, BegunContinues, LimitContinues DEF AutoReady
  <2> QED
    BY <2>1, <2>2, PlanGoesOn, DraftFrame
<1> QED
  BY <1>1, <1>2, <1>3, <1>4 DEF TriggerStep

LEMMA DecisionKeepsDraft ==
  ASSUME IInv, DraftKept, NEW c \in Calls, NEW i \in Slots, Decide(c, i) \/ ApprovedActionDone(c, i)
  PROVE  DraftKept'
<1> TypeOK /\ plans[c] \in Plan
  BY DEF IInv, TypeOK
<1>1. i \in DOMAIN plans[c].actions
  BY DEF Decide, Approve, Veto, ApprovedActionDone, Indices
<1>2. ASSUME NEW status \in ActionStatus, Conclude(c, WithStatus(plans[c], i, status))
      PROVE  DraftKept'
  <2>1. WithStatus(plans[c], i, status) \in Plan
    BY <1>1, StatusType
  <2>2. /\ plans'[c].actions = WithStatus(plans[c], i, status).actions
        /\ \A d \in Calls \ {c} : plans'[d] = plans[d]
    BY <1>2, <2>1, ConcludeActions
  <2> QED
    BY <1>1, <2>2, StatusContinues, PlanGoesOn, DraftFrame
<1>3. CASE Veto(c, i)
  BY <1>2, <1>3 DEF Veto, ActionStatus
<1>4. CASE ApprovedActionDone(c, i)
  BY <1>2, <1>4 DEF ApprovedActionDone, Replied, ActionStatus
<1>5. CASE Approve(c, i)
  <2> DEFINE b == Begun(plans[c], i, "analyst")
             p == [b EXCEPT !.humanCount = plans[c].humanCount + 1]
  <2>1. b \in Plan
    BY <1>1, BegunType
  <2>2. plans[c].humanCount + 1 \in Nat
    BY DEF Plan
  <2>3. \/ Conclude(c, p)
        \/ plans' = [plans EXCEPT ![c] = p]
    BY <1>5 DEF Approve
  <2> HIDE DEF b
  <2>4. p \in Plan /\ p.actions = b.actions
    BY <2>1, <2>2 DEF Plan
  <2> HIDE DEF p
  <2>5. plans'[c].actions = b.actions /\ \A d \in Calls \ {c} : plans'[d] = plans[d]
    BY <2>3, <2>4, ConcludeActions DEF TypeOK
  <2> QED
    BY <1>1, <2>5, BegunContinues, PlanGoesOn, DraftFrame DEF b
<1> QED
  BY <1>3, <1>4, <1>5 DEF Decide

LEMMA VerifyKeepsDraft ==
  ASSUME IInv, DraftKept, NEW c \in Calls, NEW k \in Spawners, VerifyStep(c, k)
  PROVE  DraftKept'
<1> Kept(c) /\ TypeOK /\ plans[c] \in Plan
  BY DEF IInv, TypeOK
<1>1. CASE VerdictPassed(c, k) \/ VerdictFailed(c, k) \/ VerdictRaised(c, k)
  <2>1. /\ plans'[c].actions = plans[c].actions
        /\ \A d \in Calls \ {c} : plans'[d] = plans[d]
    BY <1>1 DEF VerdictPassed, VerdictFailed, VerdictRaised, TypeOK, Plan
  <2>2. Drafted(c)'
    BY <2>1 DEF DraftKept, Drafted
  <2> QED
    BY <2>1, <2>2, DraftFrame
<1>2. CASE RollbackReply(c, k)
  <2>1. PICK i \in Slots :
          \E status \in {"rolled_back", plans[c].actions[i].status} :
            /\ i \in task[c][k].todo
            /\ \/ plans' = [plans EXCEPT ![c] = WithStatus(plans[c], i, status)]
               \/ plans' = [plans EXCEPT ![c] =
                             [WithStatus(plans[c], i, status) EXCEPT !.status = "rolled_back"]]
    BY <1>2 DEF RollbackReply, RollsBack
  <2>2. i \in DOMAIN plans[c].actions /\ plans[c].actions[i].status \in {"completed", "rolled_back"}
    BY <1>2, <2>1 DEF RollbackReply, Kept, TasksKept
  <2>3. PICK status \in {"completed", "rolled_back"} :
          \/ plans' = [plans EXCEPT ![c] = WithStatus(plans[c], i, status)]
          \/ plans' = [plans EXCEPT ![c] =
                        [WithStatus(plans[c], i, status) EXCEPT !.status = "rolled_back"]]
    BY <2>1, <2>2
  <2>4. WithStatus(plans[c], i, status) \in Plan
    BY <2>2, StatusType DEF ActionStatus
  <2>5. /\ plans'[c].actions = WithStatus(plans[c], i, status).actions
        /\ \A d \in Calls \ {c} : plans'[d] = plans[d]
    BY <2>3, <2>4 DEF TypeOK, Plan
  <2> QED
    BY <2>2, <2>5, StatusContinues, PlanGoesOn, DraftFrame
<1> QED
  BY <1>1, <1>2 DEF VerifyStep

LEMMA NextKeepsDraft ==
  ASSUME IInv, TypeOK', DraftKept, [Next]_vars
  PROVE  DraftKept'
<1>1. CASE \E c \in Calls : TriggerStep(c)
  BY <1>1, TriggerKeepsDraft
<1>2. CASE \E c \in Calls, i \in Slots : Decide(c, i) \/ ApprovedActionDone(c, i)
  BY <1>2, DecisionKeepsDraft
<1>3. CASE \E c \in Calls, k \in Spawners : VerifyStep(c, k)
  BY <1>3, VerifyKeepsDraft
<1>4. CASE \/ \E c \in Calls, i \in Slots : Lands(c, i)
           \/ \E c \in Calls, k \in Spawners : RollbackLands(c, k)
           \/ Quiescent \/ UNCHANGED vars
  <2>1. plans' = plans
    BY <1>4 DEF Lands, RollbackLands, Quiescent, vars
  <2> QED
    BY <2>1 DEF DraftKept, Drafted
<1>5. CASE Restart
  <2>1. \A c \in Calls : DOMAIN plans'[c].actions = {}
    BY <1>5 DEF Restart, NoPlan
  <2> QED
    BY <2>1 DEF DraftKept, Drafted
<1> QED
  BY <1>1, <1>2, <1>3, <1>4, <1>5 DEF Next

\* Every plan the orchestrator holds has the actions of one draft the planner
\* may produce for the call, in its order and of its kinds, and an action that
\* the planner put under approval is never released from it: not by the loop's
\* limit, a decision, a reply, a verification or a rollback.
THEOREM DraftKeptHolds == Spec => []DraftKept
<1>1. Init => DraftKept
  <2>1. DOMAIN NoPlan.actions = {}
    BY DEF NoPlan
  <2> QED
    BY <2>1 DEF Init, DraftKept, Drafted
<1>2. IInv /\ IInv' /\ DraftKept /\ [Next]_vars => DraftKept'
  BY NextKeepsDraft DEF IInv
<1> QED
  BY <1>1, <1>2, Inductive, PTL DEF Spec

\* What of a call's plan an analyst alone has started.
HumanOnly(Human) ==
  \A c \in Calls : \A i \in Indices(c) :
    LET action == plans[c].actions[i]
    IN  action.kind \in Human[c] /\ action.status \notin {"pending", "vetoed"} => action.by = "analyst"

\* The gate, from the planner to the adapters: if the planner puts every action
\* of certain kinds under approval in whatever it drafts for a call, then no
\* action of these kinds ever runs but by an analyst's hand, whatever the
\* automatic budget, the concurrent decisions, the verifications and restarts.
THEOREM HumanOnlyHolds ==
  ASSUME NEW CONSTANT Human,
         \A c \in Calls : \A draft \in Drafts[c] : \A i \in DOMAIN draft :
           draft[i].kind \in Human[c] => draft[i].gated
  PROVE  Spec => []HumanOnly(Human)
<1>1. DraftKept /\ AnalystGate => HumanOnly(Human)
  <2> SUFFICES ASSUME DraftKept, AnalystGate, NEW c \in Calls, NEW i \in Indices(c),
                      plans[c].actions[i].kind \in Human[c],
                      plans[c].actions[i].status \notin {"pending", "vetoed"}
               PROVE  plans[c].actions[i].by = "analyst"
    BY DEF HumanOnly
  <2>1. PICK draft \in Drafts[c] : Descends(plans[c].actions, draft)
    BY DEF DraftKept, Drafted, Indices
  <2>2. i \in DOMAIN draft /\ draft[i].kind \in Human[c]
    BY <2>1 DEF Descends, Indices
  <2>3. plans[c].actions[i].gated
    BY <2>1, <2>2 DEF Descends
  <2> QED
    BY <2>3 DEF AnalystGate
<1> QED
  BY <1>1, DraftKeptHolds, AnalystGateHolds, PTL
=============================================================================
