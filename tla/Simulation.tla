------------------------------ MODULE Simulation ------------------------------
(***************************************************************************)
(* simulator.py with the agents of archetypes.py and                       *)
(* defender_archetypes.py: attackers and defenders take turns in timesteps *)
(* over one environment. All agents of a side are gathered: each builds its *)
(* observation, waits for a model, and then acts on what the environment   *)
(* has become. Code between two awaits is one action here.                 *)
(*                                                                         *)
(* Several simulations may run on one environment one after the other      *)
(* (POST /risk-scores/refresh); Runs counts them.                          *)
(***************************************************************************)
EXTENDS AttackActions, DefenseActions

CONSTANTS
  Attackers,     \* attacker agents of a simulation
  Insiders,      \* those of the insider archetype
  Defenders,     \* defender agents, none if defenders are disabled
  Timesteps,     \* timesteps of a simulation
  Runs,          \* simulations on this environment
  Concurrency,   \* agents that may wait for the model at a time
  AttackPlays,   \* AttackPlays[a]: the actions the model may name to a
  DefensePlays   \* DefensePlays[d]: the actions the model may name to d

ASSUME SimulationAssumption ==
  /\ IsFiniteSet(Attackers) /\ IsFiniteSet(Defenders)
  /\ Attackers \cap Defenders = {} /\ Insiders \subseteq Attackers
  /\ Timesteps \in Nat \ {0} /\ Runs \in Nat \ {0} /\ Concurrency \in Nat \ {0}
  /\ AttackPlays \in [Attackers -> SUBSET Attacks]
  /\ DefensePlays \in [Defenders -> SUBSET Defenses]

Agents == Attackers \cup Defenders

VARIABLES
  env,       \* the environment
  baseline,  \* the hosts that had EDR when the simulation began (history)
  attacker,  \* the state of each attacker
  defender,  \* the state of each defender
  phase,     \* "attack", "defend", "reported"
  pc,        \* "waiting" for a slot, "deciding", "done"
  view,      \* what an agent observed before it asked the model:
             \* actions offered to an attacker, hosts known to a defender
  traces,    \* of this timestep's traces, those that were detected
  alerts,    \* what the defenders of this timestep are told
  queue,     \* escalation_queue
  filed,     \* the escalations among the results of this timestep's defenders
  step,      \* the timestep
  run,       \* the number of the simulation
  report     \* the last report

vars == <<env, baseline, attacker, defender, phase, pc, view, traces, alerts,
          queue, filed, step, run, report>>

(***************************************************************************)
(* A simulation begins.                                                    *)
(***************************************************************************)

Starting(a) == IF a \in Insiders THEN Insider ELSE Outsider

Newcomers == [a \in Attackers |-> Starting(a)]
Novices == [d \in Defenders |-> Novice]
Turn(side) == [x \in Agents |-> IF x \in side THEN "waiting" ELSE "done"]

NoReport == [run |-> 0]

Init ==
  /\ env = Loaded /\ baseline = Edr
  /\ attacker = Newcomers /\ defender = Novices
  /\ phase = "attack" /\ pc = Turn(Attackers)
  /\ view = [x \in Agents |-> {}]
  /\ traces = {} /\ alerts = {} /\ queue = {} /\ filed = {}
  /\ step = 1 /\ run = 1 /\ report = NoReport

\* The next simulation on the same environment, with new agents.
NextRun ==
  /\ phase = "reported" /\ run < Runs
  /\ run' = run + 1 /\ step' = 1 /\ phase' = "attack"
  /\ baseline' = env.edr
  /\ attacker' = Newcomers /\ defender' = Novices
  /\ pc' = Turn(Attackers)
  /\ report' = NoReport
  /\ UNCHANGED <<env, view, traces, alerts, queue, filed>>

(***************************************************************************)
(* The agents. A slot of the semaphore is held from the observation to the *)
(* end of the step.                                                        *)
(***************************************************************************)
Deciding == {x \in Agents : pc[x] = "deciding"}

Begin(x, seen) ==
  /\ pc[x] = "waiting" /\ Cardinality(Deciding) < Concurrency
  /\ pc' = [pc EXCEPT ![x] = "deciding"]
  /\ view' = [view EXCEPT ![x] = seen]
  /\ UNCHANGED <<env, baseline, attacker, defender, phase, traces, alerts, queue,
                 filed, step, run, report>>

Done(x) ==
  /\ pc' = [pc EXCEPT ![x] = "done"]
  /\ view' = [view EXCEPT ![x] = {}]

Observe(a) == phase = "attack" /\ a \in Attackers /\ Begin(a, Available(env, attacker[a]))

\* The rules an attacker falls back to when the model gives no usable answer.
\* The observation has no discovered_hosts, all_host_ips or hosts_with_cves, so
\* the rules about discovered hosts never apply; a missing target becomes the
\* first host in _step_agent.
AttackFallback(s, offered) ==
  IF s.compromised # {} /\ s.admin # {} /\ s.dumped = {} /\ "credential_dump" \in offered
  THEN {"credential_dump"} \X s.admin
  ELSE IF s.compromised # {} /\ s.admin = {} /\ "exploit_local_vuln" \in offered
  THEN {"exploit_local_vuln"} \X s.compromised
  ELSE {<<"do_nothing", FirstHost>>}

\* An answer counts if the action was offered; its target is not validated
\* (known_ips is empty), beyond being a host.
AttackDecisions(a) ==
  (AttackPlays[a] \cap view[a]) \X Hosts \cup AttackFallback(attacker[a], view[a])

Act(a) ==
  /\ phase = "attack" /\ a \in Attackers /\ pc[a] = "deciding"
  /\ \E d \in AttackDecisions(a) : \E o \in Execute(d[1], env, attacker[a], d[2]) :
       /\ env' = o.env
       /\ attacker' = [attacker EXCEPT ![a] = o.agent]
       /\ traces' = IF o.detected
                    THEN traces \cup {[target |-> d[2], stage |-> StageShown(d[1], env, d[2])]}
                    ELSE traces
  /\ Done(a)
  /\ UNCHANGED <<baseline, defender, phase, alerts, queue, filed, step, run, report>>

Watch(d) ==
  /\ phase = "defend" /\ d \in Defenders
  /\ Begin(d, Watched(env) \cup {al.target : al \in alerts})

\* high and critical alerts, escalations of others, any alerts, nothing
DefenseFallback(d) ==
  LET severe == {al.target : al \in {x \in alerts : x.severity \in {"high", "critical"}}}
      escalated == {q.target : q \in {x \in queue : x.from # d}}
      alerted == {al.target : al \in alerts}
  IN IF severe # {} THEN {"investigate_host"} \X severe
     ELSE IF escalated # {} THEN {"isolate_host"} \X escalated
     ELSE IF alerted # {} THEN {"acknowledge_alert"} \X alerted
     ELSE {"do_nothing"} \X (IF view[d] = {} THEN {FirstHost} ELSE view[d])

\* A target the defender does not know is replaced by one it knows.
DefenseDecisions(d) ==
  DefensePlays[d] \X (IF view[d] = {} THEN Hosts ELSE view[d]) \cup DefenseFallback(d)

Defend(d) ==
  /\ phase = "defend" /\ d \in Defenders /\ pc[d] = "deciding"
  /\ \E c \in DefenseDecisions(d) :
       /\ env' = Defended(c[1], env, c[2])
       /\ defender' = [defender EXCEPT ![d] = Credited(c[1], env, @, c[2])]
       /\ filed' = IF c[1] = "escalate" THEN filed \cup {[from |-> d, target |-> c[2]]} ELSE filed
  /\ Done(d)
  /\ UNCHANGED <<baseline, attacker, phase, traces, alerts, queue, step, run, report>>

(***************************************************************************)
(* Between the turns.                                                      *)
(***************************************************************************)

Severity(stage) ==
  CASE stage \in {8, 9, 10} -> "critical"
    [] stage \in {4, 5, 6} -> "high"
    [] stage \in {2, 3} -> "medium"
    [] OTHER -> "low"

\* _generate_alerts: what was detected on a host somebody watches now.
Alerts == {[target |-> tr.target, severity |-> Severity(tr.stage)] :
             tr \in {x \in traces : x.target \in Watched(env)}}

\* The part _build_defender_report adds up.
DefenderReport ==
  [isolated |-> UNION {defender[d].isolated : d \in Defenders},
   blocked |-> UNION {defender[d].blocked : d \in Defenders},
   edr |-> UNION {defender[d].edr : d \in Defenders},
   revoked |-> \E d \in Defenders : defender[d].revoked]

\* Mutant: the environment is reset before the report is made.
ReportMutant ==
  [run |-> run,
   campaigns |-> attacker, snapshot |-> Reset(env), defense |-> DefenderReport]

\* What _generate_report says of the agents and of the environment.
Report == [run |-> run, campaigns |-> attacker, snapshot |-> env, defense |-> DefenderReport]

\* The loop goes on to the next timestep, or the report is made and the
\* environment reset.
EndTimestep ==
  /\ traces' = {} /\ alerts' = {}
  /\ IF step < Timesteps
     THEN /\ step' = step + 1 /\ phase' = "attack" /\ pc' = Turn(Attackers)
          /\ UNCHANGED <<env, report>>
     ELSE /\ phase' = "reported" /\ report' = Report /\ env' = Reset(env)
          /\ UNCHANGED <<step, pc>>
  /\ UNCHANGED <<baseline, attacker, defender, view, run>>

EverybodyDone == \A x \in Agents : pc[x] = "done"

\* With defenders the alerts are raised and a new escalation queue is made.
AttackersDone ==
  /\ phase = "attack" /\ EverybodyDone
  /\ IF Defenders = {} THEN EndTimestep /\ UNCHANGED <<queue, filed>>
     ELSE /\ phase' = "defend" /\ pc' = Turn(Defenders)
          /\ alerts' = Alerts /\ queue' = {} /\ filed' = {}
          /\ UNCHANGED <<env, baseline, attacker, defender, view, traces, step, run, report>>

\* Only now are the escalations put in the queue of the timestep that is over.
DefendersDone ==
  /\ phase = "defend" /\ EverybodyDone
  /\ queue' = filed /\ UNCHANGED filed
  /\ EndTimestep

Over == phase = "reported" /\ run = Runs /\ UNCHANGED vars

Next ==
  \/ \E a \in Attackers : Observe(a) \/ Act(a)
  \/ \E d \in Defenders : Watch(d) \/ Defend(d)
  \/ AttackersDone \/ DefendersDone \/ NextRun \/ Over

Spec == Init /\ [][Next]_vars

\* A call of the model has a timeout and falls back to rules: a simulation that
\* was begun goes on.
FairSpec == Spec /\ WF_vars(Next)

(***************************************************************************)
(* Properties.                                                             *)
(***************************************************************************)

Sightings == [target : Hosts, severity : {"low", "medium", "high", "critical"}]
Escalations == [from : Defenders, target : Hosts]
TraceRecords == [target : Hosts, stage : 0..10]

\* Types of the variables of simulator.py's run.
TypeOK ==
  /\ env \in EnvState /\ baseline \in SUBSET Hosts
  /\ attacker \in [Attackers -> AgentState] /\ defender \in [Defenders -> DefenderState]
  /\ phase \in {"attack", "defend", "reported"}
  /\ pc \in [Agents -> {"waiting", "deciding", "done"}]
  /\ view \in [Agents -> SUBSET (Attacks \cup Hosts)]
  /\ traces \in SUBSET TraceRecords /\ alerts \in SUBSET Sightings
  /\ queue \in SUBSET Escalations /\ filed \in SUBSET Escalations
  /\ step \in 1..Timesteps /\ run \in 1..Runs

\* An agent's achievements form a kill chain, although its prerequisites are
\* about some host and its action is about whichever host the model names:
\* admin rights, persistence and bypassed EDR only on hosts it holds,
\* credentials only where it was admin, exfiltration only with a foothold on a
\* host worth it.
KillChain == \A a \in Attackers : Chained(attacker[a])

\* The environment and the agents tell one story: what a host shows is what
\* some agent achieved there, except that an insider's first host looks clean.
GroundTruth ==
  phase # "reported" =>
    LET All(part) == UNION {attacker[a][part] : a \in Attackers} IN
    /\ env.compromised \subseteq All("compromised")
    /\ All("compromised") \subseteq env.compromised \cup Inside
    /\ env.admin = All("admin")
    /\ env.persistence = All("persistence")
    /\ env.dumped = All("dumped")

\* Each containment has one author: two defenders who answer one alert together
\* never both count a block, and together they account for all there is.
Authorship ==
  /\ \A c, d \in Defenders : c # d =>
       /\ defender[c].blocked \cap defender[d].blocked = {}
       /\ defender[c].isolated \cap defender[d].isolated = {}
       /\ defender[c].edr \cap defender[d].edr = {}
       /\ ~(defender[c].revoked /\ defender[d].revoked)
  /\ phase # "reported" =>
       LET All(part) == UNION {defender[d][part] : d \in Defenders} IN
       /\ env.blocked = All("blocked") /\ env.isolated = All("isolated")
       /\ env.edr = baseline \cup All("edr") /\ baseline \cap All("edr") = {}
       /\ env.revoked <=> \E d \in Defenders : defender[d].revoked

\* The state is well formed, and the environment, the attackers and the
\* defenders agree on what was achieved and by whom.
OneStory == TypeOK /\ GroundTruth /\ Authorship

\* A report's summary of the defenders agrees with its snapshot of the
\* environment, and every host of a campaign is compromised in the snapshot or
\* is where insiders start.
ReportConsistent ==
  report # NoReport =>
    /\ report.defense.isolated = report.snapshot.isolated
    /\ report.defense.blocked = report.snapshot.blocked
    /\ (report.defense.revoked <=> report.snapshot.revoked)
    /\ report.defense.edr \subseteq report.snapshot.edr
    /\ \A a \in Attackers :
         report.campaigns[a].compromised \subseteq report.snapshot.compromised \cup Inside

NothingGainedThere ==
  LET closed == env.blocked \cup env.isolated IN
  /\ env'.compromised \cap closed = env.compromised \cap closed
  /\ env'.admin \cap closed = env.admin \cap closed
  /\ env'.persistence \cap closed = env.persistence \cap closed
  /\ env'.dumped \cap closed = env.dumped \cap closed
  /\ closed \subseteq env'.blocked \cup env'.isolated
  /\ env.revoked => env'.dumped = env.dumped

\* Once a host is blocked or isolated nobody gains anything there for the rest
\* of the simulation, and no containment is lifted; after a revocation no
\* credentials are dumped.
ContainmentHolds == [][phase' = "reported" \/ NothingGainedThere]_vars

\* environment.py: reset restores "all hosts to initial state".
ResetRestores == phase = "reported" => env = Loaded

(***************************************************************************)
(* What the repository says of the program, and the program does not do.   *)
(***************************************************************************)

\* defender_actions.py:287, "other defenders will see this escalation", and
\* simulator.py:211, "for next timestep": whatever is escalated before the last
\* timestep is in the queue while another defender decides, and in the timestep
\* after the one it was filed in.
EscalationsHeard ==
  \A q \in Escalations :
    \A t \in 1..(Timesteps - 1) :
      (q \in filed /\ phase = "defend" /\ step = t /\ Defenders # {q.from})
        ~> (q \in queue /\ step = t + 1 /\ \E d \in Deciding \cap Defenders : d # q.from)
=============================================================================
