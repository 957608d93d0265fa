---------------------------- MODULE DefensePlanner ----------------------------
(***************************************************************************)
(* planner.py and verification.py: from an incident to a plan, from the    *)
(* plan to the verdict on it. The orchestrator (ResponseOrchestrator) owns *)
(* what happens in between; here some number of the plan's actions is      *)
(* completed. A plan is a set: the list the code makes of it is ranked by  *)
(* score, and equal keys come from equal records.                          *)
(***************************************************************************)
EXTENDS ApprovalPolicy

CONSTANTS
  Addresses,    \* the addresses of hosts
  CriticalityOf,\* CriticalityOf[ip]: what the host is worth
  Containing,   \* Containing[ip]: the addresses whose text contains ip's
  Incidents,    \* the incidents: techniques, active, sources, dests
  Evidence,     \* the simulations: compromised, edr, mfa, weakest, rate
  Nowhere,      \* "0.0.0.0"
  Domain,       \* "malicious.domain"
  Threshold,    \* risk_reduction_threshold in percent
  None,         \* nothing yet
  Rates         \* success rates a re-simulation may report, in percent

Incident == [techniques : SUBSET (STRING \X STRING), active : BOOLEAN,
             sources : SUBSET Addresses, dests : SUBSET Addresses]

Flaws == {"CVE", "no EDR", "no MFA"}
Simulated == [compromised : SUBSET Addresses, edr : BOOLEAN, mfa : BOOLEAN,
              weakest : SUBSET (Addresses \X Flaws), rate : 0..100]

ASSUME PlannerAssumption ==
  /\ IsFiniteSet(Addresses) /\ Nowhere \notin Addresses /\ Domain \notin Addresses
  /\ CriticalityOf \in [Addresses -> Criticalities]
  /\ Containing \in [Addresses -> SUBSET Addresses]
  /\ \A i \in Incidents : i.active \in BOOLEAN /\ i.sources \subseteq Addresses
                          /\ i.dests \subseteq Addresses
  /\ Evidence \subseteq Simulated /\ None \notin Evidence
  /\ Threshold \in 1..100 /\ Rates \subseteq 0..100

VARIABLES
  phase,     \* "triggered", "simulated", "planned", "executed", "resimulated", "verified"
  incident,  \* what the correlation engine says of the incident
  known,     \* the hosts the request's environment describes
  evidence,  \* the simulation, or none
  plan,      \* the actions of the plan
  completed, \* how many of them were completed
  resim,     \* what the first track of the verification found
  verdict    \* its outcome

vars == <<phase, incident, known, evidence, plan, completed, resim, verdict>>

(***************************************************************************)
(* Scores and targets.                                                     *)
(***************************************************************************)
Containment == {"isolate_host", "block_ip", "revoke_credentials"}

\* A weak point counts for an address if its text mentions the address.
Weak(ev, ip, flaw) ==
  ip \in Addresses /\ \E h \in Containing[ip] : <<h, flaw>> \in ev.weakest

AddressesWeakness(ev, kind, ip) ==
  \/ kind = "deploy_edr" /\ Weak(ev, ip, "no EDR")
  \/ kind = "enable_mfa" /\ Weak(ev, ip, "no MFA")
  \/ kind = "patch_vulnerability" /\ Weak(ev, ip, "CVE")

\* _compute_impact_scores: only the victims are scored; others get 50.
Impact(i, ev, kind, ip) ==
  IF ip \notin i.dests /\ (i.dests # {} \/ ip # Nowhere) THEN 50
  ELSE IF ev = None
  THEN CASE kind \in Containment -> 70
         [] kind \in {"deploy_edr", "enable_mfa"} -> 60
         [] OTHER -> 50
  ELSE IF AddressesWeakness(ev, kind, ip) THEN 95
  ELSE IF ip \in ev.compromised THEN 90
  ELSE IF kind = "enable_mfa" /\ ev.mfa THEN 85
  ELSE IF kind = "deploy_edr" /\ ev.edr THEN 80
  ELSE 50

\* _compute_confidence
Confidence(i, ev, kind) ==
  IF kind \in ObserveOnly THEN 90
  ELSE 60 + (IF ev # None THEN 15 ELSE 0)
          + (IF i.active /\ kind \in Containment THEN 10 ELSE 0)

\* _select_targets: attackers' addresses are of low criticality whatever they
\* are, and a host nobody described is of medium criticality.
Targets(i, envHosts, kind) ==
  CASE kind = "block_ip" ->
         IF i.sources = {} THEN {<<Nowhere, "low">>} ELSE {<<ip, "low">> : ip \in i.sources}
    [] kind = "sinkhole_domain" -> {<<Domain, "low">>}
    [] OTHER ->
         IF i.dests = {} THEN {<<Nowhere, "medium">>}
         ELSE {<<ip, IF ip \in envHosts THEN CriticalityOf[ip] ELSE "medium">> : ip \in i.dests}

\* generate_plan
PlanFor(i, envHosts, ev) ==
  UNION {{Built(kind, t[1], t[2], Impact(i, ev, kind, t[1]), Confidence(i, ev, kind)) :
            t \in Targets(i, envHosts, kind)} :
         kind \in UniqueActions(i.techniques)}

Ungated(p) == {<<a.kind, a.target>> : a \in {b \in p : ~b.gated}}

(***************************************************************************)
(* The steps.                                                              *)
(***************************************************************************)
Init ==
  /\ phase = "triggered" /\ incident \in Incidents
  /\ known \in SUBSET incident.dests
  /\ evidence = None /\ plan = {} /\ completed = 0
  /\ resim = None /\ verdict = None

\* _run_simulation: skipped, failed, or any of the simulations.
RunSimulation ==
  /\ phase = "triggered" /\ phase' = "simulated"
  /\ evidence' \in {None} \cup Evidence
  /\ UNCHANGED <<incident, known, plan, completed, resim, verdict>>

GeneratePlan ==
  /\ phase = "simulated" /\ phase' = "planned"
  /\ plan' = PlanFor(incident, known, evidence)
  /\ UNCHANGED <<incident, known, evidence, completed, resim, verdict>>

Execute ==
  /\ phase = "planned" /\ phase' = "executed"
  /\ completed' \in 0..Cardinality(plan)
  /\ UNCHANGED <<incident, known, evidence, plan, resim, verdict>>

\* A rate of zero is taken for no rate at all.
PreRate == IF evidence = None THEN 50 ELSE IF evidence.rate = 0 THEN 50 ELSE evidence.rate

\* Mutant: the estimate counts the plan's actions, completed or not.
EstimateMutant ==
  LET guess == 10 * Cardinality(plan)
      capped == IF guess > 50 THEN 50 ELSE guess
  IN IF PreRate > capped THEN PreRate - capped ELSE 0

\* What is assumed when the re-simulation fails.
Estimate ==
  LET capped == IF completed > 5 THEN 50 ELSE 10 * completed
  IN IF PreRate > capped THEN PreRate - capped ELSE 0

\* _track_resimulation
Resimulate ==
  /\ phase = "executed" /\ phase' = "resimulated"
  /\ \/ \E r \in Rates : resim' = [measured |-> TRUE, rate |-> r]
     \/ resim' = [measured |-> FALSE, rate |-> Estimate]
  /\ UNCHANGED <<incident, known, evidence, plan, completed, verdict>>

Reduced == 100 * (PreRate - resim.rate) >= Threshold * PreRate

\* verify_plan: both tracks must be content.
Verdict(watched, continued) == [passed |-> Reduced /\ ~continued, watched |-> watched]

\* _track_monitoring and its verdict. The alerts of the sources are seen, or
\* not: there are none, or they cannot be fetched, which counts as none.
Verify ==
  /\ phase = "resimulated" /\ phase' = "verified"
  /\ \E watched, continued \in BOOLEAN :
       /\ continued => watched /\ incident.sources # {}
       /\ verdict' = Verdict(watched, continued)
  /\ UNCHANGED <<incident, known, evidence, plan, completed, resim>>

Finished == phase = "verified" /\ UNCHANGED vars

Next == RunSimulation \/ GeneratePlan \/ Execute \/ Resimulate \/ Verify \/ Finished

Spec == Init /\ [][Next]_vars

(***************************************************************************)
(* Properties.                                                             *)
(***************************************************************************)

PlannedAction == [kind : ActionTypes, target : Addresses \cup {Nowhere, Domain},
                  criticality : Criticalities, tier : Tiers, gated : BOOLEAN, score : Nat]

\* Types; a plan is a list of actions the orchestrator can take (DraftAction).
TypeOK ==
  /\ phase \in {"triggered", "simulated", "planned", "executed", "resimulated", "verified"}
  /\ incident \in Incidents /\ known \subseteq incident.dests
  /\ evidence \in {None} \cup Evidence
  /\ plan \subseteq PlannedAction /\ completed \in Nat
  /\ resim \in {None} \cup [measured : BOOLEAN, rate : 0..100]
  /\ verdict \in {None} \cup [passed : BOOLEAN, watched : BOOLEAN]

\* On a host the planner knows to be critical nothing runs without a human but
\* observation, whatever the confidence (the structural part of safety.py).
CriticalNeedsHuman ==
  \A a \in plan : ~a.gated /\ a.criticality = "critical" => a.kind \in ObserveOnly

\* Autonomy is earned: without a simulation only observation and, in an active
\* attack, the blocking of an attacker run alone; hosts are isolated and
\* credentials revoked without a human only with both, and on a host known to
\* be critical neither is.
AutonomyEarned == CriticalNeedsHuman /\
  \A a \in plan : ~a.gated =>
    \/ a.kind \in ObserveOnly
    \/ a.kind = "block_ip" /\ (evidence # None \/ incident.active)
    \/ a.kind \in LowBlast /\ evidence # None
    \/ a.kind \in Containment /\ evidence # None /\ incident.active

\* A simulation only opens gates and the description of a host only closes them:
\* no action that would run alone without the simulation waits because of it,
\* and none runs alone because more is known of its target.
GatesMonotone ==
  phase \notin {"triggered", "simulated"} =>
    /\ Ungated(PlanFor(incident, known, None)) \subseteq Ungated(plan)
    /\ Ungated(plan) \subseteq Ungated(PlanFor(incident, {}, evidence))

\* EDR is ranked, and so deployed, before the isolation of the same host, whose
\* agent could not be reached any more, although isolation counts as the
\* stronger measure and may gain confidence from an active attack.
EdrBeforeIsolation ==
  \A a, b \in plan :
    a.kind = "deploy_edr" /\ b.kind = "isolate_host" /\ a.target = b.target => a.score > b.score

\* A plan that passes on an estimate, without a re-simulation, has completed
\* something: failing services alone never verify a plan.
EstimateNeedsWork ==
  verdict # None => (verdict.passed /\ ~resim.measured => completed > 0)

\* safety.py: "Any action touching a CRITICAL asset always requires human
\* approval, regardless of confidence score"; observation is left out here.
CriticalAssetsGated ==
  \A a \in plan : a.target \in Addresses /\ a.kind \notin ObserveOnly =>
    (CriticalityOf[a.target] = "critical" => a.gated)

\* verification.py: the engine "proves they worked through two independent
\* tracks"; a plan nobody simulated again and nobody watched cannot pass.
PassNeedsEvidence ==
  verdict # None => (verdict.passed => resim.measured \/ verdict.watched)
=============================================================================
