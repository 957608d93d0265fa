----------------------------- MODULE PolicyProofs -----------------------------
(***************************************************************************)
(* Proofs about DefensePlanner and the policy it uses, for any hosts with  *)
(* any criticality, any incidents, any simulations and any thresholds that *)
(* PolicyAssumption admits: what runs without a human, in which order EDR  *)
(* and isolation are ranked, and what a plan must have done to pass.       *)
(*                                                                         *)
(* The plan is a function of the incident, the environment and the         *)
(* evidence, and none of the three changes once it is made (Planned); the  *)
(* properties of plans follow from lemmas about Tier, Confidence, Impact   *)
(* and Composite alone. The verdict adds that an estimate stays the one    *)
(* the statuses gave (Estimated).                                          *)
(***************************************************************************)
EXTENDS DefensePlanner, Sequences, TLAPS

Phases == {"triggered", "simulated", "planned", "executed", "resimulated", "verified"}

Inputs ==
  /\ phase \in Phases /\ incident \in Incidents /\ known \subseteq incident.dests
  /\ evidence \in {None} \cup Evidence /\ completed \in Nat

Planned == plan = IF phase \in {"triggered", "simulated"} THEN {}
                  ELSE PlanFor(incident, known, evidence)

Unjudged == phase \in {"triggered", "simulated", "planned", "executed"} => resim = None

Estimated ==
  phase \in {"resimulated", "verified"} =>
    /\ resim \in [measured : BOOLEAN, rate : 0..100]
    /\ ~resim.measured => resim.rate = Estimate

Judged ==
  verdict # None => /\ phase = "verified" /\ verdict \in [passed : BOOLEAN, watched : BOOLEAN]
                    /\ verdict.passed => Reduced

IInv == Inputs /\ Planned /\ Unjudged /\ Estimated /\ Judged

(***************************************************************************)
(* The policy.                                                             *)
(***************************************************************************)

LEMMA KnownCountermeasures == \A t : Countermeasures(t) \subseteq ActionTypes
<1>1. ASSUME NEW t PROVE Table(t) \subseteq ActionTypes
  BY DEF Table, ActionTypes
<1> QED
  BY <1>1 DEF Countermeasures

LEMMA KnownKinds == \A techniques : UniqueActions(techniques) \subseteq ActionTypes
  BY KnownCountermeasures DEF UniqueActions

LEMMA BlastRange == \A kind, criticality : BlastRadius(kind, criticality) \in 0..3
  BY DEF BlastRadius

LEMMA TierRange == \A confidence, blast, criticality : Tier(confidence, blast, criticality) \in Tiers
  BY DEF Tier, Tiers

\* A more confident planner gates no more.
LEMMA TierMonotone ==
  ASSUME NEW c \in Nat, NEW d \in Nat, c <= d, NEW blast \in 0..3, NEW criticality,
         ~Gated(Tier(c, blast, criticality))
  PROVE  ~Gated(Tier(d, blast, criticality))
  BY PolicyAssumption DEF Tier, Gated

\* A host of medium criticality gates no more than any other.
LEMMA MediumIsLax ==
  ASSUME NEW kind, NEW criticality, NEW c \in Nat,
         ~Gated(Tier(c, BlastRadius(kind, criticality), criticality))
  PROVE  ~Gated(Tier(c, BlastRadius(kind, "medium"), "medium"))
  BY PolicyAssumption DEF Tier, Gated, BlastRadius, ObserveOnly, LowBlast, HighBlast

\* What autonomy takes on a host of any criticality.
LEMMA AutonomyOfTier ==
  ASSUME NEW kind \in ActionTypes, NEW criticality, NEW c \in Nat,
         ~Gated(Tier(c, BlastRadius(kind, criticality), criticality))
  PROVE  \/ kind \in ObserveOnly
         \/ criticality # "critical" /\ kind \in LowBlast /\ c >= AutoMin
         \/ criticality # "critical" /\ kind \notin HighBlast /\ c >= VetoMin
  BY PolicyAssumption DEF Tier, Gated, BlastRadius, ObserveOnly, LowBlast, HighBlast, ActionTypes

(***************************************************************************)
(* The actions of a plan.                                                  *)
(***************************************************************************)

\* The incident, the described hosts and the evidence a plan is made from.
Given(i, h, ev) ==
  /\ i.active \in BOOLEAN /\ i.sources \subseteq Addresses /\ i.dests \subseteq Addresses
  /\ h \subseteq i.dests /\ ev \in {None} \cup Evidence

LEMMA ConfidenceRange ==
  ASSUME NEW i, NEW ev, NEW kind
  PROVE  /\ Confidence(i, ev, kind) \in 60..90
         /\ Confidence(i, None, kind) <= Confidence(i, ev, kind)
         /\ kind \notin ObserveOnly =>
              /\ Confidence(i, ev, kind) > 60 => ev # None \/ (i.active /\ kind \in Containment)
              /\ Confidence(i, ev, kind) > 75 => ev # None /\ i.active /\ kind \in Containment
  BY DEF Confidence

LEMMA ImpactRange == \A i, ev, kind, ip : Impact(i, ev, kind, ip) \in 50..95
  BY DEF Impact

LEMMA SafetyRange == \A kind, criticality : Safety(kind, criticality) \in Nat
<1>1. \A kind : DefaultSafety(kind) \in Nat
  BY DEF DefaultSafety
<1>2. \A kind, criticality : \E m \in {75, 90, 100} :
        Safety(kind, criticality) = DefaultSafety(kind) * m
  BY DEF Safety
<1> QED
  BY <1>1, <1>2

LEMMA TargetsKnown ==
  ASSUME NEW i, NEW h, NEW ev, Given(i, h, ev), NEW kind, NEW t \in Targets(i, h, kind)
  PROVE  t[1] \in Addresses \cup {Nowhere, Domain} /\ t[2] \in Criticalities
<1>1. \A ip \in h : CriticalityOf[ip] \in Criticalities
  BY PlannerAssumption DEF Given
<1> QED
  BY <1>1 DEF Targets, Given, Criticalities

\* An action of a plan is built for a target of its kind.
LEMMA PlanMembers ==
  ASSUME NEW i, NEW h, NEW ev, NEW a \in PlanFor(i, h, ev)
  PROVE  \E kind \in UniqueActions(i.techniques) : \E t \in Targets(i, h, kind) :
           a = Built(kind, t[1], t[2], Impact(i, ev, kind, t[1]), Confidence(i, ev, kind))
  BY DEF PlanFor

LEMMA PlanOf ==
  ASSUME NEW i, NEW h, NEW ev, NEW kind \in UniqueActions(i.techniques),
         NEW t \in Targets(i, h, kind)
  PROVE  Built(kind, t[1], t[2], Impact(i, ev, kind, t[1]), Confidence(i, ev, kind))
           \in PlanFor(i, h, ev)
  BY DEF PlanFor

LEMMA BuiltFields ==
  ASSUME NEW kind, NEW target, NEW criticality, NEW impact, NEW confidence
  PROVE  LET a == Built(kind, target, criticality, impact, confidence)
             tier == Tier(confidence, BlastRadius(kind, criticality), criticality)
         IN /\ a.kind = kind /\ a.target = target /\ a.criticality = criticality
            /\ a.tier = tier /\ a.gated = Gated(tier)
            /\ a.score = Composite(impact, Safety(kind, criticality), confidence)
            /\ a = [kind |-> a.kind, target |-> a.target, criticality |-> a.criticality,
                    tier |-> a.tier, gated |-> a.gated, score |-> a.score]
  BY DEF Built

\* The orchestrator gets actions it can take (PlannedAction).
LEMMA PlansWellFormed ==
  ASSUME NEW i, NEW h, NEW ev, Given(i, h, ev)
  PROVE  PlanFor(i, h, ev) \subseteq PlannedAction
<1> SUFFICES ASSUME NEW a \in PlanFor(i, h, ev) PROVE a \in PlannedAction
  OBVIOUS
<1>0. PICK kind \in UniqueActions(i.techniques) : \E t \in Targets(i, h, kind) :
        a = Built(kind, t[1], t[2], Impact(i, ev, kind, t[1]), Confidence(i, ev, kind))
  BY PlanMembers
<1>1. PICK t \in Targets(i, h, kind) :
        a = Built(kind, t[1], t[2], Impact(i, ev, kind, t[1]), Confidence(i, ev, kind))
  BY <1>0
<1>2. kind \in ActionTypes /\ t[1] \in Addresses \cup {Nowhere, Domain} /\ t[2] \in Criticalities
  BY KnownKinds, TargetsKnown
<1>3. \A x \in Nat, y \in Nat, z \in Nat : Composite(x, y, z) \in Nat
  BY DEF Composite
<1>4. Composite(Impact(i, ev, kind, t[1]), Safety(kind, t[2]), Confidence(i, ev, kind)) \in Nat
  <2>1. Impact(i, ev, kind, t[1]) \in Nat /\ Confidence(i, ev, kind) \in Nat
    <3>1. Impact(i, ev, kind, t[1]) \in 50..95 /\ Confidence(i, ev, kind) \in 60..90
      BY ImpactRange, ConfidenceRange
    <3> QED
      BY <3>1
  <2> QED
    BY <1>3, <2>1, SafetyRange
<1>5. \A tier : Gated(tier) \in BOOLEAN
  BY DEF Gated
<1> QED
  BY <1>1, <1>2, <1>4, <1>5, BuiltFields, TierRange DEF PlannedAction

\* What an action that runs alone rests on.
LEMMA UngatedEarned ==
  ASSUME NEW i, NEW h, NEW ev, NEW a \in PlanFor(i, h, ev), ~a.gated
  PROVE  /\ a.criticality = "critical" => a.kind \in ObserveOnly
         /\ \/ a.kind \in ObserveOnly
            \/ a.kind = "block_ip" /\ (ev # None \/ i.active)
            \/ a.kind \in LowBlast /\ ev # None
            \/ a.kind \in Containment /\ ev # None /\ i.active
<1>0. PICK kind \in UniqueActions(i.techniques) : \E t \in Targets(i, h, kind) :
        a = Built(kind, t[1], t[2], Impact(i, ev, kind, t[1]), Confidence(i, ev, kind))
  BY PlanMembers
<1>1. PICK t \in Targets(i, h, kind) :
        a = Built(kind, t[1], t[2], Impact(i, ev, kind, t[1]), Confidence(i, ev, kind))
  BY <1>0
<1> DEFINE c == Confidence(i, ev, kind)
<1>2. a.kind = kind /\ a.criticality = t[2] /\ ~Gated(Tier(c, BlastRadius(kind, t[2]), t[2]))
  BY <1>1, BuiltFields
<1>3. kind \in ActionTypes
  BY KnownKinds
<1>4. c \in Nat /\ c \in 60..90
  <2>1. c \in 60..90
    BY ConfidenceRange
  <2> QED
    BY <2>1
<1> HIDE DEF c
<1>5. \/ kind \in ObserveOnly
      \/ t[2] # "critical" /\ kind \in LowBlast /\ c >= AutoMin
      \/ t[2] # "critical" /\ kind \notin HighBlast /\ c >= VetoMin
  BY <1>2, <1>3, <1>4, AutonomyOfTier
<1>6. kind \notin ObserveOnly =>
        /\ c > 60 => ev # None \/ (i.active /\ kind \in Containment)
        /\ c > 75 => ev # None /\ i.active /\ kind \in Containment
  BY ConfidenceRange DEF c
<1>7. LowBlast \cap Containment = {"block_ip"}
  BY DEF LowBlast, Containment
<1> QED
  BY <1>2, <1>4, <1>5, <1>6, <1>7, PolicyAssumption

\* A simulation only opens gates.
LEMMA SimulationOpens ==
  ASSUME NEW i, NEW h, NEW ev
  PROVE  Ungated(PlanFor(i, h, None)) \subseteq Ungated(PlanFor(i, h, ev))
<1> SUFFICES ASSUME NEW a \in PlanFor(i, h, None), ~a.gated
             PROVE  \E b \in PlanFor(i, h, ev) : ~b.gated /\ b.kind = a.kind /\ b.target = a.target
  BY DEF Ungated
<1>0. PICK kind \in UniqueActions(i.techniques) : \E t \in Targets(i, h, kind) :
        a = Built(kind, t[1], t[2], Impact(i, None, kind, t[1]), Confidence(i, None, kind))
  BY PlanMembers
<1>1. PICK t \in Targets(i, h, kind) :
        a = Built(kind, t[1], t[2], Impact(i, None, kind, t[1]), Confidence(i, None, kind))
  BY <1>0
<1> DEFINE b == Built(kind, t[1], t[2], Impact(i, ev, kind, t[1]), Confidence(i, ev, kind))
           blast == BlastRadius(kind, t[2])
<1>2. b \in PlanFor(i, h, ev) /\ b.kind = a.kind /\ b.target = a.target
  BY <1>1, PlanOf, BuiltFields
<1>3. ~Gated(Tier(Confidence(i, None, kind), blast, t[2]))
  BY <1>1, BuiltFields
<1>4. /\ Confidence(i, None, kind) \in Nat /\ Confidence(i, ev, kind) \in Nat
      /\ Confidence(i, None, kind) <= Confidence(i, ev, kind)
  <2>1. /\ Confidence(i, None, kind) \in 60..90 /\ Confidence(i, ev, kind) \in 60..90
        /\ Confidence(i, None, kind) <= Confidence(i, ev, kind)
    BY ConfidenceRange
  <2> QED
    BY <2>1
<1>5. ~Gated(Tier(Confidence(i, ev, kind), blast, t[2]))
  BY <1>3, <1>4, BlastRange, TierMonotone
<1> QED
  BY <1>2, <1>5, BuiltFields

\* The description of a host only closes gates.
LEMMA DescriptionCloses ==
  ASSUME NEW i, NEW h, NEW ev
  PROVE  Ungated(PlanFor(i, h, ev)) \subseteq Ungated(PlanFor(i, {}, ev))
<1> SUFFICES ASSUME NEW a \in PlanFor(i, h, ev), ~a.gated
             PROVE  \E b \in PlanFor(i, {}, ev) : ~b.gated /\ b.kind = a.kind /\ b.target = a.target
  BY DEF Ungated
<1>0. PICK kind \in UniqueActions(i.techniques) : \E t \in Targets(i, h, kind) :
        a = Built(kind, t[1], t[2], Impact(i, ev, kind, t[1]), Confidence(i, ev, kind))
  BY PlanMembers
<1>1. PICK t \in Targets(i, h, kind) :
        a = Built(kind, t[1], t[2], Impact(i, ev, kind, t[1]), Confidence(i, ev, kind))
  BY <1>0
<1>2. PICK u \in Targets(i, {}, kind) : u[1] = t[1] /\ (u[2] = t[2] \/ u[2] = "medium")
  <2>1. CASE kind \in {"block_ip", "sinkhole_domain"} \/ i.dests = {}
    <3>1. t \in Targets(i, {}, kind)
      BY <2>1 DEF Targets
    <3> QED
      BY <3>1
  <2>2. CASE kind \notin {"block_ip", "sinkhole_domain"} /\ i.dests # {}
    <3>1. PICK ip \in i.dests : t = <<ip, IF ip \in h THEN CriticalityOf[ip] ELSE "medium">>
      BY <2>2 DEF Targets
    <3>2. <<ip, "medium">> \in Targets(i, {}, kind)
      BY <2>2 DEF Targets
    <3> QED
      BY <3>1, <3>2
  <2> QED
    BY <2>1, <2>2
<1> DEFINE b == Built(kind, u[1], u[2], Impact(i, ev, kind, u[1]), Confidence(i, ev, kind))
           c == Confidence(i, ev, kind)
<1>3. b \in PlanFor(i, {}, ev) /\ b.kind = a.kind /\ b.target = a.target
  BY <1>1, <1>2, PlanOf, BuiltFields
<1>4. ~Gated(Tier(c, BlastRadius(kind, t[2]), t[2]))
  BY <1>1, BuiltFields
<1>5. c \in Nat
  <2>1. c \in 60..90
    BY ConfidenceRange
  <2> QED
    BY <2>1
<1> HIDE DEF c
<1>6. ~Gated(Tier(c, BlastRadius(kind, u[2]), u[2]))
  BY <1>2, <1>4, <1>5, MediumIsLax
<1> QED
  BY <1>3, <1>6, BuiltFields DEF c

\* EDR on a host is worth more than its isolation: what isolation gains in impact
\* without evidence, and in confidence during an attack, is less than what it
\* loses in safety.
LEMMA EdrOutranks ==
  ASSUME NEW i, NEW h, NEW ev, NEW a \in PlanFor(i, h, ev), NEW b \in PlanFor(i, h, ev),
         a.kind = "deploy_edr", b.kind = "isolate_host", a.target = b.target
  PROVE  a.score > b.score
<1>1. PICK t \in Targets(i, h, "deploy_edr") :
        a = Built("deploy_edr", t[1], t[2], Impact(i, ev, "deploy_edr", t[1]),
                  Confidence(i, ev, "deploy_edr"))
  BY PlanMembers, BuiltFields
<1>2. PICK u \in Targets(i, h, "isolate_host") :
        b = Built("isolate_host", u[1], u[2], Impact(i, ev, "isolate_host", u[1]),
                  Confidence(i, ev, "isolate_host"))
  BY PlanMembers, BuiltFields
<1> DEFINE x == Impact(i, ev, "deploy_edr", t[1])
           y == Impact(i, ev, "isolate_host", t[1])
           c == Confidence(i, ev, "deploy_edr")
           d == Confidence(i, ev, "isolate_host")
<1>3. u[1] = t[1] /\ u[2] = t[2]
  <2>1. u[1] = t[1]
    BY <1>1, <1>2, BuiltFields
  <2>2. Targets(i, h, "deploy_edr") = Targets(i, h, "isolate_host")
    BY DEF Targets
  <2>3. \A v, w \in Targets(i, h, "isolate_host") : v[1] = w[1] => v[2] = w[2]
    BY DEF Targets
  <2> QED
    BY <2>1, <2>2, <2>3
<1>4. x \in 50..95 /\ y \in 50..95 /\ x >= y - 10 /\ (ev # None => x >= y)
  <2>1. x \in 50..95 /\ y \in 50..95
    BY ImpactRange
  <2>2. CASE t[1] \notin i.dests /\ (i.dests # {} \/ t[1] # Nowhere)
    BY <2>2 DEF Impact
  <2>3. CASE ~(t[1] \notin i.dests /\ (i.dests # {} \/ t[1] # Nowhere)) /\ ev = None
    BY <2>3 DEF Impact, Containment
  <2>4. CASE ~(t[1] \notin i.dests /\ (i.dests # {} \/ t[1] # Nowhere)) /\ ev # None
    <3>1. ~AddressesWeakness(ev, "isolate_host", t[1])
      BY DEF AddressesWeakness
    <3> QED
      BY <2>4, <3>1 DEF Impact
  <2> QED
    BY <2>1, <2>2, <2>3, <2>4
<1>5. c \in 60..90 /\ d \in 60..90 /\ d <= c + 10
  <2>1. d <= c + 10
    BY DEF Confidence, ObserveOnly
  <2> QED
    BY <2>1, ConfidenceRange
<1>6. PICK m \in {75, 90, 100} : /\ Safety("deploy_edr", t[2]) = 95 * m
                                /\ Safety("isolate_host", t[2]) = 65 * m
  <2>1. DefaultSafety("deploy_edr") = 95 /\ DefaultSafety("isolate_host") = 65
    BY DEF DefaultSafety
  <2> QED
    BY <2>1 DEF Safety
<1>7. a.score = 4500 * x + 35 * (95 * m) + 2000 * c
  BY <1>1, <1>6, BuiltFields DEF Composite
<1>8. b.score = 4500 * y + 35 * (65 * m) + 2000 * d
  BY <1>2, <1>3, <1>6, BuiltFields DEF Composite
<1> HIDE DEF x, y, c, d
<1> QED
  BY <1>4, <1>5, <1>6, <1>7, <1>8

(***************************************************************************)
(* The invariant.                                                          *)
(***************************************************************************)

LEMMA PreRateRange == Inputs => PreRate \in 1..100
  BY PlannerAssumption DEF Inputs, PreRate, Simulated

LEMMA EstimateRange == Inputs => /\ Estimate \in 0..100
                                 /\ completed = 0 => Estimate = PreRate
  BY PreRateRange DEF Inputs, Estimate

LEMMA InitIInv == Init => IInv
  BY PlannerAssumption DEF Init, IInv, Inputs, Phases, Planned, Unjudged, Estimated, Judged

LEMMA NextIInv == IInv /\ [Next]_vars => IInv'
<1> SUFFICES ASSUME IInv, [Next]_vars PROVE IInv'
  OBVIOUS
<1> USE DEF IInv, Inputs, Phases, Planned, Unjudged, Estimated, Judged
<1>1. CASE RunSimulation
  BY <1>1 DEF RunSimulation
<1>2. CASE GeneratePlan
  BY <1>2 DEF GeneratePlan
<1>3. CASE Execute
  <2>1. completed' \in Nat
    BY <1>3 DEF Execute
  <2> QED
    BY <1>3, <2>1 DEF Execute
<1>4. CASE Resimulate
  <2>1. Estimate' = Estimate
    BY <1>4 DEF Resimulate, Estimate, PreRate
  <2>2. Estimate \in 0..100
    BY EstimateRange
  <2>3. resim' \in [measured : BOOLEAN, rate : 0..100] /\ (~resim'.measured => resim'.rate = Estimate)
    <3>1. CASE \E r \in Rates : resim' = [measured |-> TRUE, rate |-> r]
      BY <3>1, PlannerAssumption
    <3>2. CASE resim' = [measured |-> FALSE, rate |-> Estimate]
      BY <3>2, <2>2
    <3> QED
      BY <1>4, <3>1, <3>2 DEF Resimulate
  <2> QED
    BY <1>4, <2>1, <2>3 DEF Resimulate
<1>5. CASE Verify
  <2>1. Estimate' = Estimate /\ Reduced' = Reduced
    BY <1>5 DEF Verify, Estimate, PreRate, Reduced
  <2>2. PICK watched, continued \in BOOLEAN : verdict' = Verdict(watched, continued)
    BY <1>5 DEF Verify
  <2>3. Reduced \in BOOLEAN
    BY DEF Reduced
  <2>4. /\ verdict' \in [passed : BOOLEAN, watched : BOOLEAN]
        /\ verdict'.passed => Reduced
    BY <2>2, <2>3 DEF Verdict
  <2> QED
    BY <1>5, <2>1, <2>4 DEF Verify
<1>6. CASE Finished \/ UNCHANGED vars
  BY <1>6 DEF Finished, vars, Estimate, PreRate, Reduced
<1> QED
  BY <1>1, <1>2, <1>3, <1>4, <1>5, <1>6 DEF Next

LEMMA Inductive == Spec => []IInv
  BY InitIInv, NextIInv, PTL DEF Spec

LEMMA InputsGiven == Inputs => Given(incident, known, evidence)
  BY PlannerAssumption DEF Inputs, Given

\* Whatever incident and evidence a plan is made from, it is one the orchestrator
\* can take, and rates stay percentages through the estimate.
THEOREM TypeCorrect == Spec => []TypeOK
<1>1. IInv => TypeOK
  <2> SUFFICES ASSUME IInv PROVE TypeOK
    OBVIOUS
  <2>1. plan \subseteq PlannedAction
    BY InputsGiven, PlansWellFormed DEF IInv, Planned
  <2>2. resim \in {None} \cup [measured : BOOLEAN, rate : 0..100]
    BY DEF IInv, Unjudged, Estimated, Inputs, Phases
  <2> QED
    BY <2>1, <2>2 DEF IInv, Inputs, Phases, Judged, TypeOK
<1> QED
  BY <1>1, Inductive, PTL

\* Nothing runs without a human that the evidence does not support, for any
\* thresholds above what an estimate without simulation can reach.
THEOREM AutonomyEarnedHolds == Spec => []AutonomyEarned
<1>1. IInv => AutonomyEarned
  BY UngatedEarned DEF IInv, Planned, AutonomyEarned, CriticalNeedsHuman
<1> QED
  BY <1>1, Inductive, PTL

\* A simulation never closes a gate, and a description of the hosts never opens one.
THEOREM GatesMonotoneHolds == Spec => []GatesMonotone
<1>1. IInv => GatesMonotone
  BY SimulationOpens, DescriptionCloses DEF IInv, Planned, GatesMonotone
<1> QED
  BY <1>1, Inductive, PTL

\* EDR is ranked before the isolation of its host, for any hosts and evidence.
THEOREM EdrBeforeIsolationHolds == Spec => []EdrBeforeIsolation
<1>1. IInv => EdrBeforeIsolation
  <2> SUFFICES ASSUME IInv, NEW a \in plan, NEW b \in plan, a.kind = "deploy_edr",
                      b.kind = "isolate_host", a.target = b.target
               PROVE  a.score > b.score
    BY DEF EdrBeforeIsolation
  <2>1. plan = PlanFor(incident, known, evidence)
    BY DEF IInv, Planned
  <2> QED
    BY <2>1, EdrOutranks
<1> QED
  BY <1>1, Inductive, PTL

\* No plan passes on an estimate unless some of its actions were completed.
THEOREM EstimateNeedsWorkHolds == Spec => []EstimateNeedsWork
<1>1. IInv => EstimateNeedsWork
  <2> SUFFICES ASSUME IInv, verdict # None, verdict.passed, ~resim.measured, completed = 0
               PROVE  FALSE
    BY DEF EstimateNeedsWork, IInv, Inputs
  <2>1. resim.rate = PreRate
    BY EstimateRange DEF IInv, Judged, Estimated
  <2>2. PreRate \in 1..100 /\ Threshold \in 1..100
    BY PreRateRange, PlannerAssumption DEF IInv
  <2>3. 100 * (PreRate - PreRate) >= Threshold * PreRate
    BY <2>1 DEF IInv, Judged, Reduced
  <2>4. \A x \in 1..100, y \in 1..100 : x * y > 0
    OBVIOUS
  <2> QED
    BY <2>2, <2>3, <2>4
<1> QED
  BY <1>1, Inductive, PTL
-----------------------------------------------------------------------------
(* From the planner to the adapters: the orchestrator over drafts that are   *)
(* the planner's plans, in some order.                                       *)

\* The parameters and the state of ResponseOrchestrator.
CONSTANTS Calls, MaxPlanLength, Drafts, Requests, MaxConcurrentPlans, MaxAutoActions,
          AutoRollback, DryRunMode, MaxRestarts

VARIABLES call, plans, task, world, restarts

Orchestrator == INSTANCE OrchestratorProofs

\* The kinds of action that may run without a human, by what is known when the
\* plan is made.
MayRunAlone(active, simulated) ==
  ObserveOnly
    \cup (IF active \/ simulated THEN {"block_ip"} ELSE {})
    \cup (IF simulated THEN LowBlast ELSE {})
    \cup (IF active /\ simulated THEN Containment ELSE {})

\* What the orchestrator sees of a plan's actions in some order.
DraftOf(order) == [k \in DOMAIN order |-> [kind |-> order[k].kind, gated |-> order[k].gated]]

\* A listing of the planner's plan is a draft the orchestrator can take, and
\* what runs alone in it is what may.
LEMMA DraftsAreLawful ==
  ASSUME NEW i, NEW h, NEW ev, Given(i, h, ev), NEW n \in Nat, NEW order \in [1..n -> PlanFor(i, h, ev)]
  PROVE  /\ DraftOf(order) \in Seq(Orchestrator!DraftAction)
         /\ \A k \in DOMAIN DraftOf(order) :
              ~DraftOf(order)[k].gated =>
                DraftOf(order)[k].kind \in MayRunAlone(i.active, ev # None)
<1>1. \A k \in 1..n : order[k] \in PlanFor(i, h, ev) /\ order[k] \in PlannedAction
  BY PlansWellFormed
<1>2. \A k \in 1..n : order[k].kind \in ActionTypes /\ order[k].gated \in BOOLEAN
  BY <1>1 DEF PlannedAction
<1>3. DraftOf(order) \in [1..n -> Orchestrator!DraftAction]
  BY <1>2 DEF DraftOf, Orchestrator!DraftAction, Orchestrator!ActionTypes, ActionTypes
<1>4. DraftOf(order) \in Seq(Orchestrator!DraftAction)
  BY <1>3
<1>5. ASSUME NEW k \in 1..n, ~order[k].gated
      PROVE  order[k].kind \in MayRunAlone(i.active, ev # None)
  BY <1>1, <1>5, UngatedEarned DEF MayRunAlone
<1> QED
  BY <1>4, <1>5 DEF DraftOf

\* The gate from end to end. Let call c be about an incident, in an environment,
\* and let every draft for it list actions of the planner's plan, which was made
\* with a simulation only if the call had one. Then an action of a kind that may not run alone
\* under these circumstances is started by an analyst or not at all, however
\* the loop, the approvals, the verifications and the restarts interleave.
THEOREM GateEndToEnd ==
  ASSUME NEW CONSTANT incidentOf, NEW CONSTANT environmentOf, NEW CONSTANT simulated,
         \A c \in Calls : simulated[c] \in BOOLEAN /\ incidentOf[c].active \in BOOLEAN,
         \A c \in Calls : \A draft \in Drafts[c] :
           \E ev \in {None} \cup Evidence, n \in Nat :
             /\ Given(incidentOf[c], environmentOf[c], ev)
             /\ ev # None => simulated[c]
             /\ \E order \in [1..n -> PlanFor(incidentOf[c], environmentOf[c], ev)] :
                  draft = DraftOf(order),
         NEW CONSTANT Human,
         Human = [c \in Calls |-> ActionTypes \ MayRunAlone(incidentOf[c].active, simulated[c])],
         Orchestrator!ConstantsAssumption
  PROVE  Orchestrator!Spec => []Orchestrator!HumanOnly(Human)
<1>1. ASSUME NEW c \in Calls, NEW draft \in Drafts[c], NEW k \in DOMAIN draft,
             draft[k].kind \in Human[c]
      PROVE  draft[k].gated
  <2>1. PICK ev \in {None} \cup Evidence, n \in Nat :
          /\ Given(incidentOf[c], environmentOf[c], ev)
          /\ ev # None => simulated[c]
          /\ \E order \in [1..n -> PlanFor(incidentOf[c], environmentOf[c], ev)] :
               draft = DraftOf(order)
    OBVIOUS
  <2>2. PICK order \in [1..n -> PlanFor(incidentOf[c], environmentOf[c], ev)] :
          draft = DraftOf(order)
    BY <2>1
  <2>3. ~draft[k].gated => draft[k].kind \in MayRunAlone(incidentOf[c].active, ev # None)
    BY <1>1, <2>1, <2>2, DraftsAreLawful
  <2>4. MayRunAlone(incidentOf[c].active, ev # None)
          \subseteq MayRunAlone(incidentOf[c].active, simulated[c])
    BY <2>1 DEF MayRunAlone
  <2>5. draft[k].kind \notin MayRunAlone(incidentOf[c].active, simulated[c])
    BY <1>1
  <2> QED
    BY <2>3, <2>4, <2>5
<1>2. \A c \in Calls : \A draft \in Drafts[c] : \A k \in DOMAIN draft :
        draft[k].kind \in Human[c] => draft[k].gated
  BY <1>1
<1> QED
  BY <1>2, Orchestrator!HumanOnlyHolds
=============================================================================
