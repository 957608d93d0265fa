---------------------------- MODULE ApprovalPolicy ----------------------------
(***************************************************************************)
(* safety.py: which defense actions run without a human. Confidences and   *)
(* scores are integers, in hundredths unless a comment says otherwise.     *)
(***************************************************************************)
EXTENDS D3fend, Adapters, FiniteSets

CONSTANTS
  AutoMin,  \* auto_execute_confidence_min, 70 by default
  VetoMin   \* auto_execute_with_veto_confidence_min, 85 by default

\* What an operator may configure without giving up what the comments on the
\* thresholds say of them: an estimate without simulation is not enough for
\* either, and none but the highest is enough for the second.
ASSUME PolicyAssumption ==
  /\ AutoMin \in Nat /\ VetoMin \in Nat
  /\ AutoMin > 60 /\ VetoMin > 75

Criticalities == {"minimal", "low", "medium", "high", "critical"}

ObserveOnly == {"add_monitoring", "deploy_sigma_rule"}
LowBlast == {"block_ip", "deploy_edr", "sinkhole_domain", "kill_process"}
HighBlast == {"network_segment", "restore_backup"}

\* classify_blast_radius, as the severity 0 (none) to 3 (high).
BlastRadius(kind, criticality) ==
  LET raise == IF criticality = "critical" THEN 1 ELSE 0
  IN CASE kind \in ObserveOnly -> 0
       [] kind \in LowBlast -> 1 + raise
       [] kind \in HighBlast -> 3
       [] OTHER -> 2 + raise

Tiers == {"recommend", "auto_safe", "auto_veto", "human_required"}

\* Mutant: the first threshold is compared for actions of medium blast too.
TierMutant(confidence, blast, criticality) ==
  IF blast = 0 THEN "auto_safe"
  ELSE IF blast = 3 \/ criticality = "critical" THEN "human_required"
  ELSE IF confidence < AutoMin THEN "recommend"
  ELSE IF blast = 1 THEN "auto_safe" ELSE "auto_veto"

\* Mutant: the comparison with the second threshold is turned round.
TierTurnedMutant(confidence, blast, criticality) ==
  IF criticality = "critical" /\ blast >= 2 THEN "human_required"
  ELSE IF blast = 3 THEN "human_required"
  ELSE IF blast = 0 THEN "auto_safe"
  ELSE IF confidence < AutoMin THEN "recommend"
  ELSE IF blast = 1 THEN "auto_safe"
  ELSE IF confidence < VetoMin THEN "auto_veto"
  ELSE "human_required"

\* determine_approval_tier. The order of the tests is the code's.
Tier(confidence, blast, criticality) ==
  IF criticality = "critical" /\ blast >= 2 THEN "human_required"
  ELSE IF blast = 3 THEN "human_required"
  ELSE IF blast = 0 THEN "auto_safe"
  ELSE IF confidence < AutoMin THEN "recommend"
  ELSE IF blast = 1 THEN "auto_safe"
  ELSE IF confidence >= VetoMin /\ criticality # "critical" THEN "auto_veto"
  ELSE "human_required"

\* requires_human_approval
Gated(tier) == tier \in {"recommend", "human_required"}

\* The safety score in ten thousandths.
Safety(kind, criticality) ==
  DefaultSafety(kind) * CASE criticality = "critical" -> 75
                          [] criticality = "high" -> 90
                          [] OTHER -> 100

\* Mutant: the weights of safety and confidence are exchanged.
CompositeMutant(impact, safety, confidence) ==
  4500 * impact + 20 * safety + 3500 * confidence

\* compute_composite_score in millionths (the code rounds to four places).
Composite(impact, safety, confidence) ==
  4500 * impact + 35 * safety + 2000 * confidence

\* build_planned_action
Built(kind, target, criticality, impact, confidence) ==
  LET blast == BlastRadius(kind, criticality)
      tier == Tier(confidence, blast, criticality)
  IN [kind |-> kind, target |-> target, criticality |-> criticality, tier |-> tier,
      gated |-> Gated(tier),
      score |-> Composite(impact, Safety(kind, criticality), confidence)]

(***************************************************************************)
(* check_plan_safety: none of its findings blocks anything; the caller     *)
(* logs them.                                                              *)
(***************************************************************************)
Warnings(plan, maxAuto) ==
  LET ungated == {a \in plan : ~a.gated}
      isolations == {a \in plan : a.kind = "isolate_host"}
  IN {w \in {"max_auto_actions", "multiple_isolations", "action_after_isolation",
             "credential_revocation_impact"} :
        CASE w = "max_auto_actions" -> Cardinality(ungated) > maxAuto
          [] w = "multiple_isolations" -> Cardinality(isolations) > 2
          [] w = "action_after_isolation" ->
               \E a \in plan, i \in isolations :
                 a.kind \in {"deploy_edr", "patch_vulnerability"} /\ a.target = i.target
          [] OTHER -> \E a \in plan : a.kind = "revoke_credentials"}
=============================================================================
