----------------------- MODULE MCResponseOrchestrator -----------------------
(***************************************************************************)
(* Instances of ResponseOrchestrator for TLC: action lists of the kinds    *)
(* the planner produces, and the flags of the requests.                    *)
(***************************************************************************)
EXTENDS OrchestratorLedger, PlanHistory

CONSTANTS c1, c2

Auto(kind) == [kind |-> kind, gated |-> FALSE]
Gated(kind) == [kind |-> kind, gated |-> TRUE]

\* Lateral movement with a simulation: containment reaches 0.85 and runs
\* unattended, the sinkhole has no adapter, patching needs a person.
Containment == <<Auto("block_ip"), Auto("isolate_host"), Gated("patch_vulnerability")>>
Mixed == <<Auto("sinkhole_domain"), Auto("kill_process"), Gated("disable_account"), Auto("add_monitoring")>>
Live == {[auto |-> TRUE, dry |-> FALSE]}

\* One call of every kind, and beside it one whose incident needs no action.
RichDrafts == [c \in Calls |-> IF c = c1 THEN {Containment, Mixed} ELSE {<<>>}]
RichRequests == [c \in Calls |->
  IF c = c1 THEN {[auto |-> TRUE, dry |-> FALSE], [auto |-> TRUE, dry |-> TRUE],
                  [auto |-> FALSE, dry |-> FALSE]}
  ELSE Live]

LiveRequests == [c \in Calls |-> Live]
=============================================================================
