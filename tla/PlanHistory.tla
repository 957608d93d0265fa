----------------------------- MODULE PlanHistory -----------------------------
(***************************************************************************)
(* The orchestrator with a history variable: the request's flags are gone  *)
(* when trigger_defense returns, but what an operator expects of a plan    *)
(* depends on them for as long as the plan is there.                       *)
(***************************************************************************)
EXTENDS ResponseOrchestrator

VARIABLE automatic  \* the calls admitted with auto_execute whose plans are live

historyVars == <<vars, automatic>>

HistoryInit == Init /\ automatic = {}

\* Noted when a call is admitted, and never forgotten.
Remember ==
  automatic' = automatic \cup {c \in Calls : call'[c].auto /\ ~call'[c].dry /\ ~DryRunMode}

HistoryNext == Next /\ Remember

HistorySpec == HistoryInit /\ [][HistoryNext]_historyVars

HistoryFairSpec == HistorySpec /\ Fairness

-----------------------------------------------------------------------------
(* Properties.                                                             *)

\* With an analyst who decides what GET /approvals lists, a live plan triggered
\* with auto_execute gives its slot back for good, when no rollback overtakes
\* its trigger: whatever the loop leaves over is listed, whatever is decided
\* during its sleep is noticed, and whatever is resolved is verified.
AutomaticPlansFinish ==
  DiligentAnalyst =>
    \A c \in Calls :
      <>[](c \in automatic =>
             plans[c].status \in Terminal \cup {"absent"} \/ Overtaken(c))

\* Nothing else is left half way, whatever fails: calls return, plans without an
\* open action are verified, and automatic plans end if the analyst decides.
PlansEnd == TriggersReturn /\ ResolvedPlansFinish /\ AutomaticPlansFinish

-----------------------------------------------------------------------------
(* What the repository says of the program, and the program does not do.   *)

\* orchestrator.py:8, "COMPLETED (or ROLLED_BACK)" ends the autonomous loop: with
\* an analyst who decides what GET /approvals lists, a live plan triggered with
\* auto_execute comes to a terminal status and stays there.
AutomaticPlansEnd ==
  DiligentAnalyst =>
    \A c \in Calls : <>[](c \in automatic => plans[c].status \in Terminal \cup {"absent"})
=============================================================================
