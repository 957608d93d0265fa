------------------------- MODULE OrchestratorLedger -------------------------
(***************************************************************************)
(* ResponseOrchestrator implements ActionLedger: the entry of an action is *)
(* what its PlannedAction record shows, absent where the plan has none.    *)
(***************************************************************************)
EXTENDS ResponseOrchestrator

ledgerOf(plan) ==
  [i \in Slots |->
     IF i \in DOMAIN plan.actions
       THEN [status |-> plan.actions[i].status, gated |-> plan.actions[i].gated,
             by |-> plan.actions[i].by]
       ELSE [status |-> "absent", gated |-> FALSE, by |-> "nobody"]]

ledgerView == [c \in Calls |-> ledgerOf(plans[c])]

Ledger == INSTANCE ActionLedger WITH Plans <- Calls, ledger <- ledgerView

\* Every behaviour of the orchestrator keeps the ledger's promise: no action is
\* started twice or without the approval it needs, a veto is final, and each
\* step of a coroutine decides one action of one plan.
ImplementsLedger == Ledger!Spec
=============================================================================
