---------------------------- MODULE ActionLedger ----------------------------
(***************************************************************************)
(* What the orchestrator promises of the actions of its plans, leaving out *)
(* how: the life of an action (models.py, ActionStatus) and who may start  *)
(* it.  An entry of the ledger is one action of one plan.                  *)
(*                                                                         *)
(*   absent --> pending --> executing --> completed --> rolled_back        *)
(*                 |             +------> failed                           *)
(*                 +--> vetoed   (an action without adapter fails at once) *)
(***************************************************************************)
CONSTANTS Plans, Slots

VARIABLE ledger

NoEntry == [status |-> "absent", gated |-> FALSE, by |-> "nobody"]

Init == ledger = [p \in Plans |-> [s \in Slots |-> NoEntry]]

\* A pending action may be put under approval, never released from it.
Keeps(e, f) ==
  /\ f.status = e.status /\ f.by = e.by
  /\ f.gated = e.gated \/ (e.status = "pending" /\ f.gated)

\* Started by the automatic loop only if it needs no approval.
Starts(e, f) ==
  /\ e.status = "pending" /\ f.status \in {"executing", "failed"}
  /\ f.gated = e.gated
  /\ f.by = "analyst" \/ (f.by = "auto" /\ ~e.gated)

Vetoed(e, f) == e.status = "pending" /\ f = [e EXCEPT !.status = "vetoed"]

Answered(e, f) ==
  e.status = "executing" /\ \E s \in {"completed", "failed"} : f = [e EXCEPT !.status = s]

RolledBack(e, f) == e.status = "completed" /\ f = [e EXCEPT !.status = "rolled_back"]

\* Registering a plan opens its entries; its first action may start at once.
Opens(e, f) ==
  /\ e = NoEntry
  /\ \/ f.status = "pending" /\ f.by = "nobody"
     \/ Starts([f EXCEPT !.status = "pending"], f)

Lawful(e, f) ==
  Keeps(e, f) \/ Starts(e, f) \/ Vetoed(e, f) \/ Answered(e, f) \/ RolledBack(e, f) \/ Opens(e, f)

\* One plan moves: each of its actions lawfully, and at most one of those it had
\* changes its status.
Move(p) ==
  /\ \A s \in Slots : Lawful(ledger[p][s], ledger'[p][s])
  /\ \A s, t \in Slots :
       /\ ledger[p][s].status # "absent" /\ ledger'[p][s].status # ledger[p][s].status
       /\ ledger[p][t].status # "absent" /\ ledger'[p][t].status # ledger[p][t].status
       => s = t
  /\ \A q \in Plans \ {p} : ledger'[q] = ledger[q]

\* The process restarts and its plans are gone.
Lose == ledger' = [p \in Plans |-> [s \in Slots |-> NoEntry]]

Next == (\E p \in Plans : Move(p)) \/ Lose

Spec == Init /\ [][Next]_ledger
=============================================================================
