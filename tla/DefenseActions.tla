---------------------------- MODULE DefenseActions ----------------------------
(***************************************************************************)
(* defender_actions.py: the eight actions of a defender agent. All of them *)
(* are always available. Outcomes are deterministic.                       *)
(***************************************************************************)
EXTENDS Environment

Defenses == {"acknowledge_alert", "investigate_host", "block_ip", "isolate_host",
             "deploy_edr", "revoke_credentials", "escalate", "do_nothing"}

\* DefenderState, as far as the report reads it.
DefenderState == [investigated : SUBSET Hosts, blocked : SUBSET Hosts,
                  isolated : SUBSET Hosts, edr : SUBSET Hosts, revoked : BOOLEAN,
                  blocks : Nat]

Novice == [investigated |-> {}, blocked |-> {}, isolated |-> {}, edr |-> {},
           revoked |-> FALSE, blocks |-> 0]

\* What is in force already is reported as a success and changes nothing.
AlreadyInForce(act, e, h) ==
  \/ act = "block_ip" /\ h \in e.blocked
  \/ act = "isolate_host" /\ h \in e.isolated
  \/ act = "deploy_edr" /\ h \in e.edr
  \/ act = "revoke_credentials" /\ e.revoked

Defended(act, e, h) ==
  IF AlreadyInForce(act, e, h) THEN e ELSE
  CASE act = "block_ip" -> [e EXCEPT !.blocked = @ \cup {h}]
    [] act = "isolate_host" -> [e EXCEPT !.isolated = @ \cup {h}]
    [] act = "deploy_edr" -> [e EXCEPT !.edr = @ \cup {h}]
    [] act = "revoke_credentials" -> [e EXCEPT !.revoked = TRUE]
    [] OTHER -> e

\* Mutant: a defender who finds the measure in force counts it all the same.
CreditedMutant(act, e, s, h) ==
  CASE act = "investigate_host" -> [s EXCEPT !.investigated = @ \cup {h}]
    [] act = "block_ip" -> [s EXCEPT !.blocked = @ \cup {h}, !.blocks = @ + 1]
    [] act = "isolate_host" -> [s EXCEPT !.isolated = @ \cup {h}, !.blocks = @ + 1]
    [] act = "deploy_edr" -> [s EXCEPT !.edr = @ \cup {h}]
    [] act = "revoke_credentials" -> [s EXCEPT !.revoked = TRUE, !.blocks = @ + 1]
    [] OTHER -> s

Credited(act, e, s, h) ==
  IF AlreadyInForce(act, e, h) THEN s ELSE
  CASE act = "investigate_host" -> [s EXCEPT !.investigated = @ \cup {h}]
    [] act = "block_ip" -> [s EXCEPT !.blocked = @ \cup {h}, !.blocks = @ + 1]
    [] act = "isolate_host" -> [s EXCEPT !.isolated = @ \cup {h}, !.blocks = @ + 1]
    [] act = "deploy_edr" -> [s EXCEPT !.edr = @ \cup {h}]
    [] act = "revoke_credentials" -> [s EXCEPT !.revoked = TRUE, !.blocks = @ + 1]
    [] OTHER -> s
=============================================================================
