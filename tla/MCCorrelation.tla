--------------------------- MODULE MCCorrelation ---------------------------
(***************************************************************************)
(* Instances of Correlation for TLC: alerts of one attacker moving on      *)
(* (web, then db), of a second host, and one as wazuh-integration sends it *)
(* (no addresses, no tactics).                                             *)
(***************************************************************************)
EXTENDS Correlation, TLC

Alert(src, dst, time, sev, stage) ==
  [src |-> src, dst |-> dst, time |-> time, sev |-> sev, stage |-> stage]

Scan == Alert("attacker", "web", 0, 2, 0)
Exploit == Alert("attacker", "web", 8, 4, 2)
Move == Alert("attacker", "db", 12, 3, 5)
Return == Alert("web", "db", 30, 3, 5)
Bare == Alert(None, None, 0, 1, NoStage)

Campaign == {Scan, Exploit, Move, Return, Bare}
FewAlerts == {Scan, Exploit, Move}

RequestSymmetry == Permutations(Requests)
=============================================================================
