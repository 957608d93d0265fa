---------------------------- MODULE MCSimulation ----------------------------
(***************************************************************************)
(* An exposed web server, a vulnerable database and a control console      *)
(* behind it, which open no connection back; EDR guards all but the        *)
(* database. An outsider enters, an insider is there, two defenders answer.*)
(***************************************************************************)
EXTENDS Simulation

CONSTANTS web, db, hmi, out, ins, ana, rsp

MCSegmentOf == [h \in Hosts |-> IF h = web THEN "dmz" ELSE "lan"]
MCReachableFrom == [g \in Segments |-> IF g = "lan" THEN {"dmz"} ELSE {}]

\* The outsider enters and spreads; the insider escalates, takes credentials
\* and leaves with data; both defenders may isolate one host at a time.
MCAttackPlays == [a \in Attackers |->
  IF a = ins
  THEN {"exploit_local_vuln", "credential_dump", "pass_the_hash", "exfil_data"}
  ELSE {"phishing", "pivot_to_host"}]
MCDefensePlays == [d \in Defenders |->
  IF d = ana THEN {"isolate_host", "deploy_edr"}
  ELSE {"isolate_host", "revoke_credentials", "escalate"}]
=============================================================================
