--------------------------- MODULE MCDefensePlanner ---------------------------
(***************************************************************************)
(* A web server, a critical database whose address text contains the web   *)
(* server's, and an attacker outside; incidents of three kinds that bring  *)
(* every countermeasure of the registry but one into some plan.            *)
(***************************************************************************)
EXTENDS DefensePlanner

CONSTANTS web, db, bad

MCCriticalityOf == [ip \in Addresses |-> IF ip = db THEN "critical" ELSE IF ip = web THEN "high" ELSE "low"]
MCContaining == [ip \in Addresses |-> IF ip = web THEN {web, db} ELSE {ip}]

Entry == {<<"T1190", "">>, <<"T1059", "001">>}
Spread == {<<"T1021", "001">>, <<"T1003", "002">>, <<"T1071", "004">>}
Ransom == {<<"T1486", "">>, <<"T1133", "">>, <<"T1110", "001">>}
MCIncidents == [techniques : {Entry, Spread, Ransom, {}}, active : BOOLEAN,
                sources : {{}, {bad}, {bad, db}}, dests : {{}, {web}, {db}, {web, db}}]
MCEvidence == [compromised : {{}, {web}}, edr : BOOLEAN, mfa : {FALSE},
               weakest : {{}, {<<db, "no EDR">>}, {<<web, "CVE">>, <<db, "no MFA">>}},
               rate : {0, 30}]
=============================================================================
