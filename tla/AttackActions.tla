---------------------------- MODULE AttackActions ----------------------------
(***************************************************************************)
(* actions.py: the twenty actions of an attacker agent, the conditions     *)
(* under which they are offered and what they do. A probability strictly   *)
(* between 0 and 1 is a free choice; the code keeps each of them there     *)
(* (_defense_success_probability lies in [0.02, 0.85]).                    *)
(***************************************************************************)
EXTENDS Environment

\* The stage of each action, 1 for reconnaissance, 2 initial access, 3 execution,
\* 4 persistence, 5 privilege escalation, 6 lateral movement, 7 collection,
\* 8 command and control, 9 exfiltration, 10 impact.
StageOf == [
  port_scan |-> 1, osint_enum |-> 1, do_nothing |-> 1,
  exploit_public_service |-> 2, brute_force_creds |-> 2, phishing |-> 2,
  exploit_weak_password |-> 2,
  execute_command |-> 3, deploy_payload |-> 3,
  install_backdoor |-> 4, create_scheduled_task |-> 4, bypass_edr |-> 4, clear_logs |-> 4,
  exploit_local_vuln |-> 5, credential_dump |-> 5,
  pivot_to_host |-> 6, pass_the_hash |-> 6,
  dns_tunnel_c2 |-> 8, exfil_data |-> 9, encrypt_files |-> 10]

Attacks == DOMAIN StageOf

\* AgentState: what an agent knows and holds.
AgentState == [discovered : SUBSET Hosts, compromised : SUBSET Hosts, admin : SUBSET Hosts,
               dumped : SUBSET Hosts, persistence : SUBSET Hosts, bypassed : SUBSET Hosts,
               exfiltrated : BOOLEAN]

\* What a kill chain looks like (KillChain of the simulation and of followers).
Chained(s) ==
  /\ s.admin \cup s.persistence \cup s.bypassed \subseteq s.compromised
  /\ s.compromised \subseteq s.discovered
  /\ s.dumped \subseteq s.admin
  /\ s.exfiltrated => s.compromised \ LowValue # {}

Outsider == [discovered |-> {}, compromised |-> {}, admin |-> {}, dumped |-> {},
             persistence |-> {}, bypassed |-> {}, exfiltrated |-> FALSE]

\* Where insiders start: the first host that is neither exposed nor critical.
\* The agent holds it; the host itself is not marked as compromised.
Internal == Hosts \ (Exposed \cup Critical)
Inside == IF Internal = {} THEN {} ELSE {CHOOSE h \in Internal : TRUE}

Insider == [Outsider EXCEPT !.discovered = Inside, !.compromised = Inside]

(***************************************************************************)
(* get_available_actions: the prerequisites of each action.                *)
(***************************************************************************)
CanSpread(e, s) == \E src \in s.compromised : Reachable(e, src) \ s.compromised # {}

Prerequisite(act, e, s) ==
  CASE act \in {"port_scan", "phishing"} -> Hosts # {}
    [] act = "osint_enum" -> Exposed # {}
    [] act = "exploit_public_service" -> s.discovered \cap Vulnerable # {}
    [] act \in {"brute_force_creds", "exploit_weak_password"} -> s.discovered # {}
    [] act \in {"execute_command", "install_backdoor", "dns_tunnel_c2"} -> s.compromised # {}
    [] act = "deploy_payload" -> s.compromised \ (e.edr \ s.bypassed) # {}
    [] act \in {"create_scheduled_task", "credential_dump", "clear_logs"} -> s.admin # {}
    [] act = "exploit_local_vuln" -> s.compromised \cap Vulnerable # {}
    [] act = "bypass_edr" -> (s.compromised \cap e.edr) \ s.bypassed # {}
    [] act = "pivot_to_host" -> CanSpread(e, s)
    [] act = "pass_the_hash" -> s.dumped # {} /\ CanSpread(e, s)
    [] act = "exfil_data" -> s.compromised \ LowValue # {}
    [] act = "encrypt_files" -> s.admin \cap s.persistence # {}
    [] OTHER -> TRUE

Available(e, s) == {act \in Attacks : Prerequisite(act, e, s)}

(***************************************************************************)
(* The outcomes of an action: what becomes of the environment and of the   *)
(* agent, the result, and whether the security monitoring noticed it.      *)
(***************************************************************************)
Outcome(e, s, r, d) == [env |-> e, agent |-> s, result |-> r, detected |-> d]

Succeeds(e, s) == {Outcome(e, s, "success", FALSE), Outcome(e, s, "detected", TRUE)}
Unseen(e, s, r) == {Outcome(e, s, r, FALSE)}
Noticed(e, s, r) == {Outcome(e, s, r, TRUE)}
Rolled(e, s, r) == Unseen(e, s, r) \cup Noticed(e, s, r)

\* The agent takes the host and knows it.
Foothold(e, s, h) ==
  Succeeds([e EXCEPT !.compromised = @ \cup {h}],
           [s EXCEPT !.compromised = @ \cup {h}, !.discovered = @ \cup {h}])

PortScan(e, s, h) == Succeeds(e, [s EXCEPT !.discovered = @ \cup {h}])

OsintEnum(e, s, h) == Succeeds(e, [s EXCEPT !.discovered = @ \cup Exposed])

ExploitPublicService(e, s, h) ==
  IF h \in Vulnerable THEN Rolled(e, s, "blocked") \cup Foothold(e, s, h)
  ELSE Rolled(e, s, "failure")

BruteForce(e, s, h) ==
  Rolled(e, s, IF h \in Mfa THEN "blocked" ELSE "failure") \cup Foothold(e, s, h)

Phishing(e, s, h) == Rolled(e, s, "failure") \cup Foothold(e, s, h)

WeakPassword(e, s, h) ==
  IF h \in Mfa \cup Patched THEN Rolled(e, s, "blocked") ELSE Foothold(e, s, h)

\* execute_command, dns_tunnel_c2: no effect beyond the trace.
OnFoothold(e, s, h) ==
  IF h \in s.compromised THEN Succeeds(e, s) ELSE Unseen(e, s, "failure")

\* EDR stops an agent that has not bypassed it on that host.
Guarded(e, s, h) == h \in e.edr \ s.bypassed

DeployPayload(e, s, h) ==
  IF h \notin s.compromised THEN Unseen(e, s, "failure")
  ELSE IF Guarded(e, s, h) THEN Noticed(e, s, "blocked")
  ELSE Succeeds(e, s)

\* install_backdoor with a foothold, create_scheduled_task with admin rights.
Persist(e, s, h, held) ==
  IF h \in held
  THEN Succeeds([e EXCEPT !.persistence = @ \cup {h}], [s EXCEPT !.persistence = @ \cup {h}])
  ELSE Unseen(e, s, "failure")

\* Mutant: the agent's state is updated and the host's is not.
LocalVulnMutant(e, s, h) ==
  IF h \notin s.compromised THEN Unseen(e, s, "failure")
  ELSE IF h \notin Vulnerable THEN Rolled(e, s, "failure")
  ELSE Rolled(e, s, "failure") \cup Succeeds(e, [s EXCEPT !.admin = @ \cup {h}])

\* Mutant: that the agent holds some vulnerable host is all that is asked.
LocalVulnAnywhereMutant(e, s, h) ==
  IF h \notin Vulnerable THEN Rolled(e, s, "failure")
  ELSE Rolled(e, s, "failure")
       \cup Succeeds([e EXCEPT !.admin = @ \cup {h}], [s EXCEPT !.admin = @ \cup {h}])

LocalVuln(e, s, h) ==
  IF h \notin s.compromised THEN Unseen(e, s, "failure")
  ELSE IF h \notin Vulnerable THEN Rolled(e, s, "failure")
  ELSE Rolled(e, s, "failure")
       \cup Succeeds([e EXCEPT !.admin = @ \cup {h}], [s EXCEPT !.admin = @ \cup {h}])

CredentialDump(e, s, h) ==
  IF h \notin s.admin THEN Unseen(e, s, "failure")
  ELSE IF Guarded(e, s, h) THEN Noticed(e, s, "blocked")
  ELSE Succeeds([e EXCEPT !.dumped = @ \cup {h}], [s EXCEPT !.dumped = @ \cup {h}])

BypassEdr(e, s, h) ==
  IF h \in s.compromised \cap e.edr
  THEN Rolled(e, s, "failure") \cup Succeeds(e, [s EXCEPT !.bypassed = @ \cup {h}])
  ELSE Unseen(e, s, "failure")

ClearLogs(e, s, h) ==
  IF h \in s.admin THEN Succeeds(e, s) ELSE Unseen(e, s, "failure")

\* Some foothold must reach the target now, whatever was offered before.
HasRoute(e, s, h) == \E src \in s.compromised : h \in Reachable(e, src)

PivotToHost(e, s, h) ==
  IF HasRoute(e, s, h) THEN Rolled(e, s, "blocked") \cup Foothold(e, s, h)
  ELSE Unseen(e, s, "failure")

PassTheHash(e, s, h) ==
  IF s.dumped = {} \/ ~HasRoute(e, s, h) THEN Unseen(e, s, "failure")
  ELSE Rolled(e, s, "blocked")
       \cup Foothold([e EXCEPT !.admin = @ \cup {h}], [s EXCEPT !.admin = @ \cup {h}], h)

ExfilData(e, s, h) ==
  IF h \notin s.compromised THEN Unseen(e, s, "failure")
  ELSE IF h \in LowValue THEN Rolled(e, s, "failure")
  ELSE Succeeds(e, [s EXCEPT !.exfiltrated = TRUE])

EncryptFiles(e, s, h) ==
  IF h \in s.admin \cap s.persistence THEN Succeeds(e, s) ELSE Unseen(e, s, "failure")

Evaluate(act, e, s, h) ==
  CASE act = "port_scan" -> PortScan(e, s, h)
    [] act = "osint_enum" -> OsintEnum(e, s, h)
    [] act = "exploit_public_service" -> ExploitPublicService(e, s, h)
    [] act = "brute_force_creds" -> BruteForce(e, s, h)
    [] act = "phishing" -> Phishing(e, s, h)
    [] act = "exploit_weak_password" -> WeakPassword(e, s, h)
    [] act \in {"execute_command", "dns_tunnel_c2"} -> OnFoothold(e, s, h)
    [] act = "deploy_payload" -> DeployPayload(e, s, h)
    [] act = "install_backdoor" -> Persist(e, s, h, s.compromised)
    [] act = "create_scheduled_task" -> Persist(e, s, h, s.admin)
    [] act = "exploit_local_vuln" -> LocalVuln(e, s, h)
    [] act = "credential_dump" -> CredentialDump(e, s, h)
    [] act = "bypass_edr" -> BypassEdr(e, s, h)
    [] act = "clear_logs" -> ClearLogs(e, s, h)
    [] act = "pivot_to_host" -> PivotToHost(e, s, h)
    [] act = "pass_the_hash" -> PassTheHash(e, s, h)
    [] act = "exfil_data" -> ExfilData(e, s, h)
    [] act = "encrypt_files" -> EncryptFiles(e, s, h)
    [] OTHER -> Unseen(e, s, "success")

\* Mutant: an isolated host is checked only when routes are computed.
ExecuteMutant(act, e, s, h) ==
  IF h \in e.blocked THEN Noticed(e, s, "blocked")
  ELSE IF e.revoked /\ act = "pass_the_hash" THEN Noticed(e, s, "blocked")
  ELSE IF e.revoked /\ act = "credential_dump" THEN Noticed(e, s, "failure")
  ELSE Evaluate(act, e, s, h)

(***************************************************************************)
(* execute_action: what the defenders did comes first, and is detected     *)
(* whatever the action is.                                                 *)
(***************************************************************************)
Execute(act, e, s, h) ==
  IF h \in e.blocked \cup e.isolated THEN Noticed(e, s, "blocked")
  ELSE IF e.revoked /\ act = "pass_the_hash" THEN Noticed(e, s, "blocked")
  ELSE IF e.revoked /\ act = "credential_dump" THEN Noticed(e, s, "failure")
  ELSE Evaluate(act, e, s, h)

\* The stage a trace shows; a dump refused for revoked credentials is filed
\* under a stage of its own that no list contains.
StageShown(act, e, h) ==
  IF act = "credential_dump" /\ e.revoked /\ h \notin e.blocked \cup e.isolated THEN 0
  ELSE StageOf[act]
=============================================================================
