---------------------------- MODULE CampaignProofs ----------------------------
(***************************************************************************)
(* Theorems about Simulation and Follower, for every environment, every    *)
(* number of agents and timesteps, and every action the model may name.    *)
(***************************************************************************)
EXTENDS Simulation, Follower, TLAPS

-----------------------------------------------------------------------------
(* What an attacker's action may do.                                        *)

\* One field of a host and of the agent: neither changes, or both gain h.
Both(e, s, e2, s2, h) ==
  \/ e2 = e /\ s2 = s
  \/ e2 = e \cup {h} /\ s2 = s \cup {h}

Lawful(e, s, h, o) ==
  /\ o.env \in EnvState /\ o.agent \in AgentState /\ o.detected \in BOOLEAN
  /\ o.env.edr = e.edr /\ o.env.isolated = e.isolated
  /\ o.env.blocked = e.blocked /\ o.env.revoked = e.revoked
  /\ Both(e.compromised, s.compromised, o.env.compromised, o.agent.compromised, h)
  /\ Both(e.admin, s.admin, o.env.admin, o.agent.admin, h)
  /\ Both(e.persistence, s.persistence, o.env.persistence, o.agent.persistence, h)
  /\ Both(e.dumped, s.dumped, o.env.dumped, o.agent.dumped, h)
  /\ o.agent.bypassed \in {s.bypassed, s.bypassed \cup {h}}
  /\ Chained(s) => Chained(o.agent)

\* Lawful, and no credentials are taken.
Discreet(e, s, h, o) ==
  Lawful(e, s, h, o) /\ o.env.dumped = e.dumped /\ o.agent.dumped = s.dumped

\* The parts of the outcome of an action that succeeds, or of any other.
LEMMA SuccessParts ==
  ASSUME NEW e, NEW s, NEW o \in Succeeds(e, s)
  PROVE  o.env = e /\ o.agent = s /\ o.detected \in BOOLEAN
<1>1. CASE o = Outcome(e, s, "success", FALSE)
  BY <1>1 DEF Outcome
<1>2. CASE o = Outcome(e, s, "detected", TRUE)
  BY <1>2 DEF Outcome
<1>3. QED
  BY <1>1, <1>2 DEF Succeeds

LEMMA FailureParts ==
  ASSUME NEW e, NEW s, NEW r, NEW o \in Rolled(e, s, r) \cup Unseen(e, s, r) \cup Noticed(e, s, r)
  PROVE  o.env = e /\ o.agent = s /\ o.detected \in BOOLEAN
<1>1. CASE o = Outcome(e, s, r, FALSE)
  BY <1>1 DEF Outcome
<1>2. CASE o = Outcome(e, s, r, TRUE)
  BY <1>2 DEF Outcome
<1>3. QED
  BY <1>1, <1>2 DEF Rolled, Unseen, Noticed

\* An action that leaves the host and the agent as they are.
LEMMA NothingGained ==
  ASSUME NEW e \in EnvState, NEW s \in AgentState, NEW h \in Hosts, NEW o,
         o.env = e, o.agent = s, o.detected \in BOOLEAN
  PROVE  Discreet(e, s, h, o)
<1>1. Chained(s) => Chained(o.agent)
  OBVIOUS
<1>2. o.env \in EnvState /\ o.agent \in AgentState
  OBVIOUS
<1>3. QED
  BY <1>1, <1>2 DEF Discreet, Lawful, Both

LEMMA FailureGainsNothing ==
  ASSUME NEW e \in EnvState, NEW s \in AgentState, NEW h \in Hosts, NEW r,
         NEW o \in Rolled(e, s, r) \cup Unseen(e, s, r) \cup Noticed(e, s, r)
  PROVE  Discreet(e, s, h, o) /\ o.env = e /\ o.agent = s
<1>1. o.env = e /\ o.agent = s /\ o.detected \in BOOLEAN
  BY FailureParts
<1>2. QED
  BY <1>1, NothingGained

LEMMA TraceGainsNothing ==
  ASSUME NEW e \in EnvState, NEW s \in AgentState, NEW h \in Hosts, NEW o \in Succeeds(e, s)
  PROVE  Discreet(e, s, h, o)
<1>1. o.env = e /\ o.agent = s /\ o.detected \in BOOLEAN
  BY SuccessParts
<1>2. QED
  BY <1>1, NothingGained

\* A success that changes the host to e2 and the agent to s2.
LEMMA SuccessGains ==
  ASSUME NEW e \in EnvState, NEW s \in AgentState, NEW h \in Hosts,
         NEW e2 \in EnvState, NEW s2 \in AgentState, NEW o \in Succeeds(e2, s2),
         e2.edr = e.edr, e2.isolated = e.isolated, e2.blocked = e.blocked, e2.revoked = e.revoked,
         Both(e.compromised, s.compromised, e2.compromised, s2.compromised, h),
         Both(e.admin, s.admin, e2.admin, s2.admin, h),
         Both(e.persistence, s.persistence, e2.persistence, s2.persistence, h),
         Both(e.dumped, s.dumped, e2.dumped, s2.dumped, h),
         s2.bypassed \in {s.bypassed, s.bypassed \cup {h}},
         Chained(s) => Chained(s2)
  PROVE  /\ Lawful(e, s, h, o)
         /\ e2.dumped = e.dumped /\ s2.dumped = s.dumped => Discreet(e, s, h, o)
<1>1. o.env = e2 /\ o.agent = s2 /\ o.detected \in BOOLEAN
  BY SuccessParts
<1>2. Chained(s) => Chained(o.agent)
  BY <1>1
<1>3. o.env \in EnvState /\ o.agent \in AgentState
  BY <1>1
<1>4. Lawful(e, s, h, o)
  BY <1>1, <1>2, <1>3 DEF Lawful
<1>5. QED
  BY <1>1, <1>4 DEF Discreet

\* A foothold on a host.
LEMMA FootholdGains ==
  ASSUME NEW e \in EnvState, NEW s \in AgentState, NEW h \in Hosts,
         NEW o \in Foothold(e, s, h)
  PROVE  Discreet(e, s, h, o)
<1> DEFINE e2 == [e EXCEPT !.compromised = @ \cup {h}]
           s2 == [s EXCEPT !.compromised = @ \cup {h}, !.discovered = @ \cup {h}]
<1>1. o \in Succeeds(e2, s2)
  BY DEF Foothold
<1>2. e2 \in EnvState /\ s2 \in AgentState
  BY DEF EnvState, AgentState
<1>3. Chained(s) => Chained(s2)
  BY DEF Chained, AgentState
<1>4. /\ e2.edr = e.edr /\ e2.isolated = e.isolated /\ e2.blocked = e.blocked
      /\ e2.revoked = e.revoked /\ e2.dumped = e.dumped /\ s2.dumped = s.dumped
      /\ s2.bypassed = s.bypassed
      /\ Both(e.compromised, s.compromised, e2.compromised, s2.compromised, h)
      /\ Both(e.admin, s.admin, e2.admin, s2.admin, h)
      /\ Both(e.persistence, s.persistence, e2.persistence, s2.persistence, h)
      /\ Both(e.dumped, s.dumped, e2.dumped, s2.dumped, h)
  BY DEF Both, EnvState, AgentState
<1> HIDE DEF e2, s2
<1>5. QED
  BY <1>1, <1>2, <1>3, <1>4, SuccessGains

\* Reconnaissance: the agent learns of a host, or of all exposed ones.
LEMMA PortScanGains ==
  ASSUME NEW e \in EnvState, NEW s \in AgentState, NEW h \in Hosts,
         NEW o \in PortScan(e, s, h)
  PROVE  Discreet(e, s, h, o)
<1> DEFINE e2 == e
           s2 == [s EXCEPT !.discovered = @ \cup {h}]
<1>1. \/ Discreet(e, s, h, o)
      \/ o \in Succeeds(e2, s2)
  BY FailureGainsNothing DEF PortScan
<1>2. e2 \in EnvState /\ s2 \in AgentState
  BY DEF EnvState, AgentState
<1>3. (Chained(s) => Chained(s2))
  BY DEF Chained, AgentState
<1>4. /\ e2.edr = e.edr /\ e2.isolated = e.isolated /\ e2.blocked = e.blocked
      /\ e2.revoked = e.revoked /\ e2.dumped = e.dumped /\ s2.dumped = s.dumped
      /\ s2.bypassed \in {s.bypassed, s.bypassed \cup {h}}
      /\ Both(e.compromised, s.compromised, e2.compromised, s2.compromised, h)
      /\ Both(e.admin, s.admin, e2.admin, s2.admin, h)
      /\ Both(e.persistence, s.persistence, e2.persistence, s2.persistence, h)
      /\ Both(e.dumped, s.dumped, e2.dumped, s2.dumped, h)
  BY DEF Both, EnvState, AgentState
<1> HIDE DEF e2, s2
<1>5. QED
  BY <1>1, <1>2, <1>3, <1>4, SuccessGains

LEMMA OsintGains ==
  ASSUME NEW e \in EnvState, NEW s \in AgentState, NEW h \in Hosts,
         NEW o \in OsintEnum(e, s, h)
  PROVE  Discreet(e, s, h, o)
<1> DEFINE e2 == e
           s2 == [s EXCEPT !.discovered = @ \cup Exposed]
<1>1. \/ Discreet(e, s, h, o)
      \/ o \in Succeeds(e2, s2)
  BY FailureGainsNothing DEF OsintEnum
<1>2. e2 \in EnvState /\ s2 \in AgentState
  BY EnvironmentAssumption DEF EnvState, AgentState
<1>3. (Chained(s) => Chained(s2))
  BY DEF Chained, AgentState
<1>4. /\ e2.edr = e.edr /\ e2.isolated = e.isolated /\ e2.blocked = e.blocked
      /\ e2.revoked = e.revoked /\ e2.dumped = e.dumped /\ s2.dumped = s.dumped
      /\ s2.bypassed \in {s.bypassed, s.bypassed \cup {h}}
      /\ Both(e.compromised, s.compromised, e2.compromised, s2.compromised, h)
      /\ Both(e.admin, s.admin, e2.admin, s2.admin, h)
      /\ Both(e.persistence, s.persistence, e2.persistence, s2.persistence, h)
      /\ Both(e.dumped, s.dumped, e2.dumped, s2.dumped, h)
  BY DEF Both, EnvState, AgentState
<1> HIDE DEF e2, s2
<1>5. QED
  BY <1>1, <1>2, <1>3, <1>4, SuccessGains

\* Persistence asks for a foothold or for admin rights.
LEMMA PersistGains ==
  ASSUME NEW e \in EnvState, NEW s \in AgentState, NEW h \in Hosts,
         NEW p \in {s.compromised, s.admin}, NEW o \in Persist(e, s, h, p)
  PROVE  Discreet(e, s, h, o)
<1> DEFINE e2 == [e EXCEPT !.persistence = @ \cup {h}]
           s2 == [s EXCEPT !.persistence = @ \cup {h}]
<1>1. \/ Discreet(e, s, h, o)
      \/ o \in Succeeds(e2, s2) /\ h \in s.compromised \cup s.admin
  BY FailureGainsNothing DEF Persist
<1>2. e2 \in EnvState /\ s2 \in AgentState
  BY DEF EnvState, AgentState
<1>3. h \in s.compromised \cup s.admin => (Chained(s) => Chained(s2))
  BY DEF Chained, AgentState
<1>4. /\ e2.edr = e.edr /\ e2.isolated = e.isolated /\ e2.blocked = e.blocked
      /\ e2.revoked = e.revoked /\ e2.dumped = e.dumped /\ s2.dumped = s.dumped
      /\ s2.bypassed \in {s.bypassed, s.bypassed \cup {h}}
      /\ Both(e.compromised, s.compromised, e2.compromised, s2.compromised, h)
      /\ Both(e.admin, s.admin, e2.admin, s2.admin, h)
      /\ Both(e.persistence, s.persistence, e2.persistence, s2.persistence, h)
      /\ Both(e.dumped, s.dumped, e2.dumped, s2.dumped, h)
  BY DEF Both, EnvState, AgentState
<1> HIDE DEF e2, s2
<1>5. QED
  BY <1>1, <1>2, <1>3, <1>4, SuccessGains

\* So does privilege escalation.
LEMMA LocalVulnGains ==
  ASSUME NEW e \in EnvState, NEW s \in AgentState, NEW h \in Hosts,
         NEW o \in LocalVuln(e, s, h)
  PROVE  Discreet(e, s, h, o)
<1> DEFINE e2 == [e EXCEPT !.admin = @ \cup {h}]
           s2 == [s EXCEPT !.admin = @ \cup {h}]
<1>1. \/ Discreet(e, s, h, o)
      \/ o \in Succeeds(e2, s2) /\ h \in s.compromised
  BY FailureGainsNothing DEF LocalVuln
<1>2. e2 \in EnvState /\ s2 \in AgentState
  BY DEF EnvState, AgentState
<1>3. h \in s.compromised => (Chained(s) => Chained(s2))
  BY DEF Chained, AgentState
<1>4. /\ e2.edr = e.edr /\ e2.isolated = e.isolated /\ e2.blocked = e.blocked
      /\ e2.revoked = e.revoked /\ e2.dumped = e.dumped /\ s2.dumped = s.dumped
      /\ s2.bypassed \in {s.bypassed, s.bypassed \cup {h}}
      /\ Both(e.compromised, s.compromised, e2.compromised, s2.compromised, h)
      /\ Both(e.admin, s.admin, e2.admin, s2.admin, h)
      /\ Both(e.persistence, s.persistence, e2.persistence, s2.persistence, h)
      /\ Both(e.dumped, s.dumped, e2.dumped, s2.dumped, h)
  BY DEF Both, EnvState, AgentState
<1> HIDE DEF e2, s2
<1>5. QED
  BY <1>1, <1>2, <1>3, <1>4, SuccessGains

\* Credentials are dumped where the agent is admin.
LEMMA DumpGains ==
  ASSUME NEW e \in EnvState, NEW s \in AgentState, NEW h \in Hosts,
         NEW o \in CredentialDump(e, s, h)
  PROVE  Lawful(e, s, h, o)
<1> DEFINE e2 == [e EXCEPT !.dumped = @ \cup {h}]
           s2 == [s EXCEPT !.dumped = @ \cup {h}]
<1>1. \/ Discreet(e, s, h, o)
      \/ o \in Succeeds(e2, s2) /\ h \in s.admin
  BY FailureGainsNothing DEF CredentialDump
<1>2. e2 \in EnvState /\ s2 \in AgentState
  BY DEF EnvState, AgentState
<1>3. h \in s.admin => (Chained(s) => Chained(s2))
  BY DEF Chained, AgentState
<1>4. /\ e2.edr = e.edr /\ e2.isolated = e.isolated /\ e2.blocked = e.blocked
      /\ e2.revoked = e.revoked
      /\ s2.bypassed \in {s.bypassed, s.bypassed \cup {h}}
      /\ Both(e.compromised, s.compromised, e2.compromised, s2.compromised, h)
      /\ Both(e.admin, s.admin, e2.admin, s2.admin, h)
      /\ Both(e.persistence, s.persistence, e2.persistence, s2.persistence, h)
      /\ Both(e.dumped, s.dumped, e2.dumped, s2.dumped, h)
  BY DEF Both, EnvState, AgentState
<1> HIDE DEF e2, s2
<1>5. QED
  BY <1>1, <1>2, <1>3, <1>4, SuccessGains DEF Discreet

\* EDR is bypassed on a foothold.
LEMMA BypassGains ==
  ASSUME NEW e \in EnvState, NEW s \in AgentState, NEW h \in Hosts,
         NEW o \in BypassEdr(e, s, h)
  PROVE  Discreet(e, s, h, o)
<1> DEFINE e2 == e
           s2 == [s EXCEPT !.bypassed = @ \cup {h}]
<1>1. \/ Discreet(e, s, h, o)
      \/ o \in Succeeds(e2, s2) /\ h \in s.compromised
  BY FailureGainsNothing DEF BypassEdr
<1>2. e2 \in EnvState /\ s2 \in AgentState
  BY DEF EnvState, AgentState
<1>3. h \in s.compromised => (Chained(s) => Chained(s2))
  BY DEF Chained, AgentState
<1>4. /\ e2.edr = e.edr /\ e2.isolated = e.isolated /\ e2.blocked = e.blocked
      /\ e2.revoked = e.revoked /\ e2.dumped = e.dumped /\ s2.dumped = s.dumped
      /\ s2.bypassed \in {s.bypassed, s.bypassed \cup {h}}
      /\ Both(e.compromised, s.compromised, e2.compromised, s2.compromised, h)
      /\ Both(e.admin, s.admin, e2.admin, s2.admin, h)
      /\ Both(e.persistence, s.persistence, e2.persistence, s2.persistence, h)
      /\ Both(e.dumped, s.dumped, e2.dumped, s2.dumped, h)
  BY DEF Both, EnvState, AgentState
<1> HIDE DEF e2, s2
<1>5. QED
  BY <1>1, <1>2, <1>3, <1>4, SuccessGains

\* Data leave from a foothold worth it.
LEMMA ExfilGains ==
  ASSUME NEW e \in EnvState, NEW s \in AgentState, NEW h \in Hosts,
         NEW o \in ExfilData(e, s, h)
  PROVE  Discreet(e, s, h, o)
<1> DEFINE e2 == e
           s2 == [s EXCEPT !.exfiltrated = TRUE]
<1>1. \/ Discreet(e, s, h, o)
      \/ o \in Succeeds(e2, s2) /\ h \in s.compromised \ LowValue
  BY FailureGainsNothing DEF ExfilData
<1>2. e2 \in EnvState /\ s2 \in AgentState
  BY DEF EnvState, AgentState
<1>3. h \in s.compromised \ LowValue => (Chained(s) => Chained(s2))
  BY DEF Chained, AgentState
<1>4. /\ e2.edr = e.edr /\ e2.isolated = e.isolated /\ e2.blocked = e.blocked
      /\ e2.revoked = e.revoked /\ e2.dumped = e.dumped /\ s2.dumped = s.dumped
      /\ s2.bypassed \in {s.bypassed, s.bypassed \cup {h}}
      /\ Both(e.compromised, s.compromised, e2.compromised, s2.compromised, h)
      /\ Both(e.admin, s.admin, e2.admin, s2.admin, h)
      /\ Both(e.persistence, s.persistence, e2.persistence, s2.persistence, h)
      /\ Both(e.dumped, s.dumped, e2.dumped, s2.dumped, h)
  BY DEF Both, EnvState, AgentState
<1> HIDE DEF e2, s2
<1>5. QED
  BY <1>1, <1>2, <1>3, <1>4, SuccessGains

\* The hash of a dumped credential gives a foothold with admin rights.
LEMMA PassTheHashGains ==
  ASSUME NEW e \in EnvState, NEW s \in AgentState, NEW h \in Hosts,
         NEW o \in PassTheHash(e, s, h)
  PROVE  Discreet(e, s, h, o)
<1> DEFINE e1 == [e EXCEPT !.admin = @ \cup {h}]
           s1 == [s EXCEPT !.admin = @ \cup {h}]
           e2 == [e1 EXCEPT !.compromised = @ \cup {h}]
           s2 == [s1 EXCEPT !.compromised = @ \cup {h}, !.discovered = @ \cup {h}]
<1>1. \/ Discreet(e, s, h, o)
      \/ o \in Succeeds(e2, s2)
  BY FailureGainsNothing DEF PassTheHash, Foothold
<1>2. e1 \in EnvState /\ s1 \in AgentState
  BY DEF EnvState, AgentState
<1>3. /\ e1.edr = e.edr /\ e1.isolated = e.isolated /\ e1.blocked = e.blocked
      /\ e1.revoked = e.revoked /\ e1.dumped = e.dumped /\ e1.compromised = e.compromised
      /\ e1.persistence = e.persistence /\ e1.admin = e.admin \cup {h}
  BY DEF EnvState
<1>4. /\ s1.dumped = s.dumped /\ s1.bypassed = s.bypassed /\ s1.compromised = s.compromised
      /\ s1.discovered = s.discovered /\ s1.exfiltrated = s.exfiltrated
      /\ s1.persistence = s.persistence /\ s1.admin = s.admin \cup {h}
  BY DEF AgentState
<1> HIDE DEF e1, s1
<1>5. e2 \in EnvState /\ s2 \in AgentState
  BY <1>2 DEF EnvState, AgentState
<1>6. /\ e2.edr = e1.edr /\ e2.isolated = e1.isolated /\ e2.blocked = e1.blocked
      /\ e2.revoked = e1.revoked /\ e2.dumped = e1.dumped
      /\ e2.persistence = e1.persistence /\ e2.admin = e1.admin
      /\ e2.compromised = e1.compromised \cup {h}
  BY <1>2 DEF EnvState
<1>7. /\ s2.dumped = s1.dumped /\ s2.bypassed = s1.bypassed
      /\ s2.exfiltrated = s1.exfiltrated
      /\ s2.persistence = s1.persistence /\ s2.admin = s1.admin
      /\ s2.compromised = s1.compromised \cup {h} /\ s2.discovered = s1.discovered \cup {h}
  BY <1>2 DEF AgentState
<1> HIDE DEF e2, s2
<1>8. Chained(s) => Chained(s2)
  BY <1>4, <1>7 DEF Chained
<1>9. QED
  BY <1>1, <1>3, <1>4, <1>5, <1>6, <1>7, <1>8, SuccessGains DEF Both

\* Whatever the action, it is lawful, and only a dump takes credentials.
LEMMA EvaluateGains ==
  ASSUME NEW e \in EnvState, NEW s \in AgentState, NEW h \in Hosts, NEW act,
         NEW o \in Evaluate(act, e, s, h)
  PROVE  Lawful(e, s, h, o) /\ (act # "credential_dump" => Discreet(e, s, h, o))
<1>1. CASE act \in {"port_scan", "osint_enum"}
  BY <1>1, PortScanGains, OsintGains DEF Evaluate, Discreet
<1>2. CASE act = "exploit_public_service"
  BY <1>2, FailureGainsNothing, FootholdGains DEF Evaluate, ExploitPublicService, Discreet
<1>3. CASE act = "brute_force_creds"
  BY <1>3, FailureGainsNothing, FootholdGains DEF Evaluate, BruteForce, Discreet
<1>4. CASE act = "phishing"
  BY <1>4, FailureGainsNothing, FootholdGains DEF Evaluate, Phishing, Discreet
<1>5. CASE act = "exploit_weak_password"
  BY <1>5, FailureGainsNothing, FootholdGains DEF Evaluate, WeakPassword, Discreet
<1>6. CASE act \in {"execute_command", "dns_tunnel_c2"}
  BY <1>6, FailureGainsNothing, TraceGainsNothing DEF Evaluate, OnFoothold, Discreet
<1>7. CASE act = "deploy_payload"
  BY <1>7, FailureGainsNothing, TraceGainsNothing DEF Evaluate, DeployPayload, Discreet
<1>8. CASE act \in {"install_backdoor", "create_scheduled_task"}
  BY <1>8, PersistGains DEF Evaluate, Discreet
<1>9. CASE act = "exploit_local_vuln"
  BY <1>9, LocalVulnGains DEF Evaluate, Discreet
<1>10. CASE act = "credential_dump"
  BY <1>10, DumpGains DEF Evaluate
<1>11. CASE act = "bypass_edr"
  BY <1>11, BypassGains DEF Evaluate, Discreet
<1>12. CASE act \in {"clear_logs", "encrypt_files"}
  BY <1>12, FailureGainsNothing, TraceGainsNothing DEF Evaluate, ClearLogs, EncryptFiles, Discreet
<1>13. CASE act = "pivot_to_host"
  BY <1>13, FailureGainsNothing, FootholdGains DEF Evaluate, PivotToHost, Discreet
<1>14. CASE act = "pass_the_hash"
  BY <1>14, PassTheHashGains DEF Evaluate, Discreet
<1>15. CASE act = "exfil_data"
  BY <1>15, ExfilGains DEF Evaluate, Discreet
<1>16. CASE act \notin Attacks \/ act = "do_nothing"
  <2>1. o \in Unseen(e, s, "success")
    BY <1>16 DEF Evaluate, Attacks, StageOf
  <2>2. QED
    BY <2>1, FailureGainsNothing DEF Discreet
<1>17. QED
  BY <1>1, <1>2, <1>3, <1>4, <1>5, <1>6, <1>7, <1>8, <1>9, <1>10, <1>11, <1>12, <1>13, <1>14,
     <1>15, <1>16 DEF Attacks, StageOf

\* Nothing is gained on a contained host, and no credentials after a revocation.
LEMMA ExecuteGains ==
  ASSUME NEW e \in EnvState, NEW s \in AgentState, NEW h \in Hosts, NEW act,
         NEW o \in Execute(act, e, s, h)
  PROVE  /\ Lawful(e, s, h, o)
         /\ h \in e.blocked \cup e.isolated => o.env = e /\ o.agent = s
         /\ e.revoked => o.env.dumped = e.dumped /\ o.agent.dumped = s.dumped
<1>1. CASE o \in Noticed(e, s, "blocked") \cup Noticed(e, s, "failure")
  BY <1>1, FailureGainsNothing DEF Discreet
<1>2. CASE /\ o \in Evaluate(act, e, s, h) /\ h \notin e.blocked \cup e.isolated
           /\ e.revoked => act # "credential_dump"
  BY <1>2, EvaluateGains DEF Discreet
<1>3. QED
  BY <1>1, <1>2 DEF Execute

-----------------------------------------------------------------------------
(* The simulation.                                                          *)

\* The sides take turns.
Turns ==
  /\ phase = "attack" => \A d \in Defenders : pc[d] = "done"
  /\ phase = "defend" => \A a \in Attackers : pc[a] = "done"
  /\ phase = "reported" => \A x \in Agents : pc[x] = "done"

\* A defender sees hosts, never actions.
DefendersSeeHosts == \A d \in Defenders : view[d] \subseteq Hosts

\* After the report the environment is the one of the beginning, but for EDR.
WasReset == phase = "reported" => env = Reset(env)

SInv ==
  TypeOK /\ Turns /\ DefendersSeeHosts /\ WasReset /\ KillChain /\ GroundTruth /\ Authorship
    /\ ReportConsistent

\* What the agents of A hold together in a part of their state.
Gathered(f, A, part) == UNION {f[x][part] : x \in A}

\* If an agent and the environment gain a host together, they still agree.
LEMMA GatheredGains ==
  ASSUME NEW A, NEW f, DOMAIN f = A, NEW x \in A, NEW t, NEW g, g = [f EXCEPT ![x] = t],
         NEW part, NEW e, NEW e2, NEW h,
         Both(e, f[x][part], e2, t[part], h), e = Gathered(f, A, part)
  PROVE  e2 = Gathered(g, A, part)
<1>1. \A y \in A : g[y] = IF y = x THEN t ELSE f[y]
  OBVIOUS
<1>2. CASE e2 = e /\ t[part] = f[x][part]
  BY <1>1, <1>2 DEF Gathered
<1>3. CASE e2 = e \cup {h} /\ t[part] = f[x][part] \cup {h}
  <2>1. ASSUME NEW z \in e2 PROVE z \in Gathered(g, A, part)
    BY <1>1, <1>3, <2>1 DEF Gathered
  <2>2. ASSUME NEW z \in Gathered(g, A, part) PROVE z \in e2
    BY <1>1, <1>3, <2>2 DEF Gathered
  <2>3. QED
    BY <2>1, <2>2
<1>4. QED
  BY <1>2, <1>3 DEF Both

\* The first footholds of the insiders (I) are all that a host need not show.
Shows(e, all, I) == e \subseteq all /\ all \subseteq e \cup I

LEMMA StartingStates ==
  /\ Inside \subseteq Hosts
  /\ Outsider \in AgentState /\ Insider \in AgentState /\ Chained(Outsider) /\ Chained(Insider)
  /\ Insider = [Outsider EXCEPT !.discovered = Inside, !.compromised = Inside]
  /\ \A s \in {Outsider, Insider} :
       /\ s.admin = {} /\ s.persistence = {} /\ s.dumped = {} /\ s.bypassed = {}
       /\ s.compromised \subseteq Inside
<1>1. Inside \subseteq Hosts
  BY DEF Inside, Internal
<1>2. Outsider \in AgentState /\ Chained(Outsider)
  BY DEF Outsider, AgentState, Chained
<1>3. Insider \in AgentState /\ Chained(Insider)
  BY <1>1, <1>2 DEF Insider, Outsider, AgentState, Chained
<1>4. QED
  BY <1>1, <1>2, <1>3 DEF Insider, Outsider

LEMMA LoadedTyped == Loaded \in EnvState /\ \A e \in EnvState : Reset(e) \in EnvState
  BY EnvironmentAssumption DEF Loaded, Reset, EnvState

\* New agents hold nothing but the first footholds of the insiders.
LEMMA FreshAttackers ==
  /\ Newcomers \in [Attackers -> AgentState] /\ \A a \in Attackers : Chained(Newcomers[a])
  /\ Gathered(Newcomers, Attackers, "compromised") \subseteq Inside
  /\ Gathered(Newcomers, Attackers, "admin") = {}
  /\ Gathered(Newcomers, Attackers, "persistence") = {}
  /\ Gathered(Newcomers, Attackers, "dumped") = {}
<1>1. \A a \in Attackers : Newcomers[a] \in {Outsider, Insider}
  BY DEF Newcomers, Starting
<1>2. Newcomers \in [Attackers -> AgentState] /\ \A a \in Attackers : Chained(Newcomers[a])
  BY <1>1, StartingStates DEF Newcomers
<1>3. \A a \in Attackers : /\ Newcomers[a].compromised \subseteq Inside
                           /\ Newcomers[a].admin = {} /\ Newcomers[a].persistence = {}
                           /\ Newcomers[a].dumped = {}
  BY <1>1, StartingStates
<1>4. QED
  BY <1>2, <1>3 DEF Gathered

LEMMA FreshDefenders ==
  /\ Novices \in [Defenders -> DefenderState]
  /\ \A d \in Defenders : /\ Novices[d].blocked = {} /\ Novices[d].isolated = {}
                          /\ Novices[d].edr = {} /\ Novices[d].revoked = FALSE
  /\ Gathered(Novices, Defenders, "blocked") = {}
  /\ Gathered(Novices, Defenders, "isolated") = {}
  /\ Gathered(Novices, Defenders, "edr") = {}
<1>1. Novice \in DefenderState
  BY DEF Novice, DefenderState
<1>2. \A d \in Defenders : /\ Novices[d].blocked = {} /\ Novices[d].isolated = {}
                           /\ Novices[d].edr = {} /\ Novices[d].revoked = FALSE
  BY DEF Novices, Novice
<1>3. QED
  BY <1>1, <1>2 DEF Novices, Gathered

\* An environment that was loaded or reset shows nothing.
LEMMA FreshEnvironment ==
  ASSUME NEW e, e = Reset(e) \/ e = Loaded
  PROVE  /\ e.compromised = {} /\ e.admin = {} /\ e.persistence = {} /\ e.dumped = {}
         /\ e.isolated = {} /\ e.blocked = {} /\ e.revoked = FALSE
  BY DEF Reset, Loaded

LEMMA InitSInv == Init => SInv
<1> SUFFICES ASSUME Init PROVE SInv
  OBVIOUS
<1>1. TypeOK
  BY LoadedTyped, FreshAttackers, FreshDefenders, EnvironmentAssumption, SimulationAssumption
  DEF Init, TypeOK, Turn
<1>2. Turns /\ DefendersSeeHosts /\ WasReset /\ ReportConsistent
  BY SimulationAssumption DEF Init, Turns, Turn, DefendersSeeHosts, WasReset, ReportConsistent, Agents
<1>3. KillChain
  BY FreshAttackers DEF Init, KillChain
<1>4. GroundTruth
  <2>1. /\ env.compromised = {} /\ env.admin = {} /\ env.persistence = {} /\ env.dumped = {}
        /\ attacker = Newcomers
    BY FreshEnvironment DEF Init
  <2>2. QED
    BY <2>1, FreshAttackers DEF GroundTruth, Gathered
<1>5. Authorship
  <2>1. /\ env.isolated = {} /\ env.blocked = {} /\ env.revoked = FALSE
        /\ env.edr = baseline /\ defender = Novices
    BY FreshEnvironment DEF Init, Loaded
  <2>2. QED
    BY <2>1, FreshDefenders DEF Authorship, Gathered
<1>6. QED
  BY <1>1, <1>2, <1>3, <1>4, <1>5 DEF SInv

LEMMA NextRunKeeps == SInv /\ NextRun => SInv'
<1> SUFFICES ASSUME SInv, NextRun PROVE SInv'
  OBVIOUS
<1> USE DEF SInv
<1>1. TypeOK'
  BY FreshAttackers, FreshDefenders, SimulationAssumption DEF NextRun, TypeOK, Turn, EnvState
<1>2. Turns' /\ DefendersSeeHosts' /\ WasReset' /\ ReportConsistent'
  BY SimulationAssumption
  DEF NextRun, Turns, Turn, DefendersSeeHosts, WasReset, ReportConsistent, Agents
<1>3. KillChain'
  BY FreshAttackers DEF NextRun, KillChain
<1>4. env' = env /\ env = Reset(env)
  BY DEF NextRun, WasReset
<1>5. /\ env.compromised = {} /\ env.admin = {} /\ env.persistence = {} /\ env.dumped = {}
      /\ env.isolated = {} /\ env.blocked = {} /\ env.revoked = FALSE
  BY <1>4, FreshEnvironment
<1>6. GroundTruth'
  BY <1>4, <1>5, FreshAttackers DEF NextRun, GroundTruth, Gathered
<1>7. Authorship'
  <2>1. defender' = Novices /\ env' = env /\ baseline' = env.edr
    BY DEF NextRun
  <2>2. QED
    BY <1>5, <2>1, FreshDefenders DEF Authorship, Gathered
<1>8. QED
  BY <1>1, <1>2, <1>3, <1>6, <1>7

\* An agent takes a slot.
LEMMA BeginKeeps ==
  ASSUME SInv, NEW x \in Agents, NEW seen, Begin(x, seen), seen \subseteq Attacks \cup Hosts,
         x \in Defenders => seen \subseteq Hosts /\ phase = "defend",
         x \in Attackers => phase = "attack"
  PROVE  SInv'
<1> USE DEF SInv
<1>1. TypeOK'
  BY DEF TypeOK, Begin
<1>2. Turns' /\ DefendersSeeHosts' /\ WasReset' /\ ReportConsistent'
  BY SimulationAssumption
  DEF Begin, TypeOK, Turns, DefendersSeeHosts, WasReset, ReportConsistent, Agents
<1>3. UNCHANGED <<env, baseline, attacker, defender, phase>>
  BY DEF Begin
<1>4. KillChain'
  BY <1>3 DEF KillChain
<1>5. GroundTruth'
  BY <1>3 DEF GroundTruth
<1>6. Authorship'
  BY <1>3 DEF Authorship
<1>7. QED
  BY <1>1, <1>2, <1>4, <1>5, <1>6

LEMMA ObserveKeeps == ASSUME SInv, NEW a \in Attackers, Observe(a) PROVE SInv'
<1>1. Available(env, attacker[a]) \subseteq Attacks
  BY DEF Available
<1>2. a \in Agents /\ a \notin Defenders
  BY SimulationAssumption DEF Agents
<1>3. phase = "attack" /\ Begin(a, Available(env, attacker[a]))
  BY DEF Observe
<1>4. QED
  BY <1>1, <1>2, <1>3, BeginKeeps

LEMMA WatchKeeps == ASSUME SInv, NEW d \in Defenders, Watch(d) PROVE SInv'
<1> DEFINE seen == Watched(env) \cup {al.target : al \in alerts}
<1>1. seen \subseteq Hosts
  BY EnvironmentAssumption DEF SInv, TypeOK, EnvState, Watched, Sightings
<1>2. d \in Agents /\ d \notin Attackers
  BY SimulationAssumption DEF Agents
<1>3. phase = "defend" /\ Begin(d, seen)
  BY DEF Watch
<1> HIDE DEF seen
<1>4. QED
  BY <1>1, <1>2, <1>3, BeginKeeps

\* What an attacker decides is an attack on a host.
LEMMA AttackDecided ==
  ASSUME SInv, NEW a \in Attackers, NEW d \in AttackDecisions(a)
  PROVE  d[1] \in Attacks /\ d[2] \in Hosts
<1>1. attacker[a].admin \subseteq Hosts /\ attacker[a].compromised \subseteq Hosts
  BY DEF SInv, TypeOK, AgentState
<1>2. {"credential_dump", "exploit_local_vuln", "do_nothing"} \subseteq Attacks
  BY DEF Attacks, StageOf
<1>3. CASE d \in (AttackPlays[a] \cap view[a]) \X Hosts
  BY <1>3, SimulationAssumption
<1>4. CASE d \in AttackFallback(attacker[a], view[a])
  <2>1. \/ d \in {"credential_dump"} \X attacker[a].admin
        \/ d \in {"exploit_local_vuln"} \X attacker[a].compromised
        \/ d = <<"do_nothing", FirstHost>>
    BY <1>4 DEF AttackFallback
  <2>2. QED
    BY <1>1, <1>2, <2>1, EnvironmentAssumption
<1>5. QED
  BY <1>3, <1>4 DEF AttackDecisions

LEMMA StageRange ==
  ASSUME NEW act \in Attacks, NEW e, NEW h PROVE StageShown(act, e, h) \in 0..10
  BY DEF StageShown, Attacks, StageOf

LEMMA ActKeeps == ASSUME SInv, NEW a \in Attackers, Act(a) PROVE SInv'
<1> USE DEF SInv
<1>1. PICK d \in AttackDecisions(a) : \E o \in Execute(d[1], env, attacker[a], d[2]) :
        /\ env' = o.env
        /\ attacker' = [attacker EXCEPT ![a] = o.agent]
        /\ traces' = IF o.detected
                     THEN traces \cup {[target |-> d[2], stage |-> StageShown(d[1], env, d[2])]}
                     ELSE traces
  BY DEF Act
<1>2. PICK o \in Execute(d[1], env, attacker[a], d[2]) :
        /\ env' = o.env
        /\ attacker' = [attacker EXCEPT ![a] = o.agent]
        /\ traces' = IF o.detected
                     THEN traces \cup {[target |-> d[2], stage |-> StageShown(d[1], env, d[2])]}
                     ELSE traces
  BY <1>1
<1>3. /\ phase = "attack" /\ pc' = [pc EXCEPT ![a] = "done"] /\ view' = [view EXCEPT ![a] = {}]
      /\ UNCHANGED <<baseline, defender, phase, alerts, queue, filed, step, run, report>>
  BY DEF Act, Done
<1>4. d[1] \in Attacks /\ d[2] \in Hosts
  BY AttackDecided
<1>5. env \in EnvState /\ attacker \in [Attackers -> AgentState] /\ attacker[a] \in AgentState
  BY DEF TypeOK
<1>6. Lawful(env, attacker[a], d[2], o)
  BY <1>4, <1>5, ExecuteGains
<1>7. env' \in EnvState /\ attacker' \in [Attackers -> AgentState] /\ o.agent \in AgentState
  BY <1>2, <1>5, <1>6 DEF Lawful
<1>8. TypeOK'
  <2>1. traces' \in SUBSET TraceRecords
    BY <1>2, <1>4, StageRange DEF TypeOK, TraceRecords
  <2>2. QED
    BY <1>3, <1>7, <2>1 DEF TypeOK, Agents
<1>9. Turns' /\ DefendersSeeHosts' /\ WasReset' /\ ReportConsistent'
  BY <1>3, SimulationAssumption
  DEF TypeOK, Turns, DefendersSeeHosts, WasReset, ReportConsistent, Agents
<1>10. KillChain'
  BY <1>2, <1>5, <1>6 DEF Lawful, KillChain
<1>11. GroundTruth'
  <2>1. /\ Shows(env.compromised, Gathered(attacker, Attackers, "compromised"), Inside)
        /\ env.admin = Gathered(attacker, Attackers, "admin")
        /\ env.persistence = Gathered(attacker, Attackers, "persistence")
        /\ env.dumped = Gathered(attacker, Attackers, "dumped")
    BY <1>3 DEF GroundTruth, Gathered, Shows
  <2>2. DOMAIN attacker = Attackers /\ attacker' = [attacker EXCEPT ![a] = o.agent]
    BY <1>2, <1>5
  <2>3. Both(env.compromised, attacker[a]["compromised"], env'.compromised, o.agent["compromised"], d[2])
    BY <1>2, <1>6 DEF Lawful
  <2>4. Shows(env'.compromised, Gathered(attacker', Attackers, "compromised"), Inside)
    <3>1. \A y \in Attackers : attacker'[y] = IF y = a THEN o.agent ELSE attacker[y]
      BY <2>2
    <3>2. ASSUME NEW z \in env'.compromised
          PROVE  z \in Gathered(attacker', Attackers, "compromised")
      BY <2>1, <2>3, <3>1, <3>2 DEF Gathered, Both, Shows
    <3>3. ASSUME NEW z \in Gathered(attacker', Attackers, "compromised")
          PROVE  z \in env'.compromised \cup Inside
      BY <2>1, <2>3, <3>1, <3>3 DEF Gathered, Both, Shows
    <3>4. QED
      BY <3>2, <3>3 DEF Shows
  <2>5. Both(env.admin, attacker[a]["admin"], env'.admin, o.agent["admin"], d[2])
    BY <1>2, <1>6 DEF Lawful
  <2>6. env'.admin = Gathered(attacker', Attackers, "admin")
    BY <2>1, <2>2, <2>5, GatheredGains
  <2>7. Both(env.persistence, attacker[a]["persistence"], env'.persistence, o.agent["persistence"], d[2])
    BY <1>2, <1>6 DEF Lawful
  <2>8. env'.persistence = Gathered(attacker', Attackers, "persistence")
    BY <2>1, <2>2, <2>7, GatheredGains
  <2>9. Both(env.dumped, attacker[a]["dumped"], env'.dumped, o.agent["dumped"], d[2])
    BY <1>2, <1>6 DEF Lawful
  <2>10. env'.dumped = Gathered(attacker', Attackers, "dumped")
    BY <2>1, <2>2, <2>9, GatheredGains
  <2>11. QED
    BY <2>4, <2>6, <2>8, <2>10 DEF GroundTruth, Gathered, Shows
<1>12. Authorship'
  <2>1. /\ env'.blocked = env.blocked /\ env'.isolated = env.isolated
        /\ env'.edr = env.edr /\ env'.revoked = env.revoked
    BY <1>2, <1>6 DEF Lawful
  <2>2. QED
    BY <1>3, <2>1 DEF Authorship
<1>13. QED
  BY <1>8, <1>9, <1>10, <1>11, <1>12

(* What a defender does is counted by that defender if it is new.           *)

Counted(e, s, e2, s2, h) ==
  \/ e2 = e /\ s2 = s
  \/ h \notin e /\ e2 = e \cup {h} /\ s2 = s \cup {h}

Answered(e, s, e2, s2, h) ==
  /\ e2 \in EnvState /\ s2 \in DefenderState
  /\ e2.compromised = e.compromised /\ e2.admin = e.admin
  /\ e2.persistence = e.persistence /\ e2.dumped = e.dumped
  /\ Counted(e.blocked, s.blocked, e2.blocked, s2.blocked, h)
  /\ Counted(e.isolated, s.isolated, e2.isolated, s2.isolated, h)
  /\ Counted(e.edr, s.edr, e2.edr, s2.edr, h)
  /\ \/ (e2.revoked <=> e.revoked) /\ (s2.revoked <=> s.revoked)
     \/ ~e.revoked /\ e2.revoked /\ s2.revoked

\* A defense that changes nothing but the defender's own notes.
LEMMA NothingAnswered ==
  ASSUME NEW e \in EnvState, NEW s \in DefenderState, NEW h \in Hosts, NEW t \in DefenderState,
         t.blocked = s.blocked, t.isolated = s.isolated, t.edr = s.edr, t.revoked <=> s.revoked
  PROVE  Answered(e, s, e, t, h)
  BY DEF Answered, Counted

LEMMA BlockAnswered ==
  ASSUME NEW e \in EnvState, NEW s \in DefenderState, NEW h \in Hosts, h \notin e.blocked
  PROVE  Answered(e, s, [e EXCEPT !.blocked = @ \cup {h}],
                  [s EXCEPT !.blocked = @ \cup {h}, !.blocks = @ + 1], h)
<1> DEFINE e2 == [e EXCEPT !.blocked = @ \cup {h}]
           s2 == [s EXCEPT !.blocked = @ \cup {h}, !.blocks = @ + 1]
<1>1. s.blocks + 1 \in Nat /\ s.blocked \cup {h} \in SUBSET Hosts /\ e.blocked \cup {h} \in SUBSET Hosts
  BY DEF EnvState, DefenderState
<1>2. e2 \in EnvState
  BY <1>1 DEF EnvState
<1>3. s2 \in DefenderState
  BY <1>1 DEF DefenderState
<1>4. /\ e2.compromised = e.compromised /\ e2.admin = e.admin
      /\ e2.persistence = e.persistence /\ e2.dumped = e.dumped
      /\ e2.isolated = e.isolated /\ e2.edr = e.edr /\ (e2.revoked <=> e.revoked)
  BY DEF EnvState
<1>5. s2.isolated = s.isolated /\ s2.edr = s.edr /\ (s2.revoked <=> s.revoked)
  BY DEF DefenderState
<1>6. e2.blocked = e.blocked \cup {h} /\ s2.blocked = s.blocked \cup {h}
  BY DEF EnvState, DefenderState
<1> HIDE DEF e2, s2
<1>7. Answered(e, s, e2, s2, h)
  BY <1>2, <1>3, <1>4, <1>5, <1>6 DEF Answered, Counted
<1>8. QED
  BY <1>7 DEF e2, s2

LEMMA IsolateAnswered ==
  ASSUME NEW e \in EnvState, NEW s \in DefenderState, NEW h \in Hosts, h \notin e.isolated
  PROVE  Answered(e, s, [e EXCEPT !.isolated = @ \cup {h}],
                  [s EXCEPT !.isolated = @ \cup {h}, !.blocks = @ + 1], h)
<1> DEFINE e2 == [e EXCEPT !.isolated = @ \cup {h}]
           s2 == [s EXCEPT !.isolated = @ \cup {h}, !.blocks = @ + 1]
<1>1. s.blocks + 1 \in Nat /\ s.isolated \cup {h} \in SUBSET Hosts /\ e.isolated \cup {h} \in SUBSET Hosts
  BY DEF EnvState, DefenderState
<1>2. e2 \in EnvState
  BY <1>1 DEF EnvState
<1>3. s2 \in DefenderState
  BY <1>1 DEF DefenderState
<1>4. /\ e2.compromised = e.compromised /\ e2.admin = e.admin
      /\ e2.persistence = e.persistence /\ e2.dumped = e.dumped
      /\ e2.blocked = e.blocked /\ e2.edr = e.edr /\ (e2.revoked <=> e.revoked)
  BY DEF EnvState
<1>5. s2.blocked = s.blocked /\ s2.edr = s.edr /\ (s2.revoked <=> s.revoked)
  BY DEF DefenderState
<1>6. e2.isolated = e.isolated \cup {h} /\ s2.isolated = s.isolated \cup {h}
  BY DEF EnvState, DefenderState
<1> HIDE DEF e2, s2
<1>7. Answered(e, s, e2, s2, h)
  BY <1>2, <1>3, <1>4, <1>5, <1>6 DEF Answered, Counted
<1>8. QED
  BY <1>7 DEF e2, s2

LEMMA EdrAnswered ==
  ASSUME NEW e \in EnvState, NEW s \in DefenderState, NEW h \in Hosts, h \notin e.edr
  PROVE  Answered(e, s, [e EXCEPT !.edr = @ \cup {h}],
                  [s EXCEPT !.edr = @ \cup {h}], h)
<1> DEFINE e2 == [e EXCEPT !.edr = @ \cup {h}]
           s2 == [s EXCEPT !.edr = @ \cup {h}]
<1>1. s.edr \cup {h} \in SUBSET Hosts /\ e.edr \cup {h} \in SUBSET Hosts
  BY DEF EnvState, DefenderState
<1>2. e2 \in EnvState
  BY <1>1 DEF EnvState
<1>3. s2 \in DefenderState
  BY <1>1 DEF DefenderState
<1>4. /\ e2.compromised = e.compromised /\ e2.admin = e.admin
      /\ e2.persistence = e.persistence /\ e2.dumped = e.dumped
      /\ e2.blocked = e.blocked /\ e2.isolated = e.isolated /\ (e2.revoked <=> e.revoked)
  BY DEF EnvState
<1>5. s2.blocked = s.blocked /\ s2.isolated = s.isolated /\ (s2.revoked <=> s.revoked)
  BY DEF DefenderState
<1>6. e2.edr = e.edr \cup {h} /\ s2.edr = s.edr \cup {h}
  BY DEF EnvState, DefenderState
<1> HIDE DEF e2, s2
<1>7. Answered(e, s, e2, s2, h)
  BY <1>2, <1>3, <1>4, <1>5, <1>6 DEF Answered, Counted
<1>8. QED
  BY <1>7 DEF e2, s2

LEMMA RevokeAnswered ==
  ASSUME NEW e \in EnvState, NEW s \in DefenderState, NEW h \in Hosts, ~e.revoked
  PROVE  Answered(e, s, [e EXCEPT !.revoked = TRUE],
                  [s EXCEPT !.revoked = TRUE, !.blocks = @ + 1], h)
<1> DEFINE e2 == [e EXCEPT !.revoked = TRUE]
           s2 == [s EXCEPT !.revoked = TRUE, !.blocks = @ + 1]
<1>1. s.blocks + 1 \in Nat
  BY DEF EnvState, DefenderState
<1>2. e2 \in EnvState
  BY <1>1 DEF EnvState
<1>3. s2 \in DefenderState
  BY <1>1 DEF DefenderState
<1>4. /\ e2.compromised = e.compromised /\ e2.admin = e.admin
      /\ e2.persistence = e.persistence /\ e2.dumped = e.dumped
      /\ e2.blocked = e.blocked /\ e2.isolated = e.isolated /\ e2.edr = e.edr
  BY DEF EnvState
<1>5. s2.blocked = s.blocked /\ s2.isolated = s.isolated /\ s2.edr = s.edr
  BY DEF DefenderState
<1>6. e2.revoked /\ s2.revoked
  BY DEF EnvState, DefenderState
<1> HIDE DEF e2, s2
<1>7. Answered(e, s, e2, s2, h)
  BY <1>2, <1>3, <1>4, <1>5, <1>6 DEF Answered, Counted
<1>8. QED
  BY <1>7 DEF e2, s2

LEMMA DefenseGains ==
  ASSUME NEW e \in EnvState, NEW s \in DefenderState, NEW h \in Hosts, NEW act
  PROVE  Answered(e, s, Defended(act, e, h), Credited(act, e, s, h), h)
<1>1. CASE AlreadyInForce(act, e, h)
  BY <1>1, NothingAnswered DEF Defended, Credited
<1>2. CASE ~AlreadyInForce(act, e, h) /\ act = "block_ip"
  BY <1>2, BlockAnswered DEF Defended, Credited, AlreadyInForce
<1>3. CASE ~AlreadyInForce(act, e, h) /\ act = "isolate_host"
  BY <1>3, IsolateAnswered DEF Defended, Credited, AlreadyInForce
<1>4. CASE ~AlreadyInForce(act, e, h) /\ act = "deploy_edr"
  BY <1>4, EdrAnswered DEF Defended, Credited, AlreadyInForce
<1>5. CASE ~AlreadyInForce(act, e, h) /\ act = "revoke_credentials"
  BY <1>5, RevokeAnswered DEF Defended, Credited, AlreadyInForce
<1>6. CASE ~AlreadyInForce(act, e, h) /\ act = "investigate_host"
  <2>1. Defended(act, e, h) = e /\ Credited(act, e, s, h) = [s EXCEPT !.investigated = @ \cup {h}]
    BY <1>6 DEF Defended, Credited
  <2>2. [s EXCEPT !.investigated = @ \cup {h}] \in DefenderState
    BY DEF DefenderState
  <2>3. QED
    BY <2>1, <2>2, NothingAnswered DEF DefenderState
<1>7. CASE /\ ~AlreadyInForce(act, e, h)
           /\ act \notin {"block_ip", "isolate_host", "deploy_edr", "revoke_credentials",
                          "investigate_host"}
  <2>1. Defended(act, e, h) = e /\ Credited(act, e, s, h) = s
    BY <1>7 DEF Defended, Credited
  <2>2. QED
    BY <2>1, NothingAnswered
<1>8. QED
  BY <1>1, <1>2, <1>3, <1>4, <1>5, <1>6, <1>7

\* A defender decides about a host.
LEMMA DefenseDecided ==
  ASSUME SInv, NEW d \in Defenders, NEW c \in DefenseDecisions(d)
  PROVE  c[2] \in Hosts
<1>1. view[d] \subseteq Hosts
  BY DEF SInv, DefendersSeeHosts
<1>2. /\ \A al \in alerts : al.target \in Hosts
      /\ \A q \in queue : q.target \in Hosts
  BY DEF SInv, TypeOK, Sightings, Escalations
<1>3. FirstHost \in Hosts
  BY EnvironmentAssumption
<1>4. CASE c \in DefensePlays[d] \X (IF view[d] = {} THEN Hosts ELSE view[d])
  BY <1>1, <1>4
<1>5. CASE c \in DefenseFallback(d)
  BY <1>1, <1>2, <1>3, <1>5 DEF DefenseFallback
<1>6. QED
  BY <1>4, <1>5 DEF DefenseDecisions

\* What is in force in e beyond base has exactly one author each.
OneAuthor(f, part, e, base) ==
  /\ e = base \cup Gathered(f, Defenders, part)
  /\ base \cap Gathered(f, Defenders, part) = {}
  /\ \A c, d \in Defenders : c # d => f[c][part] \cap f[d][part] = {}

\* A new measure has one author, and no other gets a second one.
LEMMA CountedOnce ==
  ASSUME NEW f, DOMAIN f = Defenders, NEW x \in Defenders, NEW t, NEW part, NEW e, NEW e2,
         NEW h, NEW base, Counted(e, f[x][part], e2, t[part], h), OneAuthor(f, part, e, base)
  PROVE  OneAuthor([f EXCEPT ![x] = t], part, e2, base)
<1> DEFINE g == [f EXCEPT ![x] = t]
<1>1. \A y \in Defenders : g[y] = IF y = x THEN t ELSE f[y]
  OBVIOUS
<1> HIDE DEF g
<1>2. CASE e2 = e /\ t[part] = f[x][part]
  <2>1. \A y \in Defenders : g[y][part] = f[y][part]
    BY <1>1, <1>2
  <2>2. QED
    BY <1>2, <2>1 DEF OneAuthor, Gathered, g
<1>3. CASE h \notin e /\ e2 = e \cup {h} /\ t[part] = f[x][part] \cup {h}
  <2>1. ASSUME NEW z \in e2 PROVE z \in base \cup Gathered(g, Defenders, part)
    BY <1>1, <1>3, <2>1 DEF Gathered, OneAuthor
  <2>2. ASSUME NEW z \in Gathered(g, Defenders, part) PROVE z \in e2 /\ z \notin base
    BY <1>1, <1>3, <2>2 DEF Gathered, OneAuthor
  <2>3. base \subseteq e2
    BY <1>3 DEF OneAuthor
  <2>4. ASSUME NEW y \in Defenders PROVE h \notin f[y][part]
    BY <1>3, <2>4 DEF Gathered, OneAuthor
  <2>5. ASSUME NEW c \in Defenders, NEW d \in Defenders, c # d PROVE g[c][part] \cap g[d][part] = {}
    <3>1. f[c][part] \cap f[d][part] = {}
      BY <2>5 DEF OneAuthor
    <3>2. QED
      BY <1>1, <1>3, <2>4, <2>5, <3>1
  <2>6. e2 = base \cup Gathered(g, Defenders, part) /\ base \cap Gathered(g, Defenders, part) = {}
    BY <2>1, <2>2, <2>3
  <2>7. QED
    BY <2>5, <2>6 DEF OneAuthor, g
<1>4. QED
  BY <1>2, <1>3 DEF Counted

LEMMA DefendKeeps == ASSUME SInv, NEW d \in Defenders, Defend(d) PROVE SInv'
<1> USE DEF SInv
<1>1. PICK c \in DefenseDecisions(d) :
        /\ env' = Defended(c[1], env, c[2])
        /\ defender' = [defender EXCEPT ![d] = Credited(c[1], env, @, c[2])]
        /\ filed' = IF c[1] = "escalate" THEN filed \cup {[from |-> d, target |-> c[2]]} ELSE filed
  BY DEF Defend
<1>2. /\ phase = "defend" /\ pc' = [pc EXCEPT ![d] = "done"] /\ view' = [view EXCEPT ![d] = {}]
      /\ UNCHANGED <<baseline, attacker, phase, traces, alerts, queue, step, run, report>>
  BY DEF Defend, Done
<1>3. c[2] \in Hosts
  BY DefenseDecided
<1>4. env \in EnvState /\ defender \in [Defenders -> DefenderState] /\ defender[d] \in DefenderState
  BY DEF TypeOK
<1> DEFINE t == Credited(c[1], env, defender[d], c[2])
<1>5. defender' = [defender EXCEPT ![d] = t]
  BY <1>1
<1>6. Answered(env, defender[d], env', t, c[2])
  BY <1>1, <1>3, <1>4, DefenseGains
<1> HIDE DEF t
<1>7. env' \in EnvState /\ t \in DefenderState /\ defender' \in [Defenders -> DefenderState]
  BY <1>4, <1>5, <1>6 DEF Answered
<1>8. TypeOK'
  <2>1. filed' \in SUBSET Escalations
    BY <1>1, <1>3 DEF TypeOK, Escalations
  <2>2. QED
    BY <1>2, <1>7, <2>1 DEF TypeOK, Agents
<1>9. Turns' /\ DefendersSeeHosts' /\ WasReset' /\ ReportConsistent'
  BY <1>2, SimulationAssumption
  DEF TypeOK, Turns, DefendersSeeHosts, WasReset, ReportConsistent, Agents
<1>10. KillChain'
  BY <1>2 DEF KillChain
<1>11. GroundTruth'
  <2>1. /\ env'.compromised = env.compromised /\ env'.admin = env.admin
        /\ env'.persistence = env.persistence /\ env'.dumped = env.dumped
    BY <1>6 DEF Answered
  <2>2. QED
    BY <1>2, <2>1 DEF GroundTruth
<1>12. Authorship'
  <2>1. /\ OneAuthor(defender, "blocked", env.blocked, {})
        /\ OneAuthor(defender, "isolated", env.isolated, {})
        /\ OneAuthor(defender, "edr", env.edr, baseline)
    BY <1>2 DEF Authorship, OneAuthor, Gathered
  <2>2. /\ env.revoked <=> \E c1 \in Defenders : defender[c1].revoked
        /\ \A c1, d1 \in Defenders : c1 # d1 => ~(defender[c1].revoked /\ defender[d1].revoked)
    BY <1>2 DEF Authorship
  <2>3. DOMAIN defender = Defenders
    BY <1>4
  <2>4. OneAuthor(defender', "blocked", env'.blocked, {})
    <3>1. Counted(env.blocked, defender[d]["blocked"], env'.blocked, t["blocked"], c[2])
      BY <1>6 DEF Answered
    <3>2. QED
      BY <1>5, <2>1, <2>3, <3>1, CountedOnce
  <2>5. OneAuthor(defender', "isolated", env'.isolated, {})
    <3>1. Counted(env.isolated, defender[d]["isolated"], env'.isolated, t["isolated"], c[2])
      BY <1>6 DEF Answered
    <3>2. QED
      BY <1>5, <2>1, <2>3, <3>1, CountedOnce
  <2>6. OneAuthor(defender', "edr", env'.edr, baseline)
    <3>1. Counted(env.edr, defender[d]["edr"], env'.edr, t["edr"], c[2])
      BY <1>6 DEF Answered
    <3>2. QED
      BY <1>5, <2>1, <2>3, <3>1, CountedOnce
  <2>7. \A y \in Defenders : defender'[y].revoked <=> IF y = d THEN t.revoked ELSE defender[y].revoked
    BY <1>5, <2>3
  <2>8. /\ env'.revoked <=> \E c1 \in Defenders : defender'[c1].revoked
        /\ \A c1, d1 \in Defenders : c1 # d1 => ~(defender'[c1].revoked /\ defender'[d1].revoked)
    <3>1. CASE (env'.revoked <=> env.revoked) /\ (t.revoked <=> defender[d].revoked)
      BY <2>2, <2>7, <3>1
    <3>2. CASE ~env.revoked /\ env'.revoked /\ t.revoked
      BY <2>2, <2>7, <3>2
    <3>3. QED
      BY <1>6, <3>1, <3>2 DEF Answered
  <2>9. baseline' = baseline
    BY <1>2
  <2>10. QED
    BY <2>4, <2>5, <2>6, <2>8, <2>9 DEF Authorship, OneAuthor, Gathered
<1>13. QED
  BY <1>8, <1>9, <1>10, <1>11, <1>12

\* What a report says was true of the environment when it was made.
LEMMA ReportTrue ==
  ASSUME SInv, phase # "reported", report' = Report
  PROVE  ReportConsistent'
<1> USE DEF SInv
<1>1. /\ report'.campaigns = attacker /\ report'.snapshot = env
      /\ report'.defense = DefenderReport
  BY DEF Report
<1>2. /\ DefenderReport.isolated = UNION {defender[d].isolated : d \in Defenders}
      /\ DefenderReport.blocked = UNION {defender[d].blocked : d \in Defenders}
      /\ DefenderReport.edr = UNION {defender[d].edr : d \in Defenders}
      /\ (DefenderReport.revoked <=> \E d \in Defenders : defender[d].revoked)
  BY DEF DefenderReport
<1>3. /\ env.blocked = Gathered(defender, Defenders, "blocked")
      /\ env.isolated = Gathered(defender, Defenders, "isolated")
      /\ env.edr = baseline \cup Gathered(defender, Defenders, "edr")
      /\ (env.revoked <=> \E d \in Defenders : defender[d].revoked)
  BY DEF Authorship, Gathered
<1>4. \A a \in Attackers : attacker[a].compromised \subseteq env.compromised \cup Inside
  <2>1. Gathered(attacker, Attackers, "compromised") \subseteq env.compromised \cup Inside
    BY DEF GroundTruth, Gathered
  <2>2. QED
    BY <2>1 DEF Gathered
<1>5. /\ DefenderReport.isolated = env.isolated /\ DefenderReport.blocked = env.blocked
      /\ DefenderReport.edr \subseteq env.edr /\ (DefenderReport.revoked <=> env.revoked)
  BY <1>2, <1>3 DEF Gathered
<1>6. QED
  BY <1>1, <1>4, <1>5 DEF ReportConsistent

LEMMA EndKeeps ==
  ASSUME SInv, phase # "reported", EverybodyDone, EndTimestep,
         queue' \in SUBSET Escalations, filed' \in SUBSET Escalations
  PROVE  SInv'
<1> USE DEF SInv
<1>1. /\ UNCHANGED <<baseline, attacker, defender, view, run>> /\ traces' = {} /\ alerts' = {}
  BY DEF EndTimestep
<1>2. CASE step < Timesteps
  <2>1. /\ step' = step + 1 /\ phase' = "attack" /\ pc' = Turn(Attackers)
        /\ UNCHANGED <<env, report>>
    BY <1>2 DEF EndTimestep
  <2>2. step' \in 1..Timesteps
    BY <1>2, <2>1, SimulationAssumption DEF TypeOK
  <2>3. TypeOK'
    BY <1>1, <2>1, <2>2 DEF TypeOK, Turn
  <2>4. Turns' /\ DefendersSeeHosts' /\ WasReset' /\ ReportConsistent'
    BY <1>1, <2>1, SimulationAssumption
    DEF Turn, Turns, DefendersSeeHosts, WasReset, ReportConsistent, Agents
  <2>5. KillChain'
    BY <1>1 DEF KillChain
  <2>6. GroundTruth'
    BY <1>1, <2>1 DEF GroundTruth
  <2>7. Authorship'
    BY <1>1, <2>1 DEF Authorship
  <2>8. QED
    BY <2>3, <2>4, <2>5, <2>6, <2>7
<1>3. CASE ~(step < Timesteps)
  <2>1. /\ phase' = "reported" /\ report' = Report /\ env' = Reset(env)
        /\ UNCHANGED <<step, pc>>
    BY <1>3 DEF EndTimestep
  <2>2. TypeOK'
    BY <1>1, <2>1, LoadedTyped DEF TypeOK
  <2>3. Turns' /\ DefendersSeeHosts'
    BY <1>1, <2>1 DEF Turns, DefendersSeeHosts, EverybodyDone
  <2>4. WasReset'
    BY <2>1 DEF WasReset, Reset, Loaded
  <2>5. ReportConsistent'
    BY <2>1, ReportTrue
  <2>6. KillChain'
    BY <1>1 DEF KillChain
  <2>7. GroundTruth'
    BY <2>1 DEF GroundTruth
  <2>8. Authorship'
    BY <1>1, <2>1 DEF Authorship
  <2>9. QED
    BY <2>2, <2>3, <2>4, <2>5, <2>6, <2>7, <2>8
<1>4. QED
  BY <1>2, <1>3

LEMMA AttackersDoneKeeps == ASSUME SInv, AttackersDone PROVE SInv'
<1> USE DEF SInv
<1>1. CASE Defenders = {}
  <2>1. /\ phase = "attack" /\ EverybodyDone /\ EndTimestep /\ queue' = queue /\ filed' = filed
    BY <1>1 DEF AttackersDone
  <2>2. QED
    BY <2>1, EndKeeps DEF TypeOK
<1>2. CASE Defenders # {}
  <2>1. /\ phase' = "defend" /\ pc' = Turn(Defenders) /\ phase = "attack"
        /\ alerts' = Alerts /\ queue' = {} /\ filed' = {}
        /\ UNCHANGED <<env, baseline, attacker, defender, view, traces, step, run, report>>
    BY <1>2 DEF AttackersDone
  <2>2. Alerts \in SUBSET Sightings
    <3>1. \A stage : Severity(stage) \in {"low", "medium", "high", "critical"}
      BY DEF Severity
    <3>2. QED
      BY <3>1 DEF Alerts, Sightings, TypeOK, TraceRecords
  <2>3. TypeOK'
    BY <2>1, <2>2 DEF TypeOK, Turn
  <2>4. Turns' /\ DefendersSeeHosts' /\ WasReset' /\ ReportConsistent'
    BY <2>1, SimulationAssumption
    DEF Turn, Turns, DefendersSeeHosts, WasReset, ReportConsistent, Agents
  <2>5. KillChain'
    BY <2>1 DEF KillChain
  <2>6. GroundTruth'
    BY <2>1 DEF GroundTruth
  <2>7. Authorship'
    BY <2>1 DEF Authorship
  <2>8. QED
    BY <2>3, <2>4, <2>5, <2>6, <2>7
<1>3. QED
  BY <1>1, <1>2

LEMMA DefendersDoneKeeps == ASSUME SInv, DefendersDone PROVE SInv'
<1>1. /\ phase = "defend" /\ EverybodyDone /\ EndTimestep /\ queue' = filed /\ filed' = filed
  BY DEF DefendersDone
<1>2. QED
  BY <1>1, EndKeeps DEF SInv, TypeOK

LEMMA NextSInv == SInv /\ [Next]_vars => SInv'
<1> SUFFICES ASSUME SInv, [Next]_vars PROVE SInv'
  OBVIOUS
<1>1. CASE \E a \in Attackers : Observe(a) \/ Act(a)
  BY <1>1, ObserveKeeps, ActKeeps
<1>2. CASE \E d \in Defenders : Watch(d) \/ Defend(d)
  BY <1>2, WatchKeeps, DefendKeeps
<1>3. CASE AttackersDone \/ DefendersDone
  BY <1>3, AttackersDoneKeeps, DefendersDoneKeeps
<1>4. CASE NextRun
  BY <1>4, NextRunKeeps
<1>5. CASE UNCHANGED vars
  BY <1>5 DEF vars, SInv, TypeOK, Turns, DefendersSeeHosts, WasReset, KillChain, GroundTruth,
              Authorship, ReportConsistent, Deciding
<1>6. QED
  BY <1>1, <1>2, <1>3, <1>4, <1>5 DEF Next, Over

LEMMA Inductive == Spec => []SInv
<1>1. QED
  BY InitSInv, NextSInv, PTL DEF Spec

\* An attacker's own achievements form a kill chain (simulator.py, actions.py),
\* whatever the model names and however the agents interleave.
THEOREM KillChainHolds == Spec => []KillChain
<1>1. SInv => KillChain
  BY DEF SInv
<1>2. QED
  BY <1>1, Inductive, PTL

\* The environment, the attackers and the defenders agree on what was achieved
\* and contained, and by whom (actions.py, defender_actions.py).
THEOREM OneStoryHolds == Spec => []OneStory
<1>1. SInv => OneStory
  BY DEF SInv, OneStory
<1>2. QED
  BY <1>1, Inductive, PTL

\* A report of _generate_report agrees with the snapshot it carries.
THEOREM ReportConsistentHolds == Spec => []ReportConsistent
<1>1. SInv => ReportConsistent
  BY DEF SInv
<1>2. QED
  BY <1>1, Inductive, PTL

LEMMA StepContains == SInv /\ [Next]_vars => [phase' = "reported" \/ NothingGainedThere]_vars
<1> SUFFICES ASSUME SInv, Next PROVE phase' = "reported" \/ NothingGainedThere
  OBVIOUS
<1>1. env \in EnvState /\ attacker \in [Attackers -> AgentState]
      /\ defender \in [Defenders -> DefenderState]
  BY DEF SInv, TypeOK
<1>2. CASE env' = env
  BY <1>2 DEF NothingGainedThere
<1>3. CASE phase' = "reported"
  BY <1>3
<1>4. ASSUME NEW a \in Attackers, Act(a) PROVE phase' = "reported" \/ NothingGainedThere
  <2>1. PICK d \in AttackDecisions(a) : \E o \in Execute(d[1], env, attacker[a], d[2]) : env' = o.env
    BY <1>4 DEF Act
  <2> PICK o \in Execute(d[1], env, attacker[a], d[2]) : env' = o.env
    BY <2>1
  <2>2. d[2] \in Hosts /\ attacker[a] \in AgentState
    BY <1>1, AttackDecided
  <2>3. /\ Lawful(env, attacker[a], d[2], o)
        /\ d[2] \in env.blocked \cup env.isolated => o.env = env
        /\ env.revoked => o.env.dumped = env.dumped
    BY <1>1, <2>2, ExecuteGains
  <2>4. CASE d[2] \in env.blocked \cup env.isolated
    BY <2>1, <2>3, <2>4, <1>2
  <2>5. CASE d[2] \notin env.blocked \cup env.isolated
    BY <2>1, <2>3, <2>5 DEF Lawful, Both, NothingGainedThere
  <2>6. QED
    BY <2>4, <2>5
<1>5. ASSUME NEW d \in Defenders, Defend(d) PROVE NothingGainedThere
  <2>1. PICK c \in DefenseDecisions(d) : env' = Defended(c[1], env, c[2])
    BY <1>5 DEF Defend
  <2>2. c[2] \in Hosts /\ defender[d] \in DefenderState
    BY <1>1, DefenseDecided
  <2>3. Answered(env, defender[d], env', Credited(c[1], env, defender[d], c[2]), c[2])
    BY <1>1, <2>1, <2>2, DefenseGains
  <2>4. QED
    BY <2>3 DEF Answered, Counted, NothingGainedThere
<1>6. CASE \E a \in Attackers : Observe(a)
  BY <1>2, <1>6 DEF Observe, Begin
<1>7. CASE \E d \in Defenders : Watch(d)
  BY <1>2, <1>7 DEF Watch, Begin
<1>8. CASE AttackersDone \/ DefendersDone
  BY <1>2, <1>3, <1>8 DEF AttackersDone, DefendersDone, EndTimestep
<1>9. CASE NextRun \/ Over
  BY <1>2, <1>9 DEF NextRun, Over, vars
<1>10. QED
  BY <1>4, <1>5, <1>6, <1>7, <1>8, <1>9 DEF Next

\* What defenders contain stays contained and yields nothing more for the rest
\* of a simulation (execute_action).
THEOREM ContainmentHoldsAlways == Spec => ContainmentHolds
<1>1. QED
  BY Inductive, StepContains, PTL DEF Spec, ContainmentHolds

-----------------------------------------------------------------------------
(* Followers.                                                               *)

FollowerInv ==
  FollowerTypeOK /\ FollowerKillChain /\ OwnEnvironment /\ ContainmentCarriesOver

LEMMA ContainTyped == \A c \in Summaries : Contain(c) \in EnvState
  BY EnvironmentAssumption DEF Summaries, Contain, Loaded, EnvState

LEMMA FollowerInitInv == FollowerInit => FollowerInv
<1> SUFFICES ASSUME FollowerInit PROVE FollowerInv
  OBVIOUS
<1>1. contained \in Summaries /\ pos = 0 /\ pos \in 0..Length
  BY FollowerAssumption DEF FollowerInit
<1>2. CASE kind = "attacker" /\ own = Contain(contained) /\ held \in {Outsider, Insider}
  <2>1. held \in AgentState /\ Chained(held) /\ held.compromised \subseteq Inside
        /\ held.admin = {} /\ held.persistence = {} /\ held.dumped = {} /\ held.bypassed = {}
    BY <1>2, StartingStates
  <2>2. own.compromised = {} /\ own.admin = {} /\ own.persistence = {} /\ own.dumped = {}
    BY <1>2 DEF Contain, Loaded
  <2>3. FollowerTypeOK /\ FollowerKillChain
    BY <1>1, <1>2, <2>1, ContainTyped DEF FollowerTypeOK, FollowerKillChain
  <2>4. OwnEnvironment
    BY <1>2, <2>1, <2>2 DEF OwnEnvironment, Contain, Loaded
  <2>5. ContainmentCarriesOver
    BY <1>2, <2>1, <2>2 DEF ContainmentCarriesOver
  <2>6. QED
    BY <2>3, <2>4, <2>5 DEF FollowerInv
<1>3. CASE kind = "defender" /\ own = Loaded /\ held = Novice
  <2>1. FollowerTypeOK /\ FollowerKillChain /\ ContainmentCarriesOver
    BY <1>1, <1>3, LoadedTyped
    DEF FollowerTypeOK, FollowerKillChain, ContainmentCarriesOver, Novice, DefenderState
  <2>2. OwnEnvironment
    BY <1>3 DEF OwnEnvironment, Loaded, Novice
  <2>3. QED
    BY <2>1, <2>2 DEF FollowerInv
<1>4. QED
  BY <1>2, <1>3 DEF FollowerInit

LEMMA JitteredHosts == \A h \in Hosts : Jittered(h) \subseteq Hosts
  BY DEF Jittered

LEMMA ReplayAttackKeeps == FollowerInv /\ ReplayAttack => FollowerInv'
<1> SUFFICES ASSUME FollowerInv, ReplayAttack PROVE FollowerInv'
  OBVIOUS
<1> USE DEF FollowerInv
<1>1. PICK act \in LeaderAttacks, leaderTarget \in Hosts :
        \E h \in Jittered(leaderTarget) : \E o \in Execute(Chosen(act), own, held, h) :
          own' = o.env /\ held' = o.agent
  BY DEF ReplayAttack
<1> PICK h \in Jittered(leaderTarget) :
        \E o \in Execute(Chosen(act), own, held, h) : own' = o.env /\ held' = o.agent
  BY <1>1
<1> PICK o \in Execute(Chosen(act), own, held, h) : own' = o.env /\ held' = o.agent
  OBVIOUS
<1>2. kind = "attacker" /\ kind' = kind /\ contained' = contained /\ pos' \in 0..Length
  BY FollowerAssumption DEF ReplayAttack, FollowerTypeOK
<1>3. own \in EnvState /\ held \in AgentState /\ h \in Hosts
  BY <1>2, JitteredHosts DEF FollowerTypeOK
<1>4. /\ Lawful(own, held, h, o)
      /\ h \in own.blocked \cup own.isolated => o.env = own /\ o.agent = held
      /\ own.revoked => o.env.dumped = own.dumped /\ o.agent.dumped = held.dumped
  BY <1>3, ExecuteGains
<1>5. /\ own' \in EnvState /\ held' \in AgentState
      /\ own'.edr = own.edr /\ own'.isolated = own.isolated
      /\ own'.blocked = own.blocked /\ (own'.revoked <=> own.revoked)
      /\ Both(own.compromised, held.compromised, own'.compromised, held'.compromised, h)
      /\ Both(own.admin, held.admin, own'.admin, held'.admin, h)
      /\ Both(own.persistence, held.persistence, own'.persistence, held'.persistence, h)
      /\ Both(own.dumped, held.dumped, own'.dumped, held'.dumped, h)
      /\ held'.bypassed \in {held.bypassed, held.bypassed \cup {h}}
      /\ Chained(held) => Chained(held')
  BY <1>4 DEF Lawful
<1>6. /\ h \in own.blocked \cup own.isolated => own' = own /\ held' = held
      /\ own.revoked => held'.dumped = held.dumped
  BY <1>4
<1>7. FollowerTypeOK'
  BY <1>2, <1>5 DEF FollowerTypeOK
<1>8. FollowerKillChain'
  BY <1>2, <1>5 DEF FollowerKillChain
<1>9. OwnEnvironment'
  <2>1. /\ own.compromised \subseteq held.compromised
        /\ held.compromised \subseteq own.compromised \cup Inside
        /\ own.admin = held.admin /\ own.dumped = held.dumped
        /\ own.persistence = held.persistence
        /\ own.blocked = contained.blocked /\ own.isolated = contained.isolated
        /\ own.edr = Edr \cup contained.edr /\ (own.revoked <=> contained.revoked)
    BY <1>2 DEF OwnEnvironment
  <2>2. /\ own'.compromised \subseteq held'.compromised
        /\ held'.compromised \subseteq own'.compromised \cup Inside
    BY <1>5, <2>1 DEF Both
  <2>3. own'.admin = held'.admin /\ own'.dumped = held'.dumped
    BY <1>5, <2>1 DEF Both
  <2>4. own'.persistence = held'.persistence
    BY <1>5, <2>1 DEF Both
  <2>5. /\ own'.blocked = contained'.blocked /\ own'.isolated = contained'.isolated
        /\ own'.edr = Edr \cup contained'.edr /\ (own'.revoked <=> contained'.revoked)
    BY <1>2, <1>5, <2>1
  <2>6. kind' # "defender"
    BY <1>2
  <2>7. QED
    BY <2>2, <2>3, <2>4, <2>5, <2>6 DEF OwnEnvironment
<1>10. ContainmentCarriesOver'
  <2>1. /\ own.blocked = contained.blocked /\ own.isolated = contained.isolated
        /\ (own.revoked <=> contained.revoked)
    BY <1>2 DEF OwnEnvironment
  <2>2. CASE h \in own.blocked \cup own.isolated
    BY <1>2, <1>6, <2>1, <2>2 DEF ContainmentCarriesOver
  <2>3. CASE h \notin own.blocked \cup own.isolated
    BY <1>2, <1>5, <1>6, <2>1, <2>3 DEF ContainmentCarriesOver, Both
  <2>4. QED
    BY <2>2, <2>3
<1>11. QED
  BY <1>7, <1>8, <1>9, <1>10

LEMMA ReplayDefenseKeeps == FollowerInv /\ ReplayDefense => FollowerInv'
<1> SUFFICES ASSUME FollowerInv, ReplayDefense PROVE FollowerInv'
  OBVIOUS
<1> USE DEF FollowerInv
<1>1. PICK act \in Defenses, leaderTarget \in Hosts :
        \E h \in Jittered(leaderTarget) :
          own' = Defended(act, own, h) /\ held' = Credited(act, own, held, h)
  BY DEF ReplayDefense
<1> PICK h \in Jittered(leaderTarget) :
        own' = Defended(act, own, h) /\ held' = Credited(act, own, held, h)
  BY <1>1
<1>2. kind = "defender" /\ kind' = kind /\ contained' = contained /\ pos' \in 0..Length
  BY FollowerAssumption DEF ReplayDefense, FollowerTypeOK
<1>3. own \in EnvState /\ held \in DefenderState /\ h \in Hosts
  BY <1>2, JitteredHosts DEF FollowerTypeOK
<1>4. Answered(own, held, own', held', h)
  BY <1>3, DefenseGains
<1>5. FollowerTypeOK'
  BY <1>2, <1>4 DEF FollowerTypeOK, Answered
<1>6. FollowerKillChain' /\ ContainmentCarriesOver'
  BY <1>2 DEF FollowerKillChain, ContainmentCarriesOver
<1>7. OwnEnvironment'
  BY <1>2, <1>4 DEF OwnEnvironment, Answered, Counted
<1>8. QED
  BY <1>5, <1>6, <1>7

LEMMA FollowerInductive == FollowerSpec => []FollowerInv
<1>1. FollowerInv /\ [FollowerNext]_followerVars => FollowerInv'
  <2>1. CASE UNCHANGED followerVars
    BY <2>1 DEF followerVars, FollowerInv, FollowerTypeOK, FollowerKillChain, OwnEnvironment,
                ContainmentCarriesOver
  <2>2. QED
    BY <2>1, ReplayAttackKeeps, ReplayDefenseKeeps DEF FollowerNext, Finished
<1>2. QED
  BY <1>1, FollowerInitInv, PTL DEF FollowerSpec

\* What a follower's environment shows is what that follower did, as a kill
\* chain of its own (follower.py).
THEOREM OwnStoryHolds == FollowerSpec => []OwnStory
<1>1. FollowerInv => OwnStory
  BY DEF FollowerInv, OwnStory
<1>2. QED
  BY <1>1, FollowerInductive, PTL

\* A follower gains nothing on what the leaders' defenders had contained
\* (_apply_defender_state).
THEOREM ContainmentCarriesOverHolds == FollowerSpec => []ContainmentCarriesOver
<1>1. FollowerInv => ContainmentCarriesOver
  BY DEF FollowerInv
<1>2. QED
  BY <1>1, FollowerInductive, PTL
=============================================================================
