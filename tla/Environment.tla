----------------------------- MODULE Environment -----------------------------
(***************************************************************************)
(* The infrastructure attackers and defenders of a simulation share:       *)
(* environment.py of the correlation engine. What never changes during a   *)
(* simulation is a constant; what does is one record, an EnvState.         *)
(***************************************************************************)
EXTENDS Naturals, FiniteSets

CONSTANTS
  Hosts,        \* the addresses of the environment
  FirstHost,    \* the first of them in the order of the configuration
  Segments,     \* network segments
  SegmentOf,    \* SegmentOf[h]: the segment that lists h
  ReachableFrom,\* ReachableFrom[g]: the segments that may open connections into g
  Exposed,      \* hosts with a service exposed externally
  Vulnerable,   \* hosts with a service that has a known CVE
  Wazuh,        \* hosts with a Wazuh agent
  Edr,          \* hosts whose EDR is there from the beginning
  Mfa,          \* hosts with multi-factor authentication
  Patched,      \* hosts marked as patched
  LowValue,     \* hosts of criticality low or minimal
  Critical      \* hosts of criticality critical

ASSUME EnvironmentAssumption ==
  /\ IsFiniteSet(Hosts) /\ FirstHost \in Hosts
  /\ SegmentOf \in [Hosts -> Segments]
  /\ ReachableFrom \in [Segments -> SUBSET Segments]
  /\ {Exposed, Vulnerable, Wazuh, Edr, Mfa, Patched, LowValue, Critical} \subseteq SUBSET Hosts

EnvState == [compromised : SUBSET Hosts, admin : SUBSET Hosts, persistence : SUBSET Hosts,
             dumped : SUBSET Hosts, edr : SUBSET Hosts, isolated : SUBSET Hosts,
             blocked : SUBSET Hosts, revoked : BOOLEAN]

\* An environment just loaded from its configuration.
Loaded == [compromised |-> {}, admin |-> {}, persistence |-> {}, dumped |-> {},
           edr |-> Edr, isolated |-> {}, blocked |-> {}, revoked |-> FALSE]

\* reset() restores what save_initial_state() saved. It saves nothing of the
\* defenses, so an EDR deployed by a defender stays.
Reset(e) == [Loaded EXCEPT !.edr = e.edr]

\* The hosts a connection from h can be opened to.
Reachable(e, h) ==
  IF h \in e.isolated THEN {}
  ELSE {g \in Hosts \ ({h} \cup e.isolated) :
          \/ SegmentOf[g] = SegmentOf[h]
          \/ SegmentOf[h] \in ReachableFrom[SegmentOf[g]]}

\* The hosts whose activity the defenders can see.
Watched(e) == Wazuh \cup e.edr
=============================================================================
