------------------------------- MODULE Follower -------------------------------
(***************************************************************************)
(* follower.py with _run_followers and _apply_defender_state of swarm.py:  *)
(* after the leaders' simulation a follower replays one leader's path in an *)
(* environment of its own, without a model. An attacker's environment has  *)
(* the containment the leaders' defenders had reached by the end; a        *)
(* defender's has none. The loop never suspends; a step of it is an action *)
(* here. The leader's path is any path a campaign may contain, so the      *)
(* leader's action is chosen when it is replayed.                          *)
(***************************************************************************)
EXTENDS AttackActions, DefenseActions

CONSTANTS
  Length,        \* steps of the leader's path (the timesteps of its simulation)
  LeaderAttacks, \* the actions a leader may have taken
  Jitter         \* target_jitter

ASSUME FollowerAssumption ==
  /\ Length \in Nat /\ LeaderAttacks \subseteq Attacks /\ Jitter \in BOOLEAN

VARIABLES
  kind,     \* "attacker" or "defender"
  contained,\* defender_summary of the leaders' report
  own,      \* the follower's environment
  held,     \* AgentState or DefenderState
  pos       \* steps replayed

followerVars == <<kind, contained, own, held, pos>>

\* Mutant: isolation is set on the host and not in the environment's list.
ContainMutant(c) == [Loaded EXCEPT !.blocked = c.blocked, !.edr = @ \cup c.edr, !.revoked = c.revoked]

\* _apply_defender_state on a fresh environment.
Contain(c) ==
  [Loaded EXCEPT !.blocked = c.blocked, !.isolated = c.isolated,
                 !.edr = @ \cup c.edr, !.revoked = c.revoked]

\* Any summary of the leaders' defenders, any archetype.
Summaries == [blocked : SUBSET Hosts, isolated : SUBSET Hosts, edr : SUBSET (Hosts \ Edr),
              revoked : BOOLEAN]

FollowerInit ==
  /\ contained \in Summaries
  /\ pos = 0
  /\ \/ /\ kind = "attacker" /\ own = Contain(contained)
        /\ held \in {Outsider, Insider}
     \/ /\ kind = "defender" /\ own = Loaded /\ held = Novice

\* _jitter_target: sometimes another host of the segment.
Jittered(h) == {h} \cup IF Jitter THEN {g \in Hosts : SegmentOf[g] = SegmentOf[h]} ELSE {}

\* _pick_fallback: the first of this list that is available. A port scan always
\* is, so nothing after it is ever taken.
Priority == <<"exploit_public_service", "brute_force_creds", "port_scan", "osint_enum",
              "credential_dump", "pass_the_hash", "pivot_to_host", "execute_command",
              "do_nothing">>

PickFallback(offered) ==
  Priority[CHOOSE i \in DOMAIN Priority :
             /\ Priority[i] \in offered
             /\ \A j \in 1..(i - 1) : Priority[j] \notin offered]

Chosen(act) ==
  LET offered == Available(own, held)
  IN IF act \in offered THEN act ELSE PickFallback(offered)

ReplayAttack ==
  /\ kind = "attacker" /\ pos < Length
  /\ \E act \in LeaderAttacks, leaderTarget \in Hosts : \E h \in Jittered(leaderTarget) :
       \E o \in Execute(Chosen(act), own, held, h) :
         own' = o.env /\ held' = o.agent
  /\ pos' = pos + 1
  /\ UNCHANGED <<kind, contained>>

ReplayDefense ==
  /\ kind = "defender" /\ pos < Length
  /\ \E act \in Defenses, leaderTarget \in Hosts : \E h \in Jittered(leaderTarget) :
       /\ own' = Defended(act, own, h) /\ held' = Credited(act, own, held, h)
  /\ pos' = pos + 1
  /\ UNCHANGED <<kind, contained>>

Finished == pos = Length /\ UNCHANGED followerVars

FollowerNext == ReplayAttack \/ ReplayDefense \/ Finished

FollowerSpec == FollowerInit /\ [][FollowerNext]_followerVars

(***************************************************************************)
(* Properties.                                                             *)
(***************************************************************************)

\* Types of a follower's variables (FollowerAgent).
FollowerTypeOK ==
  /\ kind \in {"attacker", "defender"} /\ contained \in Summaries
  /\ own \in EnvState
  /\ held \in (IF kind = "attacker" THEN AgentState ELSE DefenderState)
  /\ pos \in 0..Length

\* What a follower achieves is a kill chain whatever its leader did: the
\* leader's action is replayed against prerequisites of the follower's own.
FollowerKillChain == kind = "attacker" => Chained(held)

\* A follower never gains a host the leaders' defenders had contained at the
\* end of their simulation, at whatever step of the path; where it starts is
\* the only contained host it can hold.
ContainmentCarriesOver ==
  kind = "attacker" =>
    LET closed == contained.blocked \cup contained.isolated IN
    /\ own.compromised \cap closed = {}
    /\ held.compromised \cap closed \subseteq Inside
    /\ (held.admin \cup held.persistence \cup held.dumped \cup held.bypassed) \cap closed = {}
    /\ contained.revoked => held.dumped = {}

\* A follower's environment shows what this follower did and nothing of
\* another: there is no sharing between copies.
OwnEnvironment ==
  /\ kind = "attacker" =>
       /\ own.compromised \subseteq held.compromised
       /\ held.compromised \subseteq own.compromised \cup Inside
       /\ own.admin = held.admin /\ own.dumped = held.dumped
       /\ own.persistence = held.persistence
       /\ own.blocked = contained.blocked /\ own.isolated = contained.isolated
       /\ own.edr = Edr \cup contained.edr /\ (own.revoked <=> contained.revoked)
  /\ kind = "defender" =>
       /\ own.compromised \cup own.admin \cup own.dumped \cup own.persistence = {}
       /\ own.blocked = held.blocked /\ own.isolated = held.isolated
       /\ own.edr = Edr \cup held.edr /\ (own.revoked <=> held.revoked)

\* A follower's state is well formed, a kill chain, and all its environment shows.
OwnStory == FollowerTypeOK /\ FollowerKillChain /\ OwnEnvironment
=============================================================================
