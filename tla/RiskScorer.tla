------------------------------ MODULE RiskScorer ------------------------------
(***************************************************************************)
(* risk_scorer.py with POST /risk-scores/refresh: simulation reports are   *)
(* ingested as they end, by refreshes that may overlap, and a host's score *)
(* is computed from all of them. A report is what the score reads of it.   *)
(* Scores are fractions, before the rounding. One process; the other has a *)
(* scorer of its own.                                                      *)
(***************************************************************************)
EXTENDS Integers, Sequences, FiniteSets, Totals

CONSTANTS
  ScoredHosts, \* hosts of the simulated network
  Archetypes,  \* attacker archetypes
  Reports,     \* what a simulation may report
  Refreshes,   \* calls of the endpoint
  Simulated    \* simulations a refresh runs

\* hit: the hosts an archetype's campaign compromised; blocked and bypassed:
\* the sums of defense_validation.
ASSUME RiskAssumption ==
  /\ IsFiniteSet(Archetypes) /\ Simulated \in Nat
  /\ Reports \subseteq [hit : [Archetypes -> SUBSET ScoredHosts], blocked : Nat, bypassed : Nat]

VARIABLES
  ingested, \* _simulation_history
  refresh   \* each call: phase, simulations run, completed

riskVars == <<ingested, refresh>>

RiskInit ==
  /\ ingested = <<>>
  /\ refresh = [c \in Refreshes |-> [phase |-> "idle", run |-> 0, completed |-> 0]]

BeginRefresh(c) ==
  /\ refresh[c].phase = "idle"
  /\ refresh' = [refresh EXCEPT ![c].phase = "running"]
  /\ UNCHANGED ingested

\* A simulation of the refresh ends, and its report is ingested.
SimulationIngested(c) ==
  /\ refresh[c].phase = "running" /\ refresh[c].run < Simulated
  /\ \E r \in Reports : ingested' = Append(ingested, r)
  /\ refresh' = [refresh EXCEPT ![c].run = @ + 1, ![c].completed = @ + 1]

\* It raises: the refresh goes on with the next one.
SimulationSkipped(c) ==
  /\ refresh[c].phase = "running" /\ refresh[c].run < Simulated
  /\ refresh' = [refresh EXCEPT ![c].run = @ + 1]
  /\ UNCHANGED ingested

RefreshDone(c) ==
  /\ refresh[c].phase = "running" /\ refresh[c].run = Simulated
  /\ refresh' = [refresh EXCEPT ![c].phase = "done"]
  /\ UNCHANGED ingested

RiskNext ==
  \E c \in Refreshes : \/ BeginRefresh(c) \/ SimulationIngested(c)
                       \/ SimulationSkipped(c) \/ RefreshDone(c)

RiskSpec == RiskInit /\ [][RiskNext]_riskVars

-----------------------------------------------------------------------------
(* compute_risk_scores over a history of reports.                           *)

\* The archetypes whose campaigns compromised the host.
Hitters(r, h) == {a \in Archetypes : h \in r.hit[a]}

\* Counted for each campaign, not for each simulation.
CompromiseCount(history, h) ==
  Total([i \in DOMAIN history |-> Cardinality(Hitters(history[i], h))])

Diversity(history, h) ==
  Cardinality({a \in Archetypes : \E i \in DOMAIN history : h \in history[i].hit[a]})

\* What the defenses did in the reports in which the host was compromised.
Relevant(history, h) == {i \in DOMAIN history : Hitters(history[i], h) # {}}

Blocked(history, h) == Total([i \in Relevant(history, h) |-> history[i].blocked])
Attempts(history, h) ==
  Total([i \in Relevant(history, h) |-> history[i].blocked + history[i].bypassed])

LowerOf(x, y) == IF x < y THEN x ELSE y
HigherOf(x, y) == IF x > y THEN x ELSE y

\* Mutant: the bonus is added to a score that has been cut already.
ScoreMutant(history, h) ==
  LET n == Len(history)
      tries == Attempts(history, h)
      a == HigherOf(tries, 1)
      base == 60 * CompromiseCount(history, h) * a
      less == IF tries = 0 THEN 0 ELSE 10 * Blocked(history, h) * n
      archetypes == Diversity(history, h)
      bonus == IF archetypes > 1 THEN LowerOf(3 * archetypes, 10) ELSE 0
  IN [num |-> LowerOf(100 * n * a, HigherOf(0, base - less)) + bonus * n * a, den |-> n * a]

\* The score of a host is this fraction: the compromise rate times 60 (every
\* host is known to the scorer as one of medium criticality), less ten times
\* the block rate, not below zero, plus three for each archetype if several
\* compromised it, ten at most, and not above 100.
Score(history, h) ==
  LET n == Len(history)
      tries == Attempts(history, h)
      a == HigherOf(tries, 1)
      base == 60 * CompromiseCount(history, h) * a
      less == IF tries = 0 THEN 0 ELSE 10 * Blocked(history, h) * n
      archetypes == Diversity(history, h)
      bonus == IF archetypes > 1 THEN LowerOf(3 * archetypes, 10) ELSE 0
  IN [num |-> LowerOf(100 * n * a, HigherOf(0, base - less) + bonus * n * a), den |-> n * a]

-----------------------------------------------------------------------------
(* What must hold.                                                          *)

RiskTypeOK ==
  /\ \A i \in DOMAIN ingested : ingested[i] \in Reports
  /\ refresh \in [Refreshes -> [phase : {"idle", "running", "done"}, run : 0..Simulated,
                                completed : 0..Simulated]]

\* A score is between 0 and 100, though the rate it starts from is not a share
\* (see RateIsAShare).
ScoresBounded ==
  \A h \in ScoredHosts : ingested # <<>> =>
    /\ 0 <= Score(ingested, h).num
    /\ Score(ingested, h).num <= 100 * Score(ingested, h).den

\* What the defenses did in a simulation in which a host was not compromised
\* does not move the host's score.
NoLeak ==
  \A h \in ScoredHosts : ingested # <<>> =>
    LET own == [i \in DOMAIN ingested |->
                  IF Hitters(ingested[i], h) # {} THEN ingested[i]
                  ELSE [ingested[i] EXCEPT !.blocked = 0, !.bypassed = 0]]
        s == Score(ingested, h)
        t == Score(own, h)
    IN s.num * t.den = t.num * s.den

\* A host's score is a score, and the host's own.
ScoresConsistent == RiskTypeOK /\ ScoresBounded /\ NoLeak

\* HostRiskScore.compromise_rate is the fraction of simulations in which the
\* host was compromised. It is not: a host that several campaigns of one
\* simulation compromise counts several times.
RateIsAShare ==
  \A h \in ScoredHosts : CompromiseCount(ingested, h) <= Len(ingested)
=============================================================================
