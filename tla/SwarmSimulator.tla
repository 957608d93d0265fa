---------------------------- MODULE SwarmSimulator ----------------------------
(***************************************************************************)
(* swarm.py, one call of SwarmSimulator.run: the Monte Carlo loop and the  *)
(* report aggregated from it. A batch is what its leaders and followers    *)
(* came to (Simulation and Follower have the inside of a batch); rates are *)
(* percentages, and comparisons of means are made without dividing.        *)
(***************************************************************************)
EXTENDS Integers, Sequences, FiniteSets, Totals

CONSTANTS
  MonteCarloRuns,  \* monte_carlo_runs
  Outcomes         \* what a batch may come to

\* campaigns: the leaders' attack campaigns, each with its path and the number
\* of hosts it compromised; actions and successes are summed over them.
\* defenders, followers: how many other agents of the batch left a summary.
ASSUME SwarmAssumption ==
  /\ MonteCarloRuns \in Nat \ {0}
  /\ Outcomes \subseteq [campaigns : Seq([path : STRING, hosts : Nat]), actions : Nat,
                          successes : Nat, defenders : Nat, followers : Nat]
  /\ \A o \in Outcomes : o.successes <= o.actions

VARIABLES
  batches,     \* all_batch_results
  strategies,  \* successful_strategies: batch, campaign, hosts compromised
  progress     \* _progress: status, current_batch, total_agent_runs

swarmVars == <<batches, strategies, progress>>

SwarmInit ==
  /\ batches = <<>> /\ strategies = {}
  /\ progress = [status |-> "initializing", batch |-> 0, runs |-> 0]

AgentRuns(o) == Len(o.campaigns) + o.defenders + o.followers

\* Hosts compromised by the strategies kept, and by the leaders of a batch.
Compromised(kept) == Total([s \in kept |-> s.hosts])
LeadersCompromised(o) == Total([k \in DOMAIN o.campaigns |-> o.campaigns[k].hosts])

\* What the leaders of batch b teach the ones after it.
Successful(b, o) ==
  {[batch |-> b, campaign |-> k, hosts |-> o.campaigns[k].hosts] :
     k \in {n \in DOMAIN o.campaigns : o.campaigns[n].hosts > 0}}

\* A batch: leaders, what their successful strategies teach, followers.
Batch ==
  /\ progress.status \in {"initializing", "running"} /\ Len(batches) < MonteCarloRuns
  /\ \E o \in Outcomes :
       /\ batches' = Append(batches, o)
       /\ strategies' = strategies \cup Successful(Len(batches) + 1, o)
       /\ progress' = [status |-> "running", batch |-> Len(batches) + 1,
                       runs |-> progress.runs + AgentRuns(o)]

Aggregated ==
  /\ progress.status = "running" /\ Len(batches) = MonteCarloRuns
  /\ progress' = [progress EXCEPT !.status = "complete"]
  /\ UNCHANGED <<batches, strategies>>

SwarmNext == Batch \/ Aggregated

SwarmSpec == SwarmInit /\ [][SwarmNext]_swarmVars

-----------------------------------------------------------------------------
(* The report.                                                              *)

TotalAgentRuns == Total([b \in DOMAIN batches |-> AgentRuns(batches[b])])

\* Percentage of a batch's leader actions that succeeded.
Rate(o) == IF o.actions = 0 THEN 0 ELSE (100 * o.successes) \div o.actions

\* batch_success_rates: a batch whose leaders did nothing has no rate.
Acting == {b \in DOMAIN batches : batches[b].actions > 0}
Nth(S, k) == CHOOSE i \in S : Cardinality({j \in S : j <= i}) = k
RateSeries == [k \in 1..Cardinality(Acting) |-> Rate(batches[Nth(Acting, k)])]

Spread(window) ==
  LET rates == {window[i] : i \in DOMAIN window}
  IN (CHOOSE x \in rates : \A y \in rates : y <= x) - (CHOOSE x \in rates : \A y \in rates : x <= y)

\* _check_convergence: the last three batches lie within five points.
CheckConvergence(series) ==
  Len(series) >= 3 /\ Spread(SubSeq(series, Len(series) - 2, Len(series))) < 5

\* _convergence_batch: the first batch that closes such a window, or -1.
ConvergenceBatch(series) ==
  LET closes == {i \in 3..Len(series) : Spread(SubSeq(series, i - 2, i)) < 5}
  IN IF closes = {} THEN -1 ELSE CHOOSE i \in closes : \A j \in closes : i <= j

\* Mutant: sums are compared for means, though the halves differ in length.
LearningTrendMutant ==
  LET rates == [i \in DOMAIN batches |-> Rate(batches[i])]
      half  == Len(rates) \div 2
      rise  == Total(SubSeq(rates, half + 1, Len(rates))) - Total(SubSeq(rates, 1, half))
  IN IF Len(rates) < 3 THEN "insufficient_data"
     ELSE IF rise > 5 THEN "improving" ELSE IF rise < -5 THEN "degrading" ELSE "stable"

\* attacker_learning_trend: the mean of the later half against the earlier
\* half's. Here a batch without actions counts as a batch of rate 0.
LearningTrend ==
  LET rates == [i \in DOMAIN batches |-> Rate(batches[i])]
      half  == Len(rates) \div 2
      early == SubSeq(rates, 1, half)
      late  == SubSeq(rates, half + 1, Len(rates))
      rise  == Total(late) * Len(early) - Total(early) * Len(late)
      points == 5 * Len(early) * Len(late)
  IN IF Len(rates) < 3 THEN "insufficient_data"
     ELSE IF rise > points THEN "improving"
     ELSE IF rise < -points THEN "degrading" ELSE "stable"

-----------------------------------------------------------------------------
(* What must hold.                                                          *)

\* The runs a caller watches being counted are the runs of the report, which
\* counts them again from the batches, and the strategies kept across batches
\* compromised what the leaders of those batches did (_build_cross_batch_intel
\* shows both figures).
ProgressMatchesReport ==
  /\ progress.runs = TotalAgentRuns
  /\ Compromised(strategies) = Total([b \in DOMAIN batches |-> LeadersCompromised(batches[b])])

\* A report that claims convergence names the batch where it was reached, and
\* one whose three batches converged claims neither learning nor decline: the
\* three figures come from three functions with ranges of their own.
ConvergenceIsConsistent ==
  progress.status = "complete" /\ CheckConvergence(RateSeries)
    => /\ ConvergenceBatch(RateSeries) \in 3..Len(RateSeries)
       /\ MonteCarloRuns = 3 => LearningTrend = "stable"

\* What a swarm's caller is told, while it runs and at the end, is one account.
SwarmConsistent == ProgressMatchesReport /\ ConvergenceIsConsistent
=============================================================================
