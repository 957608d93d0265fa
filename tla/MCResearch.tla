------------------------------ MODULE MCResearch ------------------------------
(***************************************************************************)
(* Five parts of the correlation engine that keep state in a process and   *)
(* share none of it: a swarm simulation, the runs of swarms, the chat, the *)
(* predictor and the risk scorer. A behaviour of all of them is one of     *)
(* each, interleaved, so what holds of each part's steps alone holds of    *)
(* the whole; the first state picks the part that steps.                   *)
(***************************************************************************)
EXTENDS SwarmSimulator, SwarmRuns, AgentChat, AttackPredictor, RiskScorer

VARIABLE part

CONSTANTS web, db, apt, insider, i1, i2, i3

vars == <<part, swarmVars, runsVars, chatVars, predictorVars, riskVars>>

Parts == {"swarm", "runs", "chat", "predictor", "risk"}

MCInit ==
  /\ part \in Parts
  /\ SwarmInit /\ RunsInit /\ ChatInit /\ PredictorInit /\ RiskInit

MCNext ==
  /\ UNCHANGED part
  /\ \/ part = "swarm" /\ SwarmNext
        /\ UNCHANGED <<runsVars, chatVars, predictorVars, riskVars>>
     \/ part = "runs" /\ RunsNext
        /\ UNCHANGED <<swarmVars, chatVars, predictorVars, riskVars>>
     \/ part = "chat" /\ ChatNext
        /\ UNCHANGED <<swarmVars, runsVars, predictorVars, riskVars>>
     \/ part = "predictor" /\ PredictorNext
        /\ UNCHANGED <<swarmVars, runsVars, chatVars, riskVars>>
     \/ part = "risk" /\ RiskNext
        /\ UNCHANGED <<swarmVars, runsVars, chatVars, predictorVars>>

\* In another part no action that is fair is ever enabled.
MCSpec == MCInit /\ [][MCNext]_vars /\ RunsFairness

\* Leaders that fail, that get one host, that get three, and that do nothing.
MCOutcomes ==
  { [campaigns |-> << [path |-> "p", hosts |-> 0] >>, actions |-> 4, successes |-> 1,
     defenders |-> 1, followers |-> 2],
    [campaigns |-> << [path |-> "p", hosts |-> 1] >>, actions |-> 25, successes |-> 7,
     defenders |-> 0, followers |-> 1],
    [campaigns |-> << [path |-> "p", hosts |-> 1], [path |-> "q", hosts |-> 2] >>,
     actions |-> 4, successes |-> 3, defenders |-> 1, followers |-> 3],
    [campaigns |-> <<>>, actions |-> 0, successes |-> 0, defenders |-> 1, followers |-> 0] }

\* Three incidents: one with repeated and unknown stages, one that goes back.
MCAlertStages ==
  [i \in Closed |-> IF i = i1 THEN <<"recon", "recon", "unknown", "access">>
                    ELSE IF i = i2 THEN <<"recon", "access", "impact">>
                    ELSE <<"access", "recon", "access">>]

\* No host hit, one by one archetype, both by one, one by both.
MCReports ==
  { [hit |-> (apt :> h[1] @@ insider :> h[2]), blocked |-> b, bypassed |-> 1] :
      h \in {<<{}, {}>>, <<{web}, {}>>, <<{}, {web, db}>>, <<{web}, {web}>>}, b \in {0, 3} }
=============================================================================
