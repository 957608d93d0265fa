------------------------------ MODULE MCTriage ------------------------------
(***************************************************************************)
(* Two parts of the alert-triage service: the pool of its asynchronous     *)
(* jobs, with levels on both sides of every boundary of submit and a       *)
(* threshold the jobs can exceed; and the way of alerts through it, one    *)
(* delivered by webhook and by poll with feedback on it, another, below    *)
(* the minimum, by webhook. They share no state (an analysis asks the      *)
(* services and files no job, and the pool sees nothing of an analysis but *)
(* its end), so what holds of each part's steps alone holds of the two     *)
(* interleaved; the first state picks the part that steps.                 *)
(***************************************************************************)
EXTENDS WorkerPool, Ingestion

VARIABLE part

CONSTANTS a1, a2, n1, n2, n3, s1, ip

mcVars == <<part, poolVars, vars>>

MCInit == part \in {"pool", "ingestion"} /\ PoolInit /\ Init

MCNext ==
  /\ UNCHANGED part
  /\ \/ part = "pool" /\ PoolNext /\ UNCHANGED vars
     \/ part = "ingestion" /\ Next /\ UNCHANGED poolVars

\* In the other part no action that is fair is ever enabled.
MCSpec == MCInit /\ [][MCNext]_mcVars /\ PoolFairness /\ Fairness

BoundaryLevels == {6, 7, 9, 10, 11, 12}

MCAnalysisOf == [n \in Analyses |-> IF n = n3 THEN a2 ELSE a1]
MCAboutAlert == [s \in Submissions |-> a1]
MCLevelOf == [a \in Alerts |-> IF a = a1 THEN 8 ELSE 6]
MCSourceOf == [a \in Alerts |-> ip]
MCPolled == <<n2>>
=============================================================================
