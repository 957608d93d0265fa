----------------------------- MODULE MCCampaign -----------------------------
(***************************************************************************)
(* The simulation of MCSimulation and, on the same infrastructure but in   *)
(* copies of their own, the followers that replay a leader's path. The two *)
(* share no state, so what holds of each part's steps alone holds of both  *)
(* interleaved; the first state picks the part that steps. The console is  *)
(* in the segment of the database: a jittered target differs from the      *)
(* leader's.                                                               *)
(***************************************************************************)
EXTENDS MCSimulation, Follower

VARIABLE part

mcVars == <<part, vars, followerVars>>

NothingContained == [blocked |-> {}, isolated |-> {}, edr |-> {}, revoked |-> FALSE]

\* Only their own part is about every containment a follower may start with.
MCInit ==
  /\ part \in {"simulation", "followers"}
  /\ Init /\ FollowerInit
  /\ part # "followers" => kind = "defender" /\ contained = NothingContained

MCNext ==
  /\ UNCHANGED part
  /\ \/ part = "simulation" /\ Next /\ UNCHANGED followerVars
     \/ part = "followers" /\ FollowerNext /\ UNCHANGED vars

MCSpec == MCInit /\ [][MCNext]_mcVars

MCLeaderAttacks == Attacks
=============================================================================
