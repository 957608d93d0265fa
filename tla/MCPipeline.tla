------------------------------ MODULE MCPipeline ------------------------------
(***************************************************************************)
(* Two alerts in the queue, one in a batch, two attempts at a case.        *)
(***************************************************************************)
EXTENDS Pipeline

CONSTANTS q1, q2, b1

MCVerdicts == {[severity |-> "medium", confidence |-> "0.9 and above"],
               [severity |-> "critical", confidence |-> "0.9 and above"]}
=============================================================================
