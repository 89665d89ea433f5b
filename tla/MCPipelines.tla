----------------------------- MODULE MCPipelines -----------------------------
(* A small instance of Pipelines for TLC.                                  *)
EXTENDS Pipelines

CONSTANTS t1, k1

AllHybrid == [t \in Tables |-> "HYBRID"]

=============================================================================
