----------------------------- MODULE MCPipeline -----------------------------
(***************************************************************************)
(* A small instance of the comparison pipeline for TLC: every job has one   *)
(* byte.                                                                    *)
(***************************************************************************)
EXTENDS PipelineProps

UnitWeight == [S \in SUBSET Jobs |-> Cardinality(S)]
=============================================================================
