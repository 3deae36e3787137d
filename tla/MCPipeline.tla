----------------------------- MODULE MCPipeline ------------------------------
(***************************************************************************)
(* An instance of Pipeline for the model checker.                          *)
(***************************************************************************)
EXTENDS Pipeline, TLC
=============================================================================
