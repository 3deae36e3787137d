-------------------------- MODULE MCRequestLimits ---------------------------
(***************************************************************************)
(* Two clients of one process.                                             *)
(***************************************************************************)
EXTENDS RequestLimits, TLC

Interchangeable == Permutations(Clients)
=============================================================================
