----------------------------- MODULE MCJobQueue -----------------------------
(***************************************************************************)
(* Instances of JobQueue for the model checker.                            *)
(***************************************************************************)
EXTENDS JobQueue, TLC

\* One transient and one permanent error: what the retry policy tells apart.
OneOfEach == {"CrmUnavailable", "CrmRejected"}

\* Every class the retry policy may meet.
EveryFailure == DOMAIN MRO

\* Workers and jobs are interchangeable where no property is temporal.
Interchangeable == Permutations(Jobs) \cup Permutations(Workers)
=============================================================================
