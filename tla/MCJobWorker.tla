----------------------------- MODULE MCJobWorker -----------------------------
(* Small instances of JobWorker for TLC. *)
EXTENDS JobWorker, TLC

CONSTANTS a, b

\* Workers run the same program.
MCSymmetry == Permutations(Workers)
=============================================================================
