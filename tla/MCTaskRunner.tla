----------------------------- MODULE MCTaskRunner -----------------------------
(* Small instances of TaskRunner for TLC. *)
EXTENDS TaskRunner, TLC

\* Goroutines are interchangeable.
MCSymmetry == Permutations(Runs)
=============================================================================
