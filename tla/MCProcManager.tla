---------------------------- MODULE MCProcManager ----------------------------
(* Small instances of ProcManager for TLC. *)
EXTENDS ProcManager, TLC

\* Processes and callers are interchangeable; projects too.
MCSymmetry ==
    Permutations(Projects) \cup Permutations(Handles) \cup Permutations(Callers)
=============================================================================
