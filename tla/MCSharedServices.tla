-------------------------- MODULE MCSharedServices --------------------------
EXTENDS SharedServices, TLC

\* Projects, svcStates and processes are interchangeable; liveness runs do
\* not use this.
Symmetry == Permutations(Projects) \cup Permutations(States)
            \cup Permutations(Handles) \cup Permutations(Workers)

=============================================================================
