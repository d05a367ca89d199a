------------------------------ MODULE MCTCPProxy ------------------------------
(* Small instances of TCPProxy for TLC. *)
EXTENDS TCPProxy, TLC

\* Connections, sockets and processes are interchangeable.
MCSymmetry ==
    Permutations(Handles) \cup Permutations(Listeners) \cup Permutations(Conns)
=============================================================================
