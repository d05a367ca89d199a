----------------------------- MODULE MCLifecycle -----------------------------
(* Small instances of ProjectLifecycle for TLC. *)
EXTENDS ProjectLifecycle, TLC

\* Processes, sockets and connections are interchangeable.
MCSymmetry ==
    Permutations(Handles) \cup Permutations(Listeners) \cup Permutations(Conns)

\* The behaviours in which neither loop of the server starts anything: the boot
\* loop is still in its three seconds of sleep, the health monitor is switched
\* off.  What starts a process is then a goroutine of a handler.
HandlersNext ==
    \/ \E p \in Projects : CreateProject(p) \/ RunProxy(p) \/ RunStart(p)
    \/ \E r \in Requests, p \in Projects :
          DeleteBegin(r, p) \/ \E s \in Statuses : PatchRead(r, p, s)
    \/ \E r \in Requests : HandlerStep(r)
    \/ ManagerStep

HandlersSpec == Init /\ [][HandlersNext]_vars
=============================================================================
