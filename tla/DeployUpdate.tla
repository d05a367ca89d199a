---------------------------- MODULE DeployUpdate ----------------------------
(* deploy.UpdateRemote on the checkout of one remote project, run by the      *)
(* auto-updater's goroutine and by requests (UpdateProjectCode) at the same   *)
(* time: fetch, fast-forward, restart, health gate, roll back; and            *)
(* DeployLinuxService on the same checkout, when the project is switched to   *)
(* online again.  Commits are numbered along the branch.                      *)
EXTENDS Naturals, FiniteSets

CONSTANTS
    Updaters,     \* goroutines that may run UpdateRemote at one time
    MaxCommit,    \* bound: commits pushed to the upstream branch
    Bad,          \* commits whose service does not answer its health URL
    Attempts,     \* health attempts of one update (3 in the code)
    HealthGate    \* BOOLEAN: the project has a health URL and a port

ASSUME CommitAssumption == MaxCommit \in Nat /\ Bad \subseteq 1..MaxCommit
ASSUME AttemptsAssumption == Attempts \in Nat \ {0}
ASSUME GateAssumption == HealthGate \in BOOLEAN

VARIABLES
    upstream,   \* newest commit of the remote branch
    tracked,    \* origin/HEAD in the checkout, as of the last fetch
    head,       \* commit the checkout is at
    running,    \* commit the unit was last started from, or Down
    update,     \* update[u]: where an UpdateRemote is, and what it read
    excuse      \* history: why a bad commit may be left deployed

dvars == <<upstream, tracked, head, running, update, excuse>>

Commits == 0..MaxCommit
Down == MaxCommit + 1
Idle == [pc |-> "idle", old |-> 0, tries |-> 0, result |-> "none"]
Steps == {"idle", "merge", "restart", "check", "reset", "restartOld", "unit"}
Results == {"none", "nochange", "changed", "failed", "rolledBack", "stuck", "deployed"}

DeployInit ==
    /\ upstream = 0 /\ tracked = 0 /\ head = 0 /\ running = 0
    /\ update = [u \in Updaters |-> Idle]
    /\ excuse = {}

To(u, pc) == update' = [update EXCEPT ![u].pc = pc]
Return(u, result) == update' = [update EXCEPT ![u] = [Idle EXCEPT !.result = result]]
Others(u) == {v \in Updaters \ {u} : update[v].pc # "idle"}
Settled == \A u \in Updaters : update[u].pc = "idle"
Overlap(u) == IF Others(u) = {} THEN {} ELSE {"overlap"}

Push ==
    /\ upstream < MaxCommit
    /\ upstream' = upstream + 1
    /\ UNCHANGED <<tracked, head, running, update, excuse>>

\* git fetch, then HEAD and @{u} of the checkout.  A machine that is not in the
\* registry, an unreachable one and a failed fetch end the update here.
Fetch(u) ==
    /\ update[u].pc = "idle"
    /\ tracked' = upstream
    /\ IF head = upstream
       THEN Return(u, "nochange") /\ UNCHANGED excuse
       ELSE /\ update' = [update EXCEPT ![u] = [Idle EXCEPT !.pc = "merge", !.old = head]]
            /\ excuse' = excuse \cup Overlap(u)
    /\ UNCHANGED <<upstream, head, running>>

FetchFails(u) ==
    /\ update[u].pc = "idle"
    /\ Return(u, "failed")
    /\ UNCHANGED <<upstream, tracked, head, running, excuse>>

\* git merge --ff-only origin: whatever was fetched last, by whoever.
Merge(u) ==
    /\ update[u].pc = "merge"
    /\ head' = IF tracked > head THEN tracked ELSE head
    /\ To(u, "restart")
    /\ UNCHANGED <<upstream, tracked, running, excuse>>

MergeFails(u) ==
    /\ update[u].pc = "merge"
    /\ Return(u, "failed")
    /\ UNCHANGED <<upstream, tracked, head, running, excuse>>

\* && systemctl restart.  The gate is skipped for a project without a health URL
\* or a port, and when the machine's address cannot be read (Ungated).
Restart(u) ==
    /\ update[u].pc = "restart"
    /\ running' = head
    /\ IF HealthGate THEN To(u, "check") ELSE Return(u, "changed")
    /\ excuse' = IF HealthGate THEN excuse ELSE excuse \cup {"ungated"}
    /\ UNCHANGED <<upstream, tracked, head>>

Ungated(u) ==
    /\ update[u].pc = "restart"
    /\ running' = head
    /\ Return(u, "changed")
    /\ excuse' = excuse \cup {"ungated"}
    /\ UNCHANGED <<upstream, tracked, head>>

\* The merge stands: nothing rolls back a restart that failed.
RestartFails(u) ==
    /\ update[u].pc = "restart"
    /\ running' \in {running, Down}
    /\ Return(u, "failed")
    /\ excuse' = excuse \cup {"restart"}
    /\ UNCHANGED <<upstream, tracked, head>>

\* One GET of the health URL.
Healthy(u) ==
    /\ update[u].pc = "check"
    /\ running \notin Bad \cup {Down}
    /\ Return(u, "changed")
    /\ UNCHANGED <<upstream, tracked, head, running, excuse>>

\* Mutant of Unhealthy: the loop makes one attempt more.
UnhealthyOnceMore(u) ==
    /\ update[u].pc = "check"
    /\ IF update[u].tries = Attempts
       THEN To(u, "reset")
       ELSE update' = [update EXCEPT ![u].tries = @ + 1]
    /\ UNCHANGED <<upstream, tracked, head, running, excuse>>

\* An error, a timeout or a status of 400 and more: of a bad commit, or of a
\* good one whose port is not bound yet.
Unhealthy(u) ==
    /\ update[u].pc = "check"
    /\ IF update[u].tries + 1 = Attempts
       THEN To(u, "reset")
       ELSE update' = [update EXCEPT ![u].tries = @ + 1]
    /\ UNCHANGED <<upstream, tracked, head, running, excuse>>

\* Mutant of Reset: the roll back goes to whatever the checkout is at.
ResetToHead(u) ==
    /\ update[u].pc = "reset"
    /\ head' = head
    /\ To(u, "restartOld")
    /\ UNCHANGED <<upstream, tracked, running, excuse>>

\* git reset --hard oldSHA && systemctl restart: either command may fail.
Reset(u) ==
    /\ update[u].pc = "reset"
    /\ head' = update[u].old
    /\ To(u, "restartOld")
    /\ UNCHANGED <<upstream, tracked, running, excuse>>

RestartOld(u) ==
    /\ update[u].pc = "restartOld"
    /\ running' = head
    /\ Return(u, "rolledBack")
    /\ UNCHANGED <<upstream, tracked, head, excuse>>

RollbackFails(u) ==
    /\ update[u].pc \in {"reset", "restartOld"}
    /\ Return(u, "stuck")
    /\ excuse' = excuse \cup {"rollback"}
    /\ UNCHANGED <<upstream, tracked, head, running>>

\* DeployLinuxService: git pull --ff-only in a checkout that exists, the unit
\* file, then enable --now, which starts a unit only if it is down.  Any of the
\* three commands may fail.
Redeploy(u) ==
    /\ update[u].pc = "idle"
    /\ tracked' = upstream /\ head' = upstream
    /\ update' = [update EXCEPT ![u] = [Idle EXCEPT !.pc = "unit"]]
    /\ excuse' = excuse \cup Overlap(u) \cup IF head = upstream THEN {} ELSE {"redeploy"}
    /\ UNCHANGED <<upstream, running>>

EnableNow(u) ==
    /\ update[u].pc = "unit"
    /\ running' = IF running = Down THEN head ELSE running
    /\ Return(u, "deployed")
    /\ UNCHANGED <<upstream, tracked, head, excuse>>

DeployFails(u) ==
    /\ update[u].pc = "unit"
    /\ Return(u, "failed")
    /\ UNCHANGED <<upstream, tracked, head, running, excuse>>

\* Restart=always: systemd starts a process that exited from the checkout.
UnitRestarts ==
    /\ running # Down
    /\ running' = head
    /\ UNCHANGED <<upstream, tracked, head, update, excuse>>

\* The server dies, or is restarted, while updates are at work: nobody goes on
\* with them, and the next fetch compares the commits only, so what was merged
\* stays without a gate.  A command is taken to end with the server; whether the
\* shell on the machine outlives it makes no difference to what is excused.
ServerDies ==
    /\ ~Settled
    /\ update' = [u \in Updaters |-> Idle]
    /\ excuse' = excuse \cup {"death"}
    /\ UNCHANGED <<upstream, tracked, head, running>>

UpdateStep(u) ==
    \/ Fetch(u) \/ FetchFails(u) \/ Merge(u) \/ MergeFails(u)
    \/ Restart(u) \/ Ungated(u) \/ RestartFails(u)
    \/ Healthy(u) \/ Unhealthy(u)
    \/ Reset(u) \/ RestartOld(u) \/ RollbackFails(u)
    \/ Redeploy(u) \/ EnableNow(u) \/ DeployFails(u)

DeployNext == Push \/ UnitRestarts \/ ServerDies \/ \E u \in Updaters : UpdateStep(u)

DeploySpec == DeployInit /\ [][DeployNext]_dvars

-----------------------------------------------------------------------------
(* Properties *)

DeployTypeOK ==
    /\ upstream \in Commits /\ tracked \in 0..upstream /\ head \in 0..upstream
    /\ running \in (0..upstream) \cup {Down}
    /\ update \in [Updaters -> [pc : Steps, old : Commits, tries : 0..(Attempts - 1),
                                result : Results]]
    /\ excuse \subseteq {"overlap", "ungated", "restart", "rollback", "redeploy", "death"}

\* Once no update is at work, the unit runs the commit of the checkout and that
\* commit answers its health URL, unless two of them overlapped, the gate was
\* skipped, a deployment pulled past it, a restart or the roll back itself
\* failed, or the server died in the middle of one: the health gate of
\* UpdateRemote, and what its lack of a lock and of a journal costs.
BadExcused ==
    Settled /\ excuse = {} => head \notin Bad /\ running = head

\* "... and rolls back to the previous commit on failure" (deploy.go, comment of
\* UpdateRemote).  Does not hold (README, Known divergences).
FailureRollsBack ==
    Settled /\ excuse \cap {"overlap", "redeploy"} = {} =>
        \A u \in Updaters : update[u].result = "failed" => head = running

=============================================================================
