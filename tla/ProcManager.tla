----------------------------- MODULE ProcManager -----------------------------
(***************************************************************************)
(* The process registry of internal/runtime/procmgr.go: pm.procs, the      *)
(* goroutine that waits for each child, Start, Stop and Restart.           *)
(*                                                                         *)
(* A step is one critical section of pm.mu, one signal sent outside it, or *)
(* one move of the operating system.  Start holds pm.mu from its first     *)
(* read to the registration of the child, so it is one step; Stop releases *)
(* pm.mu between reading the entry and deleting it, so it is several.      *)
(*                                                                         *)
(* What the projects row says (startup_command, systemd unit, binary, or   *)
(* nothing) is left open here, because any handler may edit the row        *)
(* between two calls; ProjectLifecycle constrains it.                      *)
(***************************************************************************)

CONSTANTS
    Projects,   \* ids of the managed projects
    Handles,    \* os processes: a cmd, its pid and its done channel
    Callers,    \* goroutines that may call Stop or Restart
    None        \* no process, no project

ASSUME NoneAssumption == None \notin Projects \cup Handles

VARIABLES
    procs,      \* pm.procs: the registered process of each project
    phase,      \* life of each os process, up to the close of its done channel
    owner,      \* the project a process was launched for
    signal,     \* the strongest signal sent to a process
    unit,       \* the project's systemd unit is active
    pc,         \* where each caller is in Stop or Restart
    target,     \* the project a caller works on
    held,       \* pid and done channel a caller took from the registry
    then        \* what a caller does after Stop: return, or start again

procVars == <<procs, phase, owner, signal, unit>>
callVars == <<pc, target, held, then>>
vars == <<procs, phase, owner, signal, unit, pc, target, held, then>>

Phases == {"live", "exited", "reaped", "done"}
Places == {"idle", "lookup", "term", "wait", "killed", "clear", "start"}

TypeOK ==
    /\ procs \in [Projects -> Handles \cup {None}]
    /\ phase \in [Handles -> Phases]
    /\ owner \in [Handles -> Projects \cup {None}]
    /\ signal \in [Handles -> {"none", "term", "kill"}]
    /\ unit \in [Projects -> BOOLEAN]
    /\ pc \in [Callers -> Places]
    /\ target \in [Callers -> Projects \cup {None}]
    /\ held \in [Callers -> Handles \cup {None}]
    /\ then \in [Callers -> {"return", "start"}]

Init ==
    /\ procs = [p \in Projects |-> None]
    /\ phase = [h \in Handles |-> "done"]
    /\ owner = [h \in Handles |-> None]
    /\ signal = [h \in Handles |-> "none"]
    /\ unit \in [Projects -> BOOLEAN]
    /\ pc = [c \in Callers |-> "idle"]
    /\ target = [c \in Callers |-> None]
    /\ held = [c \in Callers |-> None]
    /\ then = [c \in Callers |-> "return"]

-----------------------------------------------------------------------------
(* The life of an os process and of its Wait goroutine *)

\* A process ends: by itself, by a crash, or because of a signal.
Exit(h) ==
    /\ phase[h] = "live"
    /\ phase' = [phase EXCEPT ![h] = "exited"]
    /\ UNCHANGED <<procs, owner, signal, unit, callVars>>

\* Mutant of Reap: the entry is left behind.
ReapKeepsEntry(h) ==
    /\ phase[h] = "exited"
    /\ phase' = [phase EXCEPT ![h] = "reaped"]
    /\ UNCHANGED <<procs, owner, signal, unit, callVars>>

\* cmd.Wait returned: the goroutine deletes the entry of its project,
\* whichever process that entry describes by now.
Reap(h) ==
    /\ phase[h] = "exited"
    /\ phase' = [phase EXCEPT ![h] = "reaped"]
    /\ procs' = [procs EXCEPT ![owner[h]] = None]
    /\ UNCHANGED <<owner, signal, unit, callVars>>

\* ... and closes the done channel after it has released pm.mu.
CloseDone(h) ==
    /\ phase[h] = "reaped"
    /\ phase' = [phase EXCEPT ![h] = "done"]
    /\ owner' = [owner EXCEPT ![h] = None]
    /\ signal' = [signal EXCEPT ![h] = "none"]
    /\ UNCHANGED <<procs, unit, callVars>>

-----------------------------------------------------------------------------
(* Start, the whole body under pm.mu *)

\* A handle that no process and no caller uses stands for a new process.
Unused(h) == phase[h] = "done" /\ \A c \in Callers : held[c] # h

\* startup_command or binary: the child is started and registered.
Spawn(p, h) ==
    /\ Unused(h)
    /\ procs' = [procs EXCEPT ![p] = h]
    /\ phase' = [phase EXCEPT ![h] = "live"]
    /\ owner' = [owner EXCEPT ![h] = p]
    /\ signal' = [signal EXCEPT ![h] = "none"]
    /\ UNCHANGED unit

\* A systemd unit is started by systemctl and never registered.
StartUnit(p) ==
    /\ unit' = [unit EXCEPT ![p] = TRUE]
    /\ UNCHANGED <<procs, phase, owner, signal>>

\* Start(projectID), with the result it returns: "running" when an entry
\* exists, "error" at the memory gate, without a command, without a binary, or
\* when systemctl or exec fails.
StartRun(p, result) ==
    \/ /\ procs[p] # None
       /\ result = "running"
       /\ UNCHANGED procVars
    \/ /\ procs[p] = None
       /\ \/ result = "spawned" /\ \E h \in Handles : Spawn(p, h)
          \/ result = "unit" /\ StartUnit(p)
          \/ result = "error" /\ UNCHANGED procVars

Results == {"running", "spawned", "unit", "error"}

\* Start called by a goroutine that does nothing else with the registry:
\* a request, the health monitor, the boot loop or a proxied connection.
Start(p) ==
    /\ \E result \in {"spawned", "unit"} : StartRun(p, result)
    /\ UNCHANGED callVars

-----------------------------------------------------------------------------
(* Stop and Restart, step by step *)

\* Mutant of StopLock: the caller keeps the project instead of its process.
StopLockKeepsProject(c, p, next) ==
    /\ pc[c] = "idle"
    /\ target' = [target EXCEPT ![c] = p]
    /\ then' = [then EXCEPT ![c] = next]
    /\ held' = [held EXCEPT ![c] = IF procs[p] = None THEN None ELSE p]
    /\ pc' = [pc EXCEPT ![c] = IF procs[p] = None THEN "lookup" ELSE "term"]
    /\ UNCHANGED procVars

\* The first critical section of Stop: take pid and done from the entry.
StopLock(c, p, next) ==
    /\ pc[c] = "idle"
    /\ target' = [target EXCEPT ![c] = p]
    /\ then' = [then EXCEPT ![c] = next]
    /\ held' = [held EXCEPT ![c] = procs[p]]
    /\ pc' = [pc EXCEPT ![c] = IF procs[p] = None THEN "lookup" ELSE "term"]
    /\ UNCHANGED procVars

\* The caller leaves Stop: Restart goes on to Start, everybody else returns.
Leave(c) ==
    /\ held' = [held EXCEPT ![c] = None]
    /\ \/ /\ then[c] = "start"
          /\ pc' = [pc EXCEPT ![c] = "start"]
          /\ UNCHANGED <<target, then>>
       \/ /\ then[c] = "return"
          /\ pc' = [pc EXCEPT ![c] = "idle"]
          /\ target' = [target EXCEPT ![c] = None]
          /\ UNCHANGED then

\* No entry: the row is read, and its unit stopped if it names one that exists.
StopUntracked(c) ==
    /\ pc[c] = "lookup"
    /\ \/ UNCHANGED unit
       \/ unit' = [unit EXCEPT ![target[c]] = FALSE]
    /\ Leave(c)
    /\ UNCHANGED <<procs, phase, owner, signal>>

\* killGroup: only a running process notices, and a kill is not taken back.
Send(h, s) ==
    signal' = [signal EXCEPT ![h] = IF phase[h] = "live" /\ @ # "kill" THEN s ELSE @]

\* SIGTERM to the process group that was read.
Terminate(c) ==
    /\ pc[c] = "term"
    /\ Send(held[c], "term")
    /\ pc' = [pc EXCEPT ![c] = "wait"]
    /\ UNCHANGED <<procs, phase, owner, unit, target, held, then>>

\* Mutant of WaitDone: no second wait after the kill.
WaitDoneOnce(c) ==
    /\ \/ pc[c] = "wait" /\ phase[held[c]] = "done"
       \/ pc[c] = "killed"
    /\ pc' = [pc EXCEPT ![c] = "clear"]
    /\ UNCHANGED <<procVars, target, held, then>>

\* <-done, before or after the kill.
WaitDone(c) ==
    /\ pc[c] \in {"wait", "killed"}
    /\ phase[held[c]] = "done"
    /\ pc' = [pc EXCEPT ![c] = "clear"]
    /\ UNCHANGED <<procVars, target, held, then>>

\* Mutant of Escalate: SIGTERM once more.
EscalateWithoutKill(c) ==
    /\ pc[c] = "wait"
    /\ Send(held[c], "term")
    /\ pc' = [pc EXCEPT ![c] = "killed"]
    /\ UNCHANGED <<procs, phase, owner, unit, target, held, then>>

\* Five seconds have passed: SIGKILL, and wait again.
Escalate(c) ==
    /\ pc[c] = "wait"
    /\ Send(held[c], "kill")
    /\ pc' = [pc EXCEPT ![c] = "killed"]
    /\ UNCHANGED <<procs, phase, owner, unit, target, held, then>>

\* The second critical section of Stop deletes the entry of the project,
\* which may have been replaced since the first one.
StopClear(c) ==
    /\ pc[c] = "clear"
    /\ procs' = [procs EXCEPT ![target[c]] = None]
    /\ Leave(c)
    /\ UNCHANGED <<phase, owner, signal, unit>>

\* Restart: half a second after Stop, Start.
RestartStart(c) ==
    /\ pc[c] = "start"
    /\ \E result \in Results : StartRun(target[c], result)
    /\ pc' = [pc EXCEPT ![c] = "idle"]
    /\ target' = [target EXCEPT ![c] = None]
    /\ then' = [then EXCEPT ![c] = "return"]
    /\ UNCHANGED held

-----------------------------------------------------------------------------

\* What the operating system and the Wait goroutines do.
ProcStep == \E h \in Handles : Exit(h) \/ Reap(h) \/ CloseDone(h)

\* What a caller does once it is inside Stop or Restart.
CallerStep(c) ==
    \/ StopUntracked(c)
    \/ Terminate(c)
    \/ WaitDone(c)
    \/ Escalate(c)
    \/ StopClear(c)
    \/ RestartStart(c)

Next ==
    \/ ProcStep
    \/ \E p \in Projects : Start(p)
    \/ \E c \in Callers, p \in Projects, next \in {"return", "start"} :
          StopLock(c, p, next)
    \/ \E c \in Callers : CallerStep(c)

Spec == Init /\ [][Next]_vars

\* The kernel delivers SIGKILL, Wait goroutines run, and a caller inside Stop
\* is not abandoned: its timer fires and pm.mu is granted.  Nothing is assumed
\* of a process that only got SIGTERM.
Fairness ==
    /\ \A h \in Handles :
          /\ WF_vars(signal[h] = "kill" /\ Exit(h))
          /\ WF_vars(Reap(h))
          /\ WF_vars(CloseDone(h))
    /\ \A c \in Callers : WF_vars(CallerStep(c))

FairSpec == Spec /\ Fairness

-----------------------------------------------------------------------------
(* Properties *)

\* A registered entry describes a process of that project whose Wait goroutine
\* has not run yet.  It is what lets a crashed project start again: Start
\* returns nil for as long as an entry exists, so an entry that outlived its
\* Wait goroutine would keep the project down for ever.
NoStaleEntry ==
    \A p \in Projects : procs[p] # None =>
        /\ owner[procs[p]] = p
        /\ phase[procs[p]] \in {"live", "exited"}

\* Stop deletes the entry, and returns, only when the process it signalled
\* has exited and been waited for; Restart relies on it to rebind the port.
StopOutlivesProcess ==
    \A c \in Callers : pc[c] = "clear" => phase[held[c]] = "done"

\* Every running process is the registered process of its project: at most one
\* runs per project, and Stop can reach it (the project document: a process of
\* the project's own, which starts and stops with it).  It holds while nobody
\* calls Stop, and does not hold otherwise: StopClear may delete the entry of a
\* process that was started after the one it waited for.
OneProcessPerProject ==
    \A h \in Handles : phase[h] = "live" => procs[owner[h]] = h

\* A call of Stop or Restart returns, even if the process ignores SIGTERM.
StopReturns == \A c \in Callers : pc[c] # "idle" ~> pc[c] = "idle"

=============================================================================
