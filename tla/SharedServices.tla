--------------------------- MODULE SharedServices ---------------------------
(***************************************************************************)
(* The shared services of internal/runtime/procmgr.go: pm.services, the    *)
(* reference sets, AttachServices, DetachServices, startShared, stopShared *)
(* and the health monitor's second loop, driven by the handlers that       *)
(* attach and detach (PatchProjectStatus, DeleteProject, the boot loop).   *)
(*                                                                         *)
(* A svcState is an object with an identity: a pointer to it outlives its  *)
(* removal from pm.services.  A step is one critical section of pm.mu, one *)
(* read of the row, one signal, or one move of the operating system.       *)
(***************************************************************************)
EXTENDS Naturals

CONSTANTS
    Projects,   \* ids of the projects of this host
    Names,      \* names of shared services
    Systemd,    \* the names whose start_cmd is a systemctl command
    Hanging,    \* the names whose stop_cmd may not return
    States,     \* identities of svcState objects
    Handles,    \* os processes (bash -c start_cmd)
    Workers,    \* goroutines: requests and the ones they spawn, the boot loop
    Health,     \* the health monitor's goroutine
    MaxRefused, \* bound: launches refused by memory or by exec
    MaxRequests,\* bound: requests that change a row
    None

ASSUME NoneAssumption == None \notin Projects \cup Names \cup States \cup Handles
ASSUME SystemdAssumption == Systemd \subseteq Names /\ Hanging \subseteq Names
ASSUME MaxAssumption == MaxRefused \in Nat /\ MaxRequests \in Nat
ASSUME HealthAssumption == Health \notin Workers

VARIABLES
    row,        \* status of the project, "deleted" once the row is gone
    wants,      \* the names in the row's services column
    booting,    \* online projects the boot loop has still to attach
    services,   \* pm.services
    name,       \* svcState.name, None for an object not in use
    refs,       \* svcState.refs
    cmd,        \* svcState.cmd
    starting,   \* svcState.starting
    phase,      \* life of each os process
    owner,      \* the svcState a process was launched for
    pc,         \* where each goroutine is
    job,        \* what it is doing
    who,        \* the project it does it for
    todo,       \* services (names, or svcStates for Health) still to handle
    at,         \* the svcState it works on
    held,       \* the process it launched or is stopping
    refused,    \* launches refused so far
    requests    \* requests served so far

rowVars == <<row, wants, booting, requests>>
svcVars == <<services, name, refs, cmd, starting>>
procVars == <<phase, owner>>
goVars == <<pc, job, who, todo, at, held>>
vars == <<row, wants, booting, services, name, refs, cmd, starting,
          phase, owner, pc, job, who, todo, at, held, refused, requests>>

Threads == Workers \cup {Health}
Jobs == {"none", "attach", "boot", "detach", "delete", "health"}
Places == {"idle", "read", "loop", "claim", "launch", "register",
           "stop", "stopped", "wait", "killed"}

TypeOK ==
    /\ row \in [Projects -> {"online", "offline", "deleted"}]
    /\ wants \in [Projects -> SUBSET Names]
    /\ booting \subseteq Projects
    /\ services \in [Names -> States \cup {None}]
    /\ name \in [States -> Names \cup {None}]
    /\ refs \in [States -> SUBSET Projects]
    /\ cmd \in [States -> Handles \cup {None}]
    /\ starting \in [States -> BOOLEAN]
    /\ phase \in [Handles -> {"live", "exited", "reaped", "done"}]
    /\ owner \in [Handles -> States \cup {None}]
    /\ pc \in [Threads -> Places]
    /\ job \in [Threads -> Jobs]
    /\ who \in [Threads -> Projects \cup {None}]
    /\ todo \in [Threads -> SUBSET (Names \cup States)]
    /\ at \in [Threads -> States \cup {None}]
    /\ held \in [Threads -> Handles \cup {None}]
    /\ refused \in 0 .. MaxRefused
    /\ requests \in 0 .. MaxRequests

\* The server has just started: the registry is empty, the rows are as the
\* last run left them, and the boot loop will attach the online projects.
Init ==
    /\ row \in [Projects -> {"online", "offline"}]
    /\ wants \in [Projects -> SUBSET Names]
    /\ booting = {p \in Projects : row[p] = "online"}
    /\ services = [n \in Names |-> None]
    /\ name = [s \in States |-> None]
    /\ refs = [s \in States |-> {}]
    /\ cmd = [s \in States |-> None]
    /\ starting = [s \in States |-> FALSE]
    /\ phase = [h \in Handles |-> "done"]
    /\ owner = [h \in Handles |-> None]
    /\ pc = [w \in Threads |-> "idle"]
    /\ job = [w \in Threads |-> "none"]
    /\ who = [w \in Threads |-> None]
    /\ todo = [w \in Threads |-> {}]
    /\ at = [w \in Threads |-> None]
    /\ held = [w \in Threads |-> None]
    /\ refused = 0
    /\ requests = 0

-----------------------------------------------------------------------------
(* The handlers that attach and detach *)

\* One more request from a client.
Request ==
    /\ requests < MaxRequests
    /\ requests' = requests + 1

\* A goroutine begins a pass for p; readServices runs in a later step.
Begin(w, p, j) ==
    /\ pc[w] = "idle"
    /\ pc' = [pc EXCEPT ![w] = "read"]
    /\ job' = [job EXCEPT ![w] = j]
    /\ who' = [who EXCEPT ![w] = p]
    /\ UNCHANGED <<todo, at, held>>

\* PatchProjectStatus to online: the row first, then `go AttachServices`.
GoOnline(p, w) ==
    /\ Request
    /\ row[p] = "offline"
    /\ row' = [row EXCEPT ![p] = "online"]
    /\ Begin(w, p, "attach")
    /\ UNCHANGED <<wants, booting, svcVars, procVars, refused>>

\* PatchProjectStatus to offline or maintenance: the row, then DetachServices.
GoOffline(p, w) ==
    /\ Request
    /\ row[p] = "online"
    /\ row' = [row EXCEPT ![p] = "offline"]
    /\ Begin(w, p, "detach")
    /\ UNCHANGED <<wants, booting, svcVars, procVars, refused>>

\* DeleteProject: DetachServices, and the row goes when it has returned.
Delete(p, w) ==
    /\ Request
    /\ row[p] # "deleted"
    /\ Begin(w, p, "delete")
    /\ UNCHANGED <<row, wants, booting, svcVars, procVars, refused>>

\* The boot loop attaches the projects that were online, one after the other.
BootAttach(p, w) ==
    /\ p \in booting
    /\ \A v \in Threads : job[v] # "boot"
    /\ booting' = booting \ {p}
    /\ Begin(w, p, "boot")
    /\ UNCHANGED <<row, wants, requests, svcVars, procVars, refused>>

\* UpdateProject replaces the services column and touches nothing else.
UpdateServices(p) ==
    /\ row[p] # "deleted"
    /\ Request
    /\ \E ns \in SUBSET Names : wants' = [wants EXCEPT ![p] = ns]
    /\ UNCHANGED <<row, booting, svcVars, procVars, goVars, refused>>

\* readServices: no row, no services.
ReadServices(w) ==
    /\ pc[w] = "read"
    /\ todo' = [todo EXCEPT ![w] = IF row[who[w]] = "deleted" THEN {} ELSE wants[who[w]]]
    /\ pc' = [pc EXCEPT ![w] = "loop"]
    /\ UNCHANGED <<rowVars, svcVars, procVars, job, who, at, held, refused>>

\* Nothing left to handle: the pass ends, and DeleteProject deletes the row.
EndPass(w) ==
    /\ pc[w] = "loop"
    /\ todo[w] = {}
    /\ row' = IF job[w] = "delete" THEN [row EXCEPT ![who[w]] = "deleted"] ELSE row
    /\ pc' = [pc EXCEPT ![w] = "idle"]
    /\ job' = [job EXCEPT ![w] = "none"]
    /\ who' = [who EXCEPT ![w] = None]
    /\ UNCHANGED <<wants, booting, requests, svcVars, procVars, todo, at, held, refused>>

-----------------------------------------------------------------------------
(* AttachServices and DetachServices, one critical section per name *)

\* An object nobody can reach any more stands for a new one.
Unreachable(s) ==
    /\ \A n \in Names : services[n] # s
    /\ \A h \in Handles : owner[h] # s
    /\ \A w \in Threads : at[w] # s /\ s \notin todo[w]

\* Take or create the svcState of n and add the project; the first reference
\* goes on to startShared.
Attach(w, n) ==
    /\ pc[w] = "loop" /\ job[w] \in {"attach", "boot"} /\ n \in todo[w]
    /\ todo' = [todo EXCEPT ![w] = @ \ {n}]
    /\ \/ /\ services[n] # None
          /\ refs' = [refs EXCEPT ![services[n]] = @ \cup {who[w]}]
          /\ LET first == refs[services[n]] = {} IN
             /\ pc' = [pc EXCEPT ![w] = IF first THEN "claim" ELSE "loop"]
             /\ at' = [at EXCEPT ![w] = IF first THEN services[n] ELSE None]
          /\ UNCHANGED <<services, name, cmd, starting>>
       \/ /\ services[n] = None
          /\ \E s \in States :
             /\ Unreachable(s)
             /\ services' = [services EXCEPT ![n] = s]
             /\ name' = [name EXCEPT ![s] = n]
             /\ refs' = [refs EXCEPT ![s] = {who[w]}]
             /\ cmd' = [cmd EXCEPT ![s] = None]
             /\ starting' = [starting EXCEPT ![s] = FALSE]
             /\ pc' = [pc EXCEPT ![w] = "claim"]
             /\ at' = [at EXCEPT ![w] = s]
    /\ UNCHANGED <<rowVars, procVars, job, who, held, refused>>

\* Mutant of Detach: the svcState stays in the map.
DetachKeepsEntry(w, n) ==
    /\ pc[w] = "loop" /\ job[w] \in {"detach", "delete"} /\ n \in todo[w]
    /\ services[n] # None
    /\ todo' = [todo EXCEPT ![w] = @ \ {n}]
    /\ LET s == services[n]
           last == refs[s] \ {who[w]} = {} IN
       /\ refs' = [refs EXCEPT ![s] = @ \ {who[w]}]
       /\ pc' = [pc EXCEPT ![w] = IF last THEN "stop" ELSE "loop"]
       /\ at' = [at EXCEPT ![w] = IF last THEN s ELSE None]
    /\ UNCHANGED <<rowVars, services, name, cmd, starting, procVars, job, who, held, refused>>

\* Remove the project; the last reference removes the svcState from the map
\* and goes on to stopShared.
Detach(w, n) ==
    /\ pc[w] = "loop" /\ job[w] \in {"detach", "delete"} /\ n \in todo[w]
    /\ todo' = [todo EXCEPT ![w] = @ \ {n}]
    /\ \/ /\ services[n] = None
          /\ UNCHANGED <<services, refs, pc, at>>
       \/ /\ services[n] # None
          /\ LET s == services[n]
                 last == refs[s] \ {who[w]} = {} IN
             /\ refs' = [refs EXCEPT ![s] = @ \ {who[w]}]
             /\ services' = [services EXCEPT ![n] = IF last THEN None ELSE s]
             /\ pc' = [pc EXCEPT ![w] = IF last THEN "stop" ELSE "loop"]
             /\ at' = [at EXCEPT ![w] = IF last THEN s ELSE None]
    /\ UNCHANGED <<rowVars, name, cmd, starting, procVars, job, who, held, refused>>

-----------------------------------------------------------------------------
(* startShared *)

\* Back to the loop over the services.
Return(w) ==
    /\ pc' = [pc EXCEPT ![w] = "loop"]
    /\ at' = [at EXCEPT ![w] = None]
    /\ held' = [held EXCEPT ![w] = None]

\* Mutant of Claim: only a known process counts, not a launch in flight.
ClaimIgnoresFlag(w) ==
    /\ pc[w] = "claim"
    /\ \/ /\ cmd[at[w]] # None
          /\ Return(w)
          /\ UNCHANGED starting
       \/ /\ cmd[at[w]] = None
          /\ starting' = [starting EXCEPT ![at[w]] = TRUE]
          /\ pc' = [pc EXCEPT ![w] = "launch"]
          /\ UNCHANGED <<at, held>>
    /\ UNCHANGED <<rowVars, services, name, refs, cmd, procVars, job, who, todo, refused>>

\* The launch guard: return at once when a launch is in flight or a process
\* is known, otherwise raise the flag.
Claim(w) ==
    /\ pc[w] = "claim"
    /\ \/ /\ starting[at[w]] \/ cmd[at[w]] # None
          /\ Return(w)
          /\ UNCHANGED starting
       \/ /\ ~starting[at[w]] /\ cmd[at[w]] = None
          /\ starting' = [starting EXCEPT ![at[w]] = TRUE]
          /\ pc' = [pc EXCEPT ![w] = "launch"]
          /\ UNCHANGED <<at, held>>
    /\ UNCHANGED <<rowVars, services, name, refs, cmd, procVars, job, who, todo, refused>>

\* Mutant of Refuse: the flag stays up.
RefuseKeepsFlag(w) ==
    /\ pc[w] = "launch"
    /\ refused < MaxRefused
    /\ refused' = refused + 1
    /\ Return(w)
    /\ UNCHANGED <<rowVars, svcVars, procVars, job, who, todo>>

\* The memory gate or exec refuses: the flag is lowered again.
Refuse(w) ==
    /\ pc[w] = "launch"
    /\ refused < MaxRefused
    /\ refused' = refused + 1
    /\ starting' = [starting EXCEPT ![at[w]] = FALSE]
    /\ Return(w)
    /\ UNCHANGED <<rowVars, services, name, refs, cmd, procVars, job, who, todo>>

\* A process nobody knows any more stands for a new one.
Unused(h) == phase[h] = "done" /\ \A w \in Threads : held[w] # h

\* cmd.Start: the process runs, and st.cmd does not name it yet.
Launch(w) ==
    /\ pc[w] = "launch"
    /\ \E h \in Handles :
       /\ Unused(h)
       /\ phase' = [phase EXCEPT ![h] = "live"]
       /\ owner' = [owner EXCEPT ![h] = at[w]]
       /\ held' = [held EXCEPT ![w] = h]
    /\ pc' = [pc EXCEPT ![w] = "register"]
    /\ UNCHANGED <<rowVars, svcVars, job, who, todo, at, refused>>

\* The third critical section stores the process; its Wait goroutine follows.
Register(w) ==
    /\ pc[w] = "register"
    /\ cmd' = [cmd EXCEPT ![at[w]] = held[w]]
    /\ Return(w)
    /\ UNCHANGED <<rowVars, services, name, refs, starting, procVars, job, who, todo, refused>>

\* A process ends: by itself, by stop_cmd, by a crash or by a signal.
Exit(h) ==
    /\ phase[h] = "live"
    /\ phase' = [phase EXCEPT ![h] = "exited"]
    /\ UNCHANGED <<rowVars, svcVars, owner, goVars, refused>>

\* The Wait goroutine, which exists once st.cmd is set, clears the svcState ...
Reap(h) ==
    /\ phase[h] = "exited"
    /\ cmd[owner[h]] = h
    /\ phase' = [phase EXCEPT ![h] = "reaped"]
    /\ cmd' = [cmd EXCEPT ![owner[h]] = None]
    /\ starting' = [starting EXCEPT ![owner[h]] = FALSE]
    /\ owner' = [owner EXCEPT ![h] = None]
    /\ UNCHANGED <<rowVars, services, name, refs, goVars, refused>>

\* ... and closes done.
CloseDone(h) ==
    /\ phase[h] = "reaped"
    /\ phase' = [phase EXCEPT ![h] = "done"]
    /\ UNCHANGED <<rowVars, svcVars, owner, goVars, refused>>

-----------------------------------------------------------------------------
(* stopShared *)

\* stop_cmd has returned.  CombinedOutput waits for it without a limit, so for a
\* name of Hanging this step need never come (Fairness).
StopCommand(w) ==
    /\ pc[w] = "stop"
    /\ pc' = [pc EXCEPT ![w] = "stopped"]
    /\ UNCHANGED <<rowVars, svcVars, procVars, job, who, todo, at, held, refused>>

\* The process is read under pm.mu, and a known one is sent SIGTERM.
StopRead(w) ==
    /\ pc[w] = "stopped"
    /\ \/ cmd[at[w]] = None /\ Return(w)
       \/ /\ cmd[at[w]] # None
          /\ held' = [held EXCEPT ![w] = cmd[at[w]]]
          /\ pc' = [pc EXCEPT ![w] = "wait"]
          /\ UNCHANGED at
    /\ UNCHANGED <<rowVars, svcVars, procVars, job, who, todo, refused>>

\* Mutant of Escalate: no SIGKILL.
NeverEscalate(w) ==
    /\ pc[w] = "wait"
    /\ FALSE
    /\ UNCHANGED vars

\* Five seconds after SIGTERM: SIGKILL.
Escalate(w) ==
    /\ pc[w] = "wait"
    /\ pc' = [pc EXCEPT ![w] = "killed"]
    /\ UNCHANGED <<rowVars, svcVars, procVars, job, who, todo, at, held, refused>>

\* <-done
WaitDone(w) ==
    /\ pc[w] \in {"wait", "killed"}
    /\ phase[held[w]] = "done"
    /\ Return(w)
    /\ UNCHANGED <<rowVars, svcVars, procVars, job, who, todo, refused>>

-----------------------------------------------------------------------------
(* The health monitor's second loop *)

\* The referenced svcStates are collected under pm.mu.
HealthBegin ==
    /\ pc[Health] = "idle"
    /\ pc' = [pc EXCEPT ![Health] = "loop"]
    /\ job' = [job EXCEPT ![Health] = "health"]
    /\ todo' = [todo EXCEPT ![Health] =
                    {s \in States : refs[s] # {} /\ \E n \in Names : services[n] = s}]
    /\ UNCHANGED <<rowVars, svcVars, procVars, who, at, held, refused>>

\* serviceRunning: systemctl answers for a systemd name, st.cmd for the others.
\* What is down is started through the pointer that was collected.
HealthCheck(s) ==
    /\ pc[Health] = "loop" /\ s \in todo[Health]
    /\ todo' = [todo EXCEPT ![Health] = @ \ {s}]
    /\ \/ /\ cmd[s] # None \/ name[s] \in Systemd
          /\ UNCHANGED <<pc, at>>
       \/ /\ cmd[s] = None \/ name[s] \in Systemd
          /\ pc' = [pc EXCEPT ![Health] = "claim"]
          /\ at' = [at EXCEPT ![Health] = s]
    /\ UNCHANGED <<rowVars, svcVars, procVars, job, who, held, refused>>

-----------------------------------------------------------------------------

StartShared(w) == Claim(w) \/ Refuse(w) \/ Launch(w) \/ Register(w)
StopShared(w) == StopCommand(w) \/ StopRead(w) \/ Escalate(w) \/ WaitDone(w)

ThreadStep(w) ==
    \/ ReadServices(w)
    \/ EndPass(w)
    \/ \E n \in Names : Attach(w, n) \/ Detach(w, n)
    \/ StartShared(w)
    \/ StopShared(w)

ProcStep == \E h \in Handles : Exit(h) \/ Reap(h) \/ CloseDone(h)

Handlers ==
    \E p \in Projects :
        \/ UpdateServices(p)
        \/ \E w \in Workers :
              GoOnline(p, w) \/ GoOffline(p, w) \/ Delete(p, w) \/ BootAttach(p, w)

HealthStep == HealthBegin \/ \E s \in States : HealthCheck(s)

Next ==
    \/ Handlers
    \/ \E w \in Threads : ThreadStep(w)
    \/ HealthStep
    \/ ProcStep

Spec == Init /\ [][Next]_vars

\* A goroutine waits for a stop_cmd that may not return.
InStopCommand(w) == pc[w] = "stop" /\ name[at[w]] \in Hanging

\* Goroutines and Wait goroutines run, except one whose stop_cmd hangs, the
\* health monitor wakes up every 30 s, and a process that was sent SIGKILL exits
\* (the shell of stop_cmd is no such process: nobody signals it).  Launch is strongly fair because
\* the host always has another process to give, while Handles may be in use.
Fairness ==
    /\ \A w \in Threads : WF_vars(ThreadStep(w) /\ ~InStopCommand(w)) /\ SF_vars(Launch(w))
    /\ WF_vars(HealthStep)
    /\ \A h \in Handles :
          /\ WF_vars(Reap(h))
          /\ WF_vars(CloseDone(h))
          /\ WF_vars(Exit(h) /\ \E w \in Threads : pc[w] = "killed" /\ held[w] = h)

FairSpec == Spec /\ Fairness

-----------------------------------------------------------------------------
(* Properties *)

Launching(s) == {w \in Threads : at[w] = s /\ pc[w] \in {"launch", "register"}}

\* A svcState never runs two processes, whoever starts it: the flag `starting`
\* serialises AttachServices and the health monitor.
OneProcessPerState ==
    \A g, h \in Handles : owner[g] # None /\ owner[g] = owner[h] => g = h

\* The flag is up exactly while a launch is in flight or a process has not been
\* waited for.  A flag left up would block every later launch; a flag taken
\* down too early would let a second process start.
FlagMeansLaunch ==
    \A s \in States : starting[s] <=>
        Launching(s) # {} \/ \E h \in Handles : owner[h] = s

\* pm.services holds exactly the svcStates somebody references, each under its
\* own name: a service that lost its last project cannot be found, one that has
\* a project cannot be lost.
RegisteredIsReferenced ==
    /\ \A n \in Names : services[n] # None =>
          name[services[n]] = n /\ refs[services[n]] # {}
    /\ \A s \in States : refs[s] # {} => \E n \in Names : services[n] = s

\* Self-healing: a registered service that is down is launched again, or is
\* detached, even after its process died or its launch was refused.
ServiceHeals ==
    \A n \in Names \ Systemd :
        services[n] # None /\ cmd[services[n]] = None
            ~> services[n] = None \/ cmd[services[n]] # None

\* Every pass ends: a DELETE that detaches comes back to its client, even if
\* the service ignores SIGTERM.  The one thing that can hold it for ever is a
\* stop_cmd of Hanging that does not return.
PassesEnd ==
    \A w \in Workers : pc[w] # "idle" ~> pc[w] = "idle" \/ InStopCommand(w)

Quiet == booting = {} /\ \A w \in Threads : pc[w] = "idle"

\* No ghost references: once DELETE and everything else has returned, a
\* deleted project holds no reference to a service.
NoGhostReference ==
    Quiet => \A p \in Projects : row[p] = "deleted" =>
        \A s \in States : p \notin refs[s]

\* A service whose last reference went is stopped (the requirements document,
\* 2.2: counted from 1 to 0 it stops): once no request is being served, every
\* running process belongs to a registered service.  Does not hold: stopShared
\* reads st.cmd once and does not see a launch that is in flight.
StoppedAtZero ==
    Quiet => \A h \in Handles : phase[h] = "live" =>
        \E n \in Names : services[n] = owner[h]

\* Projects that name the same service share one instance of it.  Does not hold
\* (README, Known divergences).
OneInstancePerName ==
    \A g, h \in Handles :
        phase[g] = "live" /\ phase[h] = "live" /\ name[owner[g]] = name[owner[h]]
            => g = h

=============================================================================
