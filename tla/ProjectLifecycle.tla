--------------------------- MODULE ProjectLifecycle ---------------------------
(***************************************************************************)
(* What drives the process manager and the proxy: the projects table, the  *)
(* handlers that create, delete and switch a project (internal/handlers/   *)
(* projects.go), the boot loop (main.go) and the health monitor            *)
(* (internal/runtime/procmgr.go), over TCPProxy and ProcManager.           *)
(*                                                                         *)
(* Every read and every write of the projects row is a step of its own, as *)
(* the handlers run without a transaction, and a "go" statement leaves a   *)
(* goroutine that runs later.  Shared services are left to SharedServices. *)
(***************************************************************************)
EXTENDS Naturals, FiniteSets

CONSTANTS
    Projects, Handles, Callers, None, Listeners, Conns, IdleMonitor,
    Requests,        \* goroutines that serve PATCH and DELETE
    Units,           \* projects that have a systemd unit instead of a command
    OffStatuses,     \* the statuses other than online: offline, maintenance
    Remote,          \* projects whose host is another machine
    Proxied,         \* projects with a port and a backend that is not the port
    RuntimeEnabled,  \* the configuration flag the health monitor looks at
    MaxGo,           \* bound: goroutines of one kind not yet run, per project
    MaxCrashes       \* bound: restarts of the server

ASSUME LifecycleAssumption ==
    /\ Requests \subseteq Callers \ {IdleMonitor}
    /\ Units \subseteq Projects
    /\ OffStatuses \subseteq {"offline", "maintenance"}
    /\ Remote \subseteq Projects
    /\ Proxied \subseteq Projects
    /\ RuntimeEnabled \in BOOLEAN
    /\ MaxGo \in Nat /\ MaxCrashes \in Nat

\* What the proxy and the manager assume of their identifiers.
ASSUME RegistryAssumption ==
    /\ None \notin Projects \cup Handles \cup Listeners
    /\ IdleMonitor \in Callers
    /\ IsFiniteSet(Conns)

VARIABLES
    procs, phase, owner, signal, unit, pc, target, held, then,
    listeners, actives, lphase, lowner, count, conn, via, pass, todo, victim,
    status,     \* the status column of the row, or "absent"
    goProxy,    \* go TCPProxyMgr.Start(id), not yet run
    goStart,    \* go ProcMgr.Start(id), not yet run
    stage,      \* where each request is in its handler
    subject,    \* the project it is about
    next,       \* the status it will write; "absent" for DELETE
    due,        \* rows the health monitor has read and not yet checked
    down,       \* project the health monitor found down and will start
    queue,      \* rows the boot loop has read and not yet started
    booting,    \* project the boot loop is at, after its proxy
    booted,     \* the boot loop has run its query
    crashes

PM == INSTANCE ProcManager
TP == INSTANCE TCPProxy

procAll == <<procs, phase, owner, signal, unit, pc, target, held, then>>
callers == <<pc, target, held, then>>
proxyAll == <<listeners, actives, lphase, lowner, count, conn, via, pass, todo, victim>>
row == <<status>>
spawned == <<goProxy, goStart>>
handler == <<stage, subject, next>>
health == <<due, down>>
boot == <<queue, booting, booted>>
own == <<status, goProxy, goStart, stage, subject, next, due, down,
         queue, booting, booted, crashes>>
vars == <<procAll, proxyAll, own>>

Stages == {"idle", "update", "stop", "stopping", "proxy", "row"}
Statuses == {"online"} \cup OffStatuses

TypeOK ==
    /\ PM!TypeOK
    /\ TP!TypeOK
    /\ status \in [Projects -> Statuses \cup {"absent"}]
    /\ goProxy \in [Projects -> 0..MaxGo]
    /\ goStart \in [Projects -> 0..MaxGo]
    /\ stage \in [Requests -> Stages]
    /\ subject \in [Requests -> Projects \cup {None}]
    /\ next \in [Requests -> Statuses \cup {"absent", "none"}]
    /\ due \subseteq Projects
    /\ down \in Projects \cup {None}
    /\ queue \subseteq Projects
    /\ booting \in Projects \cup {None}
    /\ booted \in BOOLEAN
    /\ crashes \in 0..MaxCrashes

\* The server has just started: no handler, no goroutine, nothing read.
Init ==
    /\ TP!Init
    /\ \A p \in Projects : unit[p] => p \in Units
    /\ status \in [Projects -> Statuses]
    /\ goProxy = [p \in Projects |-> 0]
    /\ goStart = [p \in Projects |-> 0]
    /\ stage = [r \in Requests |-> "idle"]
    /\ subject = [r \in Requests |-> None]
    /\ next = [r \in Requests |-> "none"]
    /\ due = {} /\ down = None
    /\ queue = {} /\ booting = None /\ booted = FALSE
    /\ crashes = 0

-----------------------------------------------------------------------------
(* ProcMgr.Start with the row as it is now *)

\* What Start finds in the row: no command when the row is gone, a unit or a
\* command otherwise; each may fail, and so may the memory gate.
StartFromRow(p, result) ==
    /\ PM!StartRun(p, result)
    /\ result = "spawned" => status[p] # "absent" /\ p \notin Units
    /\ result = "unit" => status[p] # "absent" /\ p \in Units

\* TCPProxyMgr.Start: a port and a backend come from the row.
ProxyFromRow(p) ==
    \/ status[p] # "absent" /\ p \in Proxied /\ TP!ProxyStart(p)
    \/ /\ status[p] = "absent" \/ p \notin Proxied \/ TP!ProxyRefused(p)
       /\ UNCHANGED <<procAll, proxyAll>>

\* Status(p)["running"]: the registry first, then the systemd unit.
Running(p) == procs[p] # None \/ (p \in Units /\ status[p] # "absent" /\ unit[p])

-----------------------------------------------------------------------------
(* Handlers *)

\* CreateProject: insert the row; an online local project is started by
\* goroutines, concurrently.
LaunchGoroutines(p) ==
    IF p \in Remote
    THEN UNCHANGED spawned
    ELSE /\ goProxy[p] < MaxGo /\ goStart[p] < MaxGo
         /\ goProxy' = [goProxy EXCEPT ![p] = @ + 1]
         /\ goStart' = [goStart EXCEPT ![p] = @ + 1]

CreateProject(p) ==
    /\ status[p] = "absent"
    /\ \E s \in Statuses :
          /\ status' = [status EXCEPT ![p] = s]
          /\ IF s = "online" THEN LaunchGoroutines(p) ELSE UNCHANGED spawned
    /\ UNCHANGED <<procAll, proxyAll, handler, health, boot, crashes>>

\* PatchProjectStatus reads the row; the status asked for, or the next one of
\* the cycle, must differ from it.
PatchRead(r, p, s) ==
    /\ stage[r] = "idle"
    /\ status[p] \notin {"absent", s}
    /\ stage' = [stage EXCEPT ![r] = "update"]
    /\ subject' = [subject EXCEPT ![r] = p]
    /\ next' = [next EXCEPT ![r] = s]
    /\ UNCHANGED <<procAll, proxyAll, row, spawned, health, boot, crashes>>

\* A handler returns.
Return(r) ==
    /\ stage' = [stage EXCEPT ![r] = "idle"]
    /\ subject' = [subject EXCEPT ![r] = None]
    /\ next' = [next EXCEPT ![r] = "none"]

\* It writes the status, which touches no row if the project was deleted since,
\* and either launches the goroutines and returns, or goes on to stop; or the
\* write fails, and it returns 500.
PatchUpdate(r) ==
    LET p == subject[r] IN
    /\ stage[r] = "update"
    /\ \/ /\ UNCHANGED <<status, spawned>>
          /\ Return(r)
       \/ /\ status' = [status EXCEPT ![p] = IF @ = "absent" THEN @ ELSE next[r]]
          /\ \/ /\ next[r] = "online"
                /\ LaunchGoroutines(p)
                /\ Return(r)
             \/ /\ next[r] # "online"
                /\ stage' = [stage EXCEPT ![r] = "stop"]
                /\ UNCHANGED <<subject, next, spawned>>
    /\ UNCHANGED <<procAll, proxyAll, health, boot, crashes>>

\* DeleteProject starts with Stop; the row goes last.
DeleteBegin(r, p) ==
    /\ stage[r] = "idle"
    /\ stage' = [stage EXCEPT ![r] = "stop"]
    /\ subject' = [subject EXCEPT ![r] = p]
    /\ next' = [next EXCEPT ![r] = "absent"]
    /\ UNCHANGED <<procAll, proxyAll, row, spawned, health, boot, crashes>>

\* ProcMgr.Stop, called and later returned from.
HandlerStop(r) ==
    /\ stage[r] = "stop"
    /\ PM!StopLock(r, subject[r], "return")
    /\ stage' = [stage EXCEPT ![r] = "stopping"]
    /\ UNCHANGED <<proxyAll, row, spawned, subject, next, health, boot, crashes>>

HandlerStopped(r) ==
    /\ stage[r] = "stopping"
    /\ pc[r] = "idle"
    /\ stage' = [stage EXCEPT ![r] = "proxy"]
    /\ UNCHANGED <<procAll, proxyAll, row, spawned, subject, next, health, boot, crashes>>

\* Mutant of HandlerProxyStop: the listener is forgotten, not closed.
HandlerForgetsListener(r) ==
    /\ stage[r] = "proxy"
    /\ listeners' = [listeners EXCEPT ![subject[r]] = None]
    /\ Return(r)
    /\ UNCHANGED <<procAll, actives, lphase, lowner, count, conn, via, pass, todo, victim,
                   row, spawned, health, boot, crashes>>

\* TCPProxyMgr.Stop; a PATCH is then done, a DELETE goes on.
HandlerProxyStop(r) ==
    /\ stage[r] = "proxy"
    /\ TP!ProxyStop(subject[r])
    /\ \/ /\ next[r] = "absent"
          /\ stage' = [stage EXCEPT ![r] = "row"]
          /\ UNCHANGED <<subject, next>>
       \/ /\ next[r] # "absent"
          /\ Return(r)
    /\ UNCHANGED <<row, spawned, health, boot, crashes>>

\* DELETE FROM projects, which may fail when everything is stopped already.
DeleteRow(r) ==
    /\ stage[r] = "row"
    /\ \/ status' = [status EXCEPT ![subject[r]] = "absent"]
       \/ UNCHANGED status
    /\ Return(r)
    /\ UNCHANGED <<procAll, proxyAll, spawned, health, boot, crashes>>

-----------------------------------------------------------------------------
(* Goroutines launched by a switch to online *)

RunProxy(p) ==
    /\ goProxy[p] > 0
    /\ pass = "off"
    /\ goProxy' = [goProxy EXCEPT ![p] = @ - 1]
    /\ ProxyFromRow(p)
    /\ UNCHANGED <<row, goStart, handler, health, boot, crashes>>

RunStart(p) ==
    /\ goStart[p] > 0
    /\ goStart' = [goStart EXCEPT ![p] = @ - 1]
    /\ \E result \in PM!Results : StartFromRow(p, result)
    /\ UNCHANGED <<callers, proxyAll, row, goProxy, handler, health, boot, crashes>>

-----------------------------------------------------------------------------
(* The health monitor and the boot loop *)

\* Every 30s: the rows of the online projects are read ...
HealthRead ==
    /\ RuntimeEnabled
    /\ due = {} /\ down = None
    /\ due' = {p \in Projects : status[p] = "online"}
    /\ due' # {}
    /\ UNCHANGED <<procAll, proxyAll, row, spawned, handler, down, boot, crashes>>

\* ... each is asked for its status ...
HealthCheck(p) ==
    /\ p \in due
    /\ down = None
    /\ due' = due \ {p}
    /\ down' = IF Running(p) THEN None ELSE p
    /\ UNCHANGED <<procAll, proxyAll, row, spawned, handler, boot, crashes>>

\* ... and started if it was not running.
HealthRestart ==
    /\ down # None
    /\ \E result \in PM!Results : StartFromRow(down, result)
    /\ down' = None
    /\ UNCHANGED <<callers, proxyAll, row, spawned, handler, due, boot, crashes>>

\* The boot loop reads the rows once ...
BootRead ==
    /\ ~booted
    /\ booted' = TRUE
    /\ queue' = {p \in Projects : status[p] = "online"}
    /\ UNCHANGED <<procAll, proxyAll, row, spawned, handler, health, booting, crashes>>

\* ... and, two seconds apart, starts the proxy of each ...
BootProxy(p) ==
    /\ p \in queue
    /\ booting = None
    /\ pass = "off"
    /\ queue' = queue \ {p}
    /\ booting' = p
    /\ ProxyFromRow(p)
    /\ UNCHANGED <<row, spawned, handler, health, booted, crashes>>

\* ... and its process.
BootStart ==
    /\ booting # None
    /\ \E result \in PM!Results : StartFromRow(booting, result)
    /\ booting' = None
    /\ UNCHANGED <<callers, proxyAll, row, spawned, handler, health, queue, booted, crashes>>

-----------------------------------------------------------------------------
(* Steps of the proxy and the manager, and a restart of the server *)

\* A proxied connection wakes the process with the row as it is.
WakeFromRow(k) ==
    LET p == lowner[via[k]] IN
    /\ TP!Wake(k)
    /\ (procs[p] = None /\ procs'[p] # None) => status[p] # "absent" /\ p \notin Units
    /\ (unit' # unit) => status[p] # "absent" /\ p \in Units

ProxyStep ==
    /\ \/ \E l \in Listeners : TP!AcceptFails(l) \/ TP!ServeEnds(l) \/ TP!Finalize(l)
       \/ \E k \in Conns, l \in Listeners : TP!Accept(k, l)
       \/ \E k \in Conns : WakeFromRow(k) \/ TP!CountUp(k) \/ TP!Dialed(k) \/ TP!Hangup(k)
       \/ TP!IdleBegin
       \/ TP!IdleStep
    /\ UNCHANGED own

ManagerStep ==
    /\ \/ PM!ProcStep
       \/ \E c \in Callers : PM!CallerStep(c)
    /\ UNCHANGED <<proxyAll, own>>

HandlerStep(r) ==
    \/ PatchUpdate(r)
    \/ HandlerStop(r)
    \/ HandlerStopped(r)
    \/ HandlerProxyStop(r)
    \/ DeleteRow(r)

HealthStep ==
    \/ HealthRead
    \/ \E p \in Projects : HealthCheck(p)
    \/ HealthRestart

BootStep ==
    \/ BootRead
    \/ \E p \in Projects : BootProxy(p)
    \/ BootStart

Next ==
    \/ \E p \in Projects : CreateProject(p)
    \/ \E r \in Requests, p \in Projects :
          \/ \E s \in Statuses : PatchRead(r, p, s)
          \/ DeleteBegin(r, p)
    \/ \E r \in Requests : HandlerStep(r)
    \/ \E p \in Projects : RunProxy(p) \/ RunStart(p)
    \/ HealthStep
    \/ BootStep
    \/ ProxyStep
    \/ ManagerStep

\* The server dies and is restarted: systemd kills its control group, so the
\* children die with it; units and rows survive.
Crash ==
    /\ crashes < MaxCrashes
    /\ crashes' = crashes + 1
    /\ procs' = [p \in Projects |-> None]
    /\ phase' = [h \in Handles |-> "done"]
    /\ pc' = [c \in Callers |-> "idle"]
    /\ target' = [c \in Callers |-> None]
    /\ held' = [c \in Callers |-> None]
    /\ then' = [c \in Callers |-> "return"]
    /\ listeners' = [p \in Projects |-> None]
    /\ actives' = [p \in Projects |-> None]
    /\ lphase' = [l \in Listeners |-> "gone"]
    /\ count' = [l \in Listeners |-> 0]
    /\ conn' = [k \in Conns |-> "free"]
    /\ via' = [k \in Conns |-> None]
    /\ pass' = "off"
    /\ todo' = {}
    /\ victim' = None
    /\ goProxy' = [p \in Projects |-> 0]
    /\ goStart' = [p \in Projects |-> 0]
    /\ stage' = [r \in Requests |-> "idle"]
    /\ subject' = [r \in Requests |-> None]
    /\ next' = [r \in Requests |-> "none"]
    /\ due' = {} /\ down' = None
    /\ queue' = {} /\ booting' = None /\ booted' = FALSE
    /\ owner' = [h \in Handles |-> None]
    /\ signal' = [h \in Handles |-> "none"]
    /\ UNCHANGED <<unit, lowner, row>>

Spec == Init /\ [][Next]_vars

CrashSpec == Init /\ [][Next \/ Crash]_vars

\* The server runs its goroutines and the kernel kills.  A Stop of the proxy
\* waits for tp.mu, which the idle monitor takes again and again.
ServerFairness ==
    /\ \A h \in Handles :
          /\ WF_vars(signal[h] = "kill" /\ PM!Exit(h) /\ UNCHANGED <<proxyAll, own>>)
          /\ WF_vars((PM!Reap(h) \/ PM!CloseDone(h)) /\ UNCHANGED <<proxyAll, own>>)
    /\ \A c \in Callers : WF_vars(PM!CallerStep(c) /\ UNCHANGED <<proxyAll, own>>)
    /\ \A r \in Requests : WF_vars(stage[r] # "proxy" /\ HandlerStep(r))
    /\ \A r \in Requests : SF_vars(HandlerProxyStop(r))
    /\ WF_vars(TP!IdleStep /\ UNCHANGED own)

\* The monitors run too, and a start that is tried again and again is not
\* refused for ever (memory comes back).
MonitorFairness ==
    /\ \A p \in Projects : SF_vars(RunProxy(p)) /\ WF_vars(RunStart(p))
    /\ WF_vars(HealthStep)
    /\ SF_vars(HealthRestart /\ procs' # procs)
    /\ WF_vars(BootRead) /\ WF_vars(BootStart)
    /\ \A p \in Projects : SF_vars(BootProxy(p))
    /\ \A l \in Listeners : WF_vars(TP!ServeEnds(l) /\ UNCHANGED own)
    /\ \A l \in Listeners : WF_vars(TP!Finalize(l) /\ UNCHANGED own)

\* Nothing is assumed of requests that have not begun, of clients or of crashes.
ServerSpec == CrashSpec /\ ServerFairness
FairSpec == ServerSpec /\ MonitorFairness

-----------------------------------------------------------------------------
(* Properties *)

\* No goroutine is at work on a project: no request, nothing launched, neither
\* monitor, no connection.
Quiet(p) ==
    /\ \A r \in Requests : subject[r] # p
    /\ goProxy[p] = 0 /\ goStart[p] = 0
    /\ down # p /\ p \notin due
    /\ booting # p /\ p \notin queue
    /\ \A k \in Conns : via[k] = None \/ lowner[via[k]] # p
    /\ \A c \in Callers : target[c] # p

HasProcess(p) == \E h \in Handles : owner[h] = p /\ phase[h] = "live"


\* A switch to online starts the proxy of a project before its process.  Does
\* not hold (README, Known divergences).
OnlineInOrder ==
    [][\A p \in Projects :
          RunStart(p) /\ procs[p] = None /\ procs'[p] # None => goProxy[p] = 0]_vars

\* A project that is deployed to another machine never runs on this one.  Does
\* not hold (README, Known divergences).
RemoteRunsElsewhere ==
    \A h \in Handles : phase[h] = "live" => owner[h] \notin Remote

\* A project that stays online is brought up again after every crash of its
\* process and after every restart of the server.
OnlineHeals ==
    \A p \in Projects :
        <>[](status[p] = "online") => []<>HasProcess(p)

\* A project that stays online is listened for: its port is there all the time,
\* its process on demand (the project document, capabilities).  Does not hold:
\* after Accept failed nothing starts the listener again.
OnlineListens ==
    \A p \in Projects :
        <>[](status[p] = "online" /\ Quiet(p)) => []<>(listeners[p] # None)

\* The registries stay consistent through handlers, monitors and restarts.
RegistriesConsistent ==
    TypeOK /\ PM!NoStaleEntry /\ TP!ListenersConsistent /\ TP!CounterExact

\* Between restarts, whatever handlers and monitors do to the proxy and to the
\* processes is something TCPProxy, and through it ProcManager, allows.
ImplementsTCPProxy ==
    TP!Init /\ [][TP!Next \/ crashes' # crashes]_<<procAll, proxyAll>>

=============================================================================
