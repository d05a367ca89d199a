------------------------------- MODULE TCPProxy -------------------------------
(***************************************************************************)
(* The on-demand proxy of internal/runtime/tcpproxy.go over the process    *)
(* manager: the listener registry, the accept loop of each listener, the   *)
(* goroutine of each connection, and the idle monitor, which stops         *)
(* processes without connections through ProcManager.                      *)
(*                                                                         *)
(* A step is one critical section of tp.mu, one atomic operation on a      *)
(* connection counter, or one call into the process manager.  The idle     *)
(* monitor holds tp.mu for reading during its whole pass, so every step    *)
(* that writes the registry waits for the pass to end.                     *)
(***************************************************************************)
EXTENDS Naturals, FiniteSets

CONSTANTS
    Projects, Handles, Callers, None,
    Listeners,    \* listening sockets, each with its connection counter
    Conns,        \* client connections
    IdleMonitor   \* the caller of ProcManager that the idle monitor is

ASSUME ProxyAssumption ==
    /\ None \notin Projects \cup Handles \cup Listeners
    /\ IdleMonitor \in Callers
    /\ IsFiniteSet(Conns)

VARIABLES
    procs, phase, owner, signal, unit, pc, target, held, then,
    listeners,    \* tp.listeners
    actives,      \* tp.actives; a counter is named by the listener it counts for
    lphase,       \* life of a listening socket and of its accept loop
    lowner,       \* the project a listener serves
    count,        \* the counters
    conn,         \* where the goroutine of a connection is
    via,          \* the listener that accepted a connection
    pass,         \* where the idle monitor is in its pass
    todo,         \* projects the pass has still to look at
    victim        \* project the pass has judged idle

PM == INSTANCE ProcManager

procAll == <<procs, phase, owner, signal, unit, pc, target, held, then>>
callers == <<pc, target, held, then>>
registry == <<listeners, actives, lphase, lowner, count>>
idleVars == <<pass, todo, victim>>
proxyVars == <<registry, conn, via, idleVars>>
vars == <<procAll, proxyVars>>

\* "open": served; "failed": Accept returned an error; "closed": closed by
\* Stop, the accept loop has not noticed yet; "leaked": out of the registry but
\* never closed, bound until the runtime finalizes it; "gone": released.
SocketPhases == {"open", "failed", "closed", "leaked", "gone"}

Bound(l) == lphase[l] \in {"open", "failed", "leaked"}

TypeOK ==
    /\ listeners \in [Projects -> Listeners \cup {None}]
    /\ actives \in [Projects -> Listeners \cup {None}]
    /\ lphase \in [Listeners -> SocketPhases]
    /\ lowner \in [Listeners -> Projects \cup {None}]
    /\ count \in [Listeners -> Nat]
    /\ conn \in [Conns -> {"free", "accepted", "counted", "dialing", "relay"}]
    /\ via \in [Conns -> Listeners \cup {None}]
    /\ pass \in {"off", "scan", "judged", "stopping"}
    /\ todo \subseteq Projects
    /\ victim \in Projects \cup {None}

Init ==
    /\ PM!Init
    /\ listeners = [p \in Projects |-> None]
    /\ actives = [p \in Projects |-> None]
    /\ lphase = [l \in Listeners |-> "gone"]
    /\ lowner = [l \in Listeners |-> None]
    /\ count = [l \in Listeners |-> 0]
    /\ conn = [k \in Conns |-> "free"]
    /\ via = [k \in Conns |-> None]
    /\ pass = "off"
    /\ todo = {}
    /\ victim = None

-----------------------------------------------------------------------------
(* Start, Stop and the accept loop *)

Fresh(l) == lphase[l] = "gone" /\ \A k \in Conns : via[k] # l

\* TCPProxy.Start: unless the project is registered already, or has no port or
\* backend, listen on its port, which must be free.
ProxyStart(p) ==
    /\ pass = "off"
    /\ listeners[p] = None
    /\ \A l \in Listeners : lowner[l] = p => ~Bound(l)
    /\ \E l \in Listeners :
          /\ Fresh(l)
          /\ listeners' = [listeners EXCEPT ![p] = l]
          /\ actives' = [actives EXCEPT ![p] = l]
          /\ lphase' = [lphase EXCEPT ![l] = "open"]
          /\ lowner' = [lowner EXCEPT ![l] = p]
          /\ count' = [count EXCEPT ![l] = 0]
    /\ UNCHANGED <<procAll, conn, via, idleVars>>

\* Registered already (nil), or the port is still bound (an error).
ProxyRefused(p) ==
    /\ pass = "off"
    /\ listeners[p] # None \/ \E l \in Listeners : lowner[l] = p /\ Bound(l)

\* TCPProxy.Stop: close the listener, which releases its port also when Accept
\* has failed, and forget it and its counter.
\* Connections it has accepted live on.
ProxyStop(p) ==
    /\ pass = "off"
    /\ lphase' = [l \in Listeners |->
                    IF l = listeners[p] THEN "closed" ELSE lphase[l]]
    /\ listeners' = [listeners EXCEPT ![p] = None]
    /\ actives' = [actives EXCEPT ![p] = None]
    /\ UNCHANGED <<procAll, lowner, count, conn, via, idleVars>>

\* Accept fails although nobody closed the listener.
AcceptFails(l) ==
    /\ lphase[l] = "open"
    /\ lphase' = [lphase EXCEPT ![l] = "failed"]
    /\ UNCHANGED <<procAll, listeners, actives, lowner, count, conn, via, idleVars>>

\* Mutant of ServeEnds: whatever is registered is forgotten.
ServeEndsUnguarded(l) ==
    /\ pass = "off"
    /\ lphase[l] \in {"failed", "closed"}
    /\ listeners' = [listeners EXCEPT ![lowner[l]] = None]
    /\ actives' = [actives EXCEPT ![lowner[l]] = None]
    /\ lphase' = [lphase EXCEPT ![l] = IF @ = "closed" THEN "gone" ELSE "leaked"]
    /\ UNCHANGED <<procAll, lowner, count, conn, via, idleVars>>

\* The accept loop ends: its deferred function forgets the listener, if it is
\* still the one that is registered.
ServeEnds(l) ==
    /\ pass = "off"
    /\ lphase[l] \in {"failed", "closed"}
    /\ \/ /\ listeners[lowner[l]] = l
          /\ listeners' = [listeners EXCEPT ![lowner[l]] = None]
          /\ actives' = [actives EXCEPT ![lowner[l]] = None]
       \/ /\ listeners[lowner[l]] # l
          /\ UNCHANGED <<listeners, actives>>
    /\ lphase' = [lphase EXCEPT ![l] = IF @ = "closed" THEN "gone" ELSE "leaked"]
    /\ UNCHANGED <<procAll, lowner, count, conn, via, idleVars>>

\* The garbage collector finalizes a socket that nothing refers to.
Finalize(l) ==
    /\ lphase[l] = "leaked"
    /\ lphase' = [lphase EXCEPT ![l] = "gone"]
    /\ UNCHANGED <<procAll, listeners, actives, lowner, count, conn, via, idleVars>>

-----------------------------------------------------------------------------
(* The goroutine of a connection *)

\* A client from an allowed address is accepted.
Accept(k, l) ==
    /\ lphase[l] = "open"
    /\ conn[k] = "free"
    /\ conn' = [conn EXCEPT ![k] = "accepted"]
    /\ via' = [via EXCEPT ![k] = l]
    /\ UNCHANGED <<procAll, registry, idleVars>>

\* Its goroutine counts it.
CountUp(k) ==
    /\ conn[k] = "accepted"
    /\ conn' = [conn EXCEPT ![k] = "counted"]
    /\ count' = [count EXCEPT ![via[k]] = @ + 1]
    /\ UNCHANGED <<procAll, listeners, actives, lphase, lowner, via, idleVars>>

\* It wakes the process of the project, and ignores the result.
Wake(k) ==
    /\ conn[k] = "counted"
    /\ conn' = [conn EXCEPT ![k] = "dialing"]
    /\ \E result \in PM!Results : PM!StartRun(lowner[via[k]], result)
    /\ UNCHANGED <<callers, registry, via, idleVars>>

\* One of sixty attempts reaches the backend.
Dialed(k) ==
    /\ conn[k] = "dialing"
    /\ conn' = [conn EXCEPT ![k] = "relay"]
    /\ UNCHANGED <<procAll, registry, via, idleVars>>

\* Mutant of Hangup: the deferred decrement is set up before the increment.
HangupUncounted(k) ==
    /\ conn[k] # "free"
    /\ conn' = [conn EXCEPT ![k] = "free"]
    /\ via' = [via EXCEPT ![k] = None]
    /\ count' = [count EXCEPT ![via[k]] = @ - 1]
    /\ UNCHANGED <<procAll, listeners, actives, lphase, lowner, idleVars>>

\* Mutant of Hangup: a backend that is never reached is not counted down.
HangupKeepsCount(k) ==
    /\ conn[k] \in {"dialing", "relay"}
    /\ conn' = [conn EXCEPT ![k] = "free"]
    /\ via' = [via EXCEPT ![k] = None]
    /\ count' = [count EXCEPT ![via[k]] = IF conn[k] = "relay" THEN @ - 1 ELSE @]
    /\ UNCHANGED <<procAll, listeners, actives, lphase, lowner, idleVars>>

\* The backend was never reached, or one side has closed.
Hangup(k) ==
    /\ conn[k] \in {"dialing", "relay"}
    /\ conn' = [conn EXCEPT ![k] = "free"]
    /\ via' = [via EXCEPT ![k] = None]
    /\ count' = [count EXCEPT ![via[k]] = @ - 1]
    /\ UNCHANGED <<procAll, listeners, actives, lphase, lowner, idleVars>>

-----------------------------------------------------------------------------
(* The idle monitor *)

\* Once a minute: tp.mu is read-locked and the counters are visited.
IdleBegin ==
    /\ pass = "off"
    /\ pass' = "scan"
    /\ todo' = {p \in Projects : actives[p] # None}
    /\ UNCHANGED <<procAll, registry, conn, via, victim>>

\* Connections, no process, a young process, a service name, a failed lookup
\* or a backend that answers: the project is left alone.
IdleSpare(p) ==
    /\ pass = "scan"
    /\ p \in todo
    /\ todo' = todo \ {p}
    /\ UNCHANGED <<procAll, registry, conn, via, pass, victim>>

\* The counter is zero, the process is registered and old enough, the project
\* has no service name and its port does not answer.
IdleJudge(p) ==
    /\ pass = "scan"
    /\ p \in todo
    /\ count[actives[p]] = 0
    /\ procs[p] # None
    /\ pass' = "judged"
    /\ todo' = todo \ {p}
    /\ victim' = p
    /\ UNCHANGED <<procAll, registry, conn, via>>

\* Mutant of IdleStop: the monitor drops the entry itself.
IdleForget ==
    /\ pass = "judged"
    /\ procs' = [procs EXCEPT ![victim] = None]
    /\ pass' = "stopping"
    /\ UNCHANGED <<phase, owner, signal, unit, callers, registry, conn, via, todo, victim>>

\* ProcMgr.Stop, still under tp.mu.
IdleStop ==
    /\ pass = "judged"
    /\ PM!StopLock(IdleMonitor, victim, "return")
    /\ pass' = "stopping"
    /\ UNCHANGED <<registry, conn, via, todo, victim>>

IdleStopped ==
    /\ pass = "stopping"
    /\ pc[IdleMonitor] = "idle"
    /\ pass' = "scan"
    /\ victim' = None
    /\ UNCHANGED <<procAll, registry, conn, via, todo>>

IdleEnd ==
    /\ pass = "scan"
    /\ todo = {}
    /\ pass' = "off"
    /\ UNCHANGED <<procAll, registry, conn, via, todo, victim>>

-----------------------------------------------------------------------------

ConnStep(k) ==
    \/ CountUp(k)
    \/ Wake(k)
    \/ Dialed(k)
    \/ Hangup(k)

IdleStep ==
    \/ \E p \in Projects : IdleSpare(p) \/ IdleJudge(p)
    \/ IdleStop
    \/ IdleStopped
    \/ IdleEnd

\* The process manager moves by itself, or for a caller that is not the proxy.
ManagerStep ==
    /\ \/ PM!ProcStep
       \/ \E p \in Projects : PM!Start(p)
       \/ \E c \in Callers \ {IdleMonitor}, p \in Projects,
             next \in {"return", "start"} : PM!StopLock(c, p, next)
       \/ \E c \in Callers : PM!CallerStep(c)
    /\ UNCHANGED proxyVars

Next ==
    \/ \E p \in Projects : ProxyStart(p) \/ ProxyStop(p)
    \/ \E l \in Listeners : AcceptFails(l) \/ ServeEnds(l) \/ Finalize(l)
    \/ \E k \in Conns, l \in Listeners : Accept(k, l)
    \/ \E k \in Conns : ConnStep(k)
    \/ IdleBegin
    \/ IdleStep
    \/ ManagerStep

Spec == Init /\ [][Next]_vars

\* The manager's own fairness, and a pass of the idle monitor that has begun
\* goes on.  Nothing is assumed of clients, connections or sockets.
Fairness ==
    /\ \A h \in Handles :
          /\ WF_vars(signal[h] = "kill" /\ PM!Exit(h) /\ UNCHANGED proxyVars)
          /\ WF_vars(PM!Reap(h) /\ UNCHANGED proxyVars)
          /\ WF_vars(PM!CloseDone(h) /\ UNCHANGED proxyVars)
    /\ \A c \in Callers : WF_vars(PM!CallerStep(c) /\ UNCHANGED proxyVars)
    /\ WF_vars(IdleStep)

FairSpec == Spec /\ Fairness

-----------------------------------------------------------------------------
(* Properties *)

\* A registered listener is served, or its accept loop is about to remove it;
\* and an open socket is always registered.  An accept loop that ends late
\* never takes the listener of a later Start out of the registry, which would
\* leave a port bound that neither Stop nor Start can reach.
ListenerRegistered ==
    /\ \A p \in Projects : listeners[p] # None =>
          /\ lowner[listeners[p]] = p
          /\ lphase[listeners[p]] \in {"open", "failed"}
    /\ \A l \in Listeners : lphase[l] = "open" => listeners[lowner[l]] = l

\* The counter the idle monitor reads for a project is the counter of the
\* listener that project has now.
CounterOfListener == \A p \in Projects : actives[p] = listeners[p]

\* The two maps of the proxy and its open sockets agree.
ListenersConsistent == ListenerRegistered /\ CounterOfListener

Counted(l) ==
    {k \in Conns : via[k] = l /\ conn[k] \in {"counted", "dialing", "relay"}}

\* A counter is the number of goroutines between its increment and its
\* deferred decrement, also after the listener has been replaced: it never
\* drifts and never goes below zero.
CounterExact == \A l \in Listeners : count[l] = Cardinality(Counted(l))

\* The monitor stops only idle backends: when it calls Stop, no connection of
\* the project is being served.  Does not hold (README, Known divergences).
IdleStopsOnlyIdle ==
    [][IdleStop => \A l \in Listeners : lowner[l] = victim => Counted(l) = {}]_vars

\* A pass of the idle monitor ends, so that Start and Stop of the proxy get
\* tp.mu, however the process it stops behaves.
IdlePassEnds == pass # "off" ~> pass = "off"

\* Everything the proxy does to processes is something ProcManager allows.
ImplementsProcManager == PM!Spec

=============================================================================
