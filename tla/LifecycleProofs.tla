--------------------------- MODULE LifecycleProofs ---------------------------
(***************************************************************************)
(* Theorems about ProjectLifecycle, for any projects, processes, sockets,  *)
(* connections, requests and restarts: the registries of the manager and   *)
(* of the proxy stay consistent through every handler, monitor and crash,  *)
(* and between crashes the whole system does what TCPProxy, and through it *)
(* ProcManager, allows.                                                    *)
(*                                                                         *)
(* What ProcManagerProofs and TCPProxyProofs prove is used through the     *)
(* instances below; their actions are the ones of PM and TP.               *)
(***************************************************************************)
EXTENDS ProjectLifecycle, FiniteSetTheorems, TLAPS

PMP == INSTANCE ProcManagerProofs
TPP == INSTANCE TCPProxyProofs

-----------------------------------------------------------------------------
(* The instances speak of the same actions and of the same state *)

\* What the modules of the manager and of the proxy assume holds here.
LEMMA Assumed ==
    /\ None \notin Projects \cup Handles
    /\ None \notin Projects \cup Handles \cup Listeners
    /\ IdleMonitor \in Callers
    /\ TPP!IsFiniteSet(Conns)
  BY RegistryAssumption DEF TPP!IsFiniteSet, IsFiniteSet

\* A step of the proxy is the same in both instances of it.
LEMMA SameProxyStep == TP!Next <=> TPP!Next
  BY DEF TP!procAll, TP!callers, TP!registry, TP!idleVars, TP!proxyVars,
      TP!vars, TP!Bound, TP!Init, TP!Fresh, TP!ProxyStart, TP!ProxyRefused,
      TP!ProxyStop, TP!AcceptFails, TP!ServeEnds, TP!Finalize, TP!Accept,
      TP!CountUp, TP!Wake, TP!Dialed, TP!Hangup, TP!IdleBegin, TP!IdleSpare,
      TP!IdleJudge, TP!IdleStop, TP!IdleStopped, TP!IdleEnd, TP!ConnStep,
      TP!IdleStep, TP!ManagerStep, TP!Next, TPP!procAll, TPP!callers,
      TPP!registry, TPP!idleVars, TPP!proxyVars, TPP!vars, TPP!Bound,
      TPP!Init, TPP!Fresh, TPP!ProxyStart, TPP!ProxyRefused, TPP!ProxyStop,
      TPP!AcceptFails, TPP!ServeEnds, TPP!Finalize, TPP!Accept, TPP!CountUp,
      TPP!Wake, TPP!Dialed, TPP!Hangup, TPP!IdleBegin, TPP!IdleSpare,
      TPP!IdleJudge, TPP!IdleStop, TPP!IdleStopped, TPP!IdleEnd,
      TPP!ConnStep, TPP!IdleStep, TPP!ManagerStep, TPP!Next, TP!PM!vars,
      TP!PM!procVars, TP!PM!callVars, TP!PM!Exit, TP!PM!Reap,
      TP!PM!CloseDone, TP!PM!Unused, TP!PM!Spawn, TP!PM!StartUnit,
      TP!PM!StartRun, TP!PM!Results, TP!PM!Start, TP!PM!StopLock,
      TP!PM!Leave, TP!PM!StopUntracked, TP!PM!Send, TP!PM!Terminate,
      TP!PM!WaitDone, TP!PM!Escalate, TP!PM!StopClear, TP!PM!RestartStart,
      TP!PM!ProcStep, TP!PM!CallerStep, TP!PM!Next, TPP!PM!vars,
      TPP!PM!procVars, TPP!PM!callVars, TPP!PM!Exit, TPP!PM!Reap,
      TPP!PM!CloseDone, TPP!PM!Unused, TPP!PM!Spawn, TPP!PM!StartUnit,
      TPP!PM!StartRun, TPP!PM!Results, TPP!PM!Start, TPP!PM!StopLock,
      TPP!PM!Leave, TPP!PM!StopUntracked, TPP!PM!Send, TPP!PM!Terminate,
      TPP!PM!WaitDone, TPP!PM!Escalate, TPP!PM!StopClear,
      TPP!PM!RestartStart, TPP!PM!ProcStep, TPP!PM!CallerStep, TPP!PM!Next

\* A step of the manager is the same, taken alone or below the proxy.
LEMMA SameManagerStep == TPP!PM!Next <=> PMP!Next
  BY DEF TPP!PM!vars, TPP!PM!procVars, TPP!PM!callVars, TPP!PM!Exit,
      TPP!PM!Reap, TPP!PM!CloseDone, TPP!PM!Unused, TPP!PM!Spawn,
      TPP!PM!StartUnit, TPP!PM!StartRun, TPP!PM!Results, TPP!PM!Start,
      TPP!PM!StopLock, TPP!PM!Leave, TPP!PM!StopUntracked, TPP!PM!Send,
      TPP!PM!Terminate, TPP!PM!WaitDone, TPP!PM!Escalate, TPP!PM!StopClear,
      TPP!PM!RestartStart, TPP!PM!ProcStep, TPP!PM!CallerStep, TPP!PM!Next,
      PMP!vars, PMP!procVars, PMP!callVars, PMP!Exit, PMP!Reap,
      PMP!CloseDone, PMP!Unused, PMP!Spawn, PMP!StartUnit, PMP!StartRun,
      PMP!Results, PMP!Start, PMP!StopLock, PMP!Leave, PMP!StopUntracked,
      PMP!Send, PMP!Terminate, PMP!WaitDone, PMP!Escalate, PMP!StopClear,
      PMP!RestartStart, PMP!ProcStep, PMP!CallerStep, PMP!Next

\* The initial states of the proxy include those of the manager.
LEMMA SameInit == TP!Init => TPP!Init /\ PMP!Init
  BY DEF TP!Init, TP!PM!Init, TPP!Init, TPP!PM!Init, PMP!Init

\* The parts of the manager that its clients call.
LEMMA SameCalls ==
    /\ PM!ProcStep <=> TP!PM!ProcStep
    /\ \A p : PM!Start(p) <=> TP!PM!Start(p)
    /\ \A c : PM!CallerStep(c) <=> TP!PM!CallerStep(c)
    /\ \A c, p, n : PM!StopLock(c, p, n) <=> TP!PM!StopLock(c, p, n)
<1>1. PM!ProcStep <=> TP!PM!ProcStep
  BY DEF PM!callVars, PM!Exit, PM!Reap, PM!CloseDone, PM!ProcStep,
      TP!PM!callVars, TP!PM!Exit, TP!PM!Reap, TP!PM!CloseDone,
      TP!PM!ProcStep
<1>2. \A p : PM!Start(p) <=> TP!PM!Start(p)
  BY DEF PM!procVars, PM!callVars, PM!Unused, PM!Spawn, PM!StartUnit,
      PM!StartRun, PM!Start, TP!PM!procVars, TP!PM!callVars, TP!PM!Unused,
      TP!PM!Spawn, TP!PM!StartUnit, TP!PM!StartRun, TP!PM!Start
<1>3. \A c : PM!CallerStep(c) <=> TP!PM!CallerStep(c)
  BY DEF PM!procVars, PM!callVars, PM!Unused, PM!Spawn, PM!StartUnit,
      PM!StartRun, PM!Results, PM!Leave, PM!StopUntracked, PM!Send,
      PM!Terminate, PM!WaitDone, PM!Escalate, PM!StopClear, PM!RestartStart,
      PM!CallerStep, TP!PM!procVars, TP!PM!callVars, TP!PM!Unused,
      TP!PM!Spawn, TP!PM!StartUnit, TP!PM!StartRun, TP!PM!Results,
      TP!PM!Leave, TP!PM!StopUntracked, TP!PM!Send, TP!PM!Terminate,
      TP!PM!WaitDone, TP!PM!Escalate, TP!PM!StopClear, TP!PM!RestartStart,
      TP!PM!CallerStep
<1>4. \A c, p, n : PM!StopLock(c, p, n) <=> TP!PM!StopLock(c, p, n)
  BY DEF PM!StopLock, PM!procVars, TP!PM!StopLock, TP!PM!procVars
<1>5. QED
  BY <1>1, <1>2, <1>3, <1>4

-----------------------------------------------------------------------------
(* Every step is a step of the proxy or leaves it alone *)

\* The types of the rows, of the goroutines and of the loops.
OwnTypeOK ==
    /\ status \in [Projects -> Statuses \cup {"absent"}]
    /\ goProxy \in [Projects -> 0..MaxGo]
    /\ goStart \in [Projects -> 0..MaxGo]
    /\ stage \in [Requests -> Stages]
    /\ subject \in [Requests -> Projects \cup {None}]
    /\ next \in [Requests -> Statuses \cup {"absent", "none"}]
    /\ due \subseteq Projects
    /\ down \in Projects \cup {None}
    /\ queue \subseteq Projects
    /\ booting \in Projects \cup {None}
    /\ booted \in BOOLEAN
    /\ crashes \in 0..MaxCrashes

\* A request that has begun is about a project, and one that is about to write
\* a status has one to write.
HandlerInv ==
    \A r \in Requests :
        /\ stage[r] # "idle" => subject[r] \in Projects
        /\ stage[r] = "update" => next[r] \in Statuses

\* A call of the manager by somebody who is not in the proxy is a step the
\* proxy leaves to its environment.
LEMMA ManagerMoves ==
    ASSUME UNCHANGED proxyAll,
           \/ PM!ProcStep
           \/ \E p \in Projects : PM!Start(p)
           \/ \E c \in Callers \ {IdleMonitor}, p \in Projects : PM!StopLock(c, p, "return")
           \/ \E c \in Callers : PM!CallerStep(c)
    PROVE  TP!Next
<1>1. UNCHANGED TP!proxyVars
  BY DEF proxyAll, TP!proxyVars, TP!registry, TP!idleVars
<1>2. TP!ManagerStep
  BY <1>1, SameCalls DEF TP!ManagerStep
<1>3. QED
  BY <1>2 DEF TP!Next

\* Start with what the row says starts a process or a unit, or nothing.
LEMMA RowStarts ==
    ASSUME NEW p \in Projects, NEW result \in PM!Results,
           StartFromRow(p, result), UNCHANGED callers, UNCHANGED proxyAll
    PROVE  [TP!Next]_<<procAll, proxyAll>>
<1>1. PM!StartRun(p, result) /\ UNCHANGED PM!callVars
  BY DEF StartFromRow, callers, PM!callVars
<1>2. CASE UNCHANGED PM!procVars
  BY <1>1, <1>2 DEF PM!procVars, callers, procAll
<1>3. CASE result \in {"spawned", "unit"}
  <2>1. PM!Start(p)
    BY <1>1, <1>3 DEF PM!Start
  <2>2. QED
    BY <2>1, ManagerMoves
<1>4. QED
  BY <1>1, <1>2, <1>3 DEF PM!StartRun, PM!Results

\* The proxy started with what the row says.
LEMMA RowProxies ==
    ASSUME NEW p \in Projects, ProxyFromRow(p)
    PROVE  [TP!Next]_<<procAll, proxyAll>>
  BY DEF ProxyFromRow, TP!Next

\* What a request does to the manager and to the proxy.
LEMMA HandlerMoves ==
    ASSUME HandlerInv, NEW r \in Requests, HandlerStep(r)
    PROVE  [TP!Next]_<<procAll, proxyAll>>
<1>1. CASE PatchUpdate(r) \/ HandlerStopped(r) \/ DeleteRow(r)
  BY <1>1 DEF PatchUpdate, HandlerStopped, DeleteRow
<1>2. CASE HandlerStop(r)
  <2>1. /\ subject[r] \in Projects
        /\ PM!StopLock(r, subject[r], "return")
        /\ UNCHANGED proxyAll
    BY <1>2 DEF HandlerStop, HandlerInv
  <2>2. r \in Callers \ {IdleMonitor}
    BY LifecycleAssumption
  <2>3. QED
    BY <2>1, <2>2, ManagerMoves
<1>3. CASE HandlerProxyStop(r)
  <2>1. subject[r] \in Projects /\ TP!ProxyStop(subject[r])
    BY <1>3 DEF HandlerProxyStop, HandlerInv
  <2>2. QED
    BY <2>1 DEF TP!Next
<1>4. QED
  BY <1>1, <1>2, <1>3 DEF HandlerStep

\* What connections, sockets and the idle monitor do is a step of the proxy.
LEMMA ProxyMoves == ProxyStep => TP!Next
  BY DEF ProxyStep, WakeFromRow, TP!Next, TP!ConnStep

\* Every step but a crash is a step of the proxy, or leaves it and the manager
\* alone.
LEMMA StepImplements ==
    ASSUME OwnTypeOK, HandlerInv, [Next]_vars
    PROVE  [TP!Next]_<<procAll, proxyAll>>
<1>1. CASE UNCHANGED <<procAll, proxyAll>>
  BY <1>1
<1>2. ASSUME \/ \E p \in Projects : CreateProject(p)
             \/ \E r \in Requests, p \in Projects :
                   \/ \E s \in Statuses : PatchRead(r, p, s)
                   \/ DeleteBegin(r, p)
      PROVE  UNCHANGED <<procAll, proxyAll>>
  BY <1>2 DEF CreateProject, PatchRead, DeleteBegin
<1>3. ASSUME NEW r \in Requests, HandlerStep(r)
      PROVE  [TP!Next]_<<procAll, proxyAll>>
  BY <1>3, HandlerMoves
<1>4. ASSUME NEW p \in Projects, RunProxy(p)
      PROVE  [TP!Next]_<<procAll, proxyAll>>
  BY <1>4, RowProxies DEF RunProxy
<1>5. ASSUME NEW p \in Projects, RunStart(p)
      PROVE  [TP!Next]_<<procAll, proxyAll>>
  BY <1>5, RowStarts DEF RunStart
<1>6. CASE HealthStep
  <2>1. CASE HealthRead \/ \E p \in Projects : HealthCheck(p)
    BY <1>1, <2>1 DEF HealthRead, HealthCheck
  <2>2. CASE HealthRestart
    <3>1. down \in Projects
      BY <2>2 DEF HealthRestart, OwnTypeOK
    <3>2. QED
      BY <2>2, <3>1, RowStarts DEF HealthRestart
  <2>3. QED
    BY <1>6, <2>1, <2>2 DEF HealthStep
<1>7. CASE BootStep
  <2>1. CASE BootRead
    BY <1>1, <2>1 DEF BootRead
  <2>2. ASSUME NEW p \in Projects, BootProxy(p)
        PROVE  [TP!Next]_<<procAll, proxyAll>>
    BY <2>2, RowProxies DEF BootProxy
  <2>3. CASE BootStart
    <3>1. booting \in Projects
      BY <2>3 DEF BootStart, OwnTypeOK
    <3>2. QED
      BY <2>3, <3>1, RowStarts DEF BootStart
  <2>4. QED
    BY <1>7, <2>1, <2>2, <2>3 DEF BootStep
<1>8. CASE ProxyStep
  BY <1>8, ProxyMoves
<1>9. CASE ManagerStep
  BY <1>9, ManagerMoves DEF ManagerStep
<1>10. CASE UNCHANGED vars
  BY <1>1, <1>10 DEF vars
<1>11. QED
  BY <1>1, <1>2, <1>3, <1>4, <1>5, <1>6, <1>7, <1>8, <1>9, <1>10 DEF Next

-----------------------------------------------------------------------------
(* The inductive invariant *)

LifecycleInv ==
    /\ OwnTypeOK
    /\ HandlerInv
    /\ TPP!CountInv
    /\ PMP!IInv

\* At start the registries are empty and nothing is at work.
THEOREM InitLifecycleInv == Init => LifecycleInv
<1> SUFFICES ASSUME Init
             PROVE  LifecycleInv
  OBVIOUS
<1>1. TPP!Init /\ PMP!Init
  BY SameInit DEF Init
<1>2. TPP!CountInv /\ PMP!IInv
  BY <1>1, Assumed, TPP!InitCountInv, PMP!InitIInv
<1>3. 0 \in 0..MaxGo /\ 0 \in 0..MaxCrashes
  BY LifecycleAssumption
<1>4. OwnTypeOK /\ HandlerInv
  BY <1>3 DEF Init, OwnTypeOK, HandlerInv, Stages
<1>5. QED
  BY <1>2, <1>4 DEF LifecycleInv

\* Every step but a crash keeps the registries consistent, because it is a step
\* of the proxy, and with it of the manager.
LEMMA RegistriesPreserved ==
    ASSUME LifecycleInv, [Next]_vars
    PROVE  TPP!CountInv' /\ PMP!IInv'
<1>1. [TP!Next]_<<procAll, proxyAll>>
  BY StepImplements DEF LifecycleInv
<1>2. [TPP!Next]_TPP!vars
  BY <1>1, SameProxyStep
  DEF procAll, proxyAll, TPP!vars, TPP!procAll, TPP!proxyVars, TPP!registry, TPP!idleVars
<1>3. TPP!CountInv'
  BY <1>2, Assumed, TPP!NextCountInv DEF LifecycleInv
<1>4. TPP!ClientInv
  BY DEF LifecycleInv, TPP!CountInv
<1>5. [TPP!PM!Next]_TPP!PM!vars
  BY <1>2, <1>4, Assumed, TPP!StepImplements
<1>6. [PMP!Next]_PMP!vars
  BY <1>5, SameManagerStep DEF TPP!PM!vars, PMP!vars
<1>7. QED
  BY <1>3, <1>6, Assumed, PMP!NextIInv DEF LifecycleInv

\* A request that returns is about nothing.
LEMMA ReturnPreserves ==
    ASSUME OwnTypeOK, HandlerInv, NEW r \in Requests, Return(r)
    PROVE  /\ stage' \in [Requests -> Stages]
           /\ subject' \in [Requests -> Projects \cup {None}]
           /\ next' \in [Requests -> Statuses \cup {"absent", "none"}]
           /\ HandlerInv'
  BY DEF Return, OwnTypeOK, HandlerInv, Stages

\* A goroutine that is launched is counted.
LEMMA LaunchPreserves ==
    ASSUME OwnTypeOK, NEW p \in Projects, LaunchGoroutines(p)
    PROVE  /\ goProxy' \in [Projects -> 0..MaxGo]
           /\ goStart' \in [Projects -> 0..MaxGo]
<1>1. CASE UNCHANGED spawned
  BY <1>1 DEF spawned, OwnTypeOK
<1>2. CASE p \notin Remote
  <2>1. goProxy[p] + 1 \in 0..MaxGo /\ goStart[p] + 1 \in 0..MaxGo
    BY <1>2, LifecycleAssumption DEF LaunchGoroutines, OwnTypeOK
  <2>2. /\ goProxy' = [goProxy EXCEPT ![p] = goProxy[p] + 1]
        /\ goStart' = [goStart EXCEPT ![p] = goStart[p] + 1]
    BY <1>2 DEF LaunchGoroutines
  <2>3. QED
    BY <2>1, <2>2 DEF OwnTypeOK
<1>3. QED
  BY <1>1, <1>2 DEF LaunchGoroutines

\* What a request does to the row and to itself.
LEMMA HandlerPreserves ==
    ASSUME OwnTypeOK, HandlerInv, NEW r \in Requests, HandlerStep(r)
    PROVE  OwnTypeOK' /\ HandlerInv'
<1>1. CASE PatchUpdate(r)
  <2>1. subject[r] \in Projects /\ next[r] \in Statuses /\ stage[r] = "update"
    BY <1>1 DEF PatchUpdate, HandlerInv
  <2>2. UNCHANGED <<due, down, queue, booting, booted, crashes>>
    BY <1>1 DEF PatchUpdate, health, boot
  <2>3. status' \in [Projects -> Statuses \cup {"absent"}]
    <3>1. \/ status' = status
          \/ status' = [status EXCEPT ![subject[r]] = IF @ = "absent" THEN @ ELSE next[r]]
      BY <1>1 DEF PatchUpdate
    <3>2. QED
      BY <2>1, <3>1 DEF OwnTypeOK
  <2>4. /\ goProxy' \in [Projects -> 0..MaxGo]
        /\ goStart' \in [Projects -> 0..MaxGo]
    <3>1. UNCHANGED spawned \/ LaunchGoroutines(subject[r])
      BY <1>1 DEF PatchUpdate, spawned
    <3>2. QED
      BY <2>1, <3>1, LaunchPreserves DEF spawned, OwnTypeOK
  <2>5. /\ stage' \in [Requests -> Stages]
        /\ subject' \in [Requests -> Projects \cup {None}]
        /\ next' \in [Requests -> Statuses \cup {"absent", "none"}]
        /\ HandlerInv'
    <3>1. CASE Return(r)
      BY <3>1, ReturnPreserves
    <3>2. CASE stage' = [stage EXCEPT ![r] = "stop"] /\ UNCHANGED <<subject, next>>
      BY <2>1, <3>2 DEF OwnTypeOK, HandlerInv, Stages
    <3>3. QED
      BY <1>1, <3>1, <3>2 DEF PatchUpdate
  <2>6. QED
    BY <2>2, <2>3, <2>4, <2>5 DEF OwnTypeOK
<1>2. CASE HandlerStop(r) \/ HandlerStopped(r)
  BY <1>2
  DEF HandlerStop, HandlerStopped, row, spawned, health, boot, OwnTypeOK, HandlerInv, Stages
<1>3. CASE HandlerProxyStop(r)
  <2>1. UNCHANGED <<status, goProxy, goStart, due, down, queue, booting, booted, crashes>>
    BY <1>3 DEF HandlerProxyStop, row, spawned, health, boot
  <2>2. CASE Return(r)
    BY <2>1, <2>2, ReturnPreserves DEF OwnTypeOK
  <2>3. CASE stage' = [stage EXCEPT ![r] = "row"] /\ UNCHANGED <<subject, next>>
    BY <1>3, <2>1, <2>3 DEF HandlerProxyStop, OwnTypeOK, HandlerInv, Stages
  <2>4. QED
    BY <1>3, <2>2, <2>3 DEF HandlerProxyStop
<1>4. CASE DeleteRow(r)
  <2>1. /\ UNCHANGED <<goProxy, goStart, due, down, queue, booting, booted, crashes>>
        /\ Return(r)
    BY <1>4 DEF DeleteRow, spawned, health, boot
  <2>2. status' \in [Projects -> Statuses \cup {"absent"}]
    BY <1>4 DEF DeleteRow, OwnTypeOK
  <2>3. QED
    BY <2>1, <2>2, ReturnPreserves DEF OwnTypeOK
<1>5. QED
  BY <1>1, <1>2, <1>3, <1>4 DEF HandlerStep

\* Every step but a crash keeps rows, goroutines and requests well formed.
LEMMA OwnPreserved ==
    ASSUME OwnTypeOK, HandlerInv, [Next]_vars
    PROVE  OwnTypeOK' /\ HandlerInv'
<1>1. CASE UNCHANGED own
  BY <1>1 DEF own, OwnTypeOK, HandlerInv
<1>2. ASSUME NEW p \in Projects, CreateProject(p)
      PROVE  OwnTypeOK' /\ HandlerInv'
  <2>1. UNCHANGED <<stage, subject, next, due, down, queue, booting, booted, crashes>>
    BY <1>2 DEF CreateProject, handler, health, boot
  <2>2. PICK s \in Statuses :
          /\ status' = [status EXCEPT ![p] = s]
          /\ UNCHANGED spawned \/ LaunchGoroutines(p)
    BY <1>2 DEF CreateProject
  <2>3. status' \in [Projects -> Statuses \cup {"absent"}]
    BY <2>2 DEF OwnTypeOK
  <2>4. /\ goProxy' \in [Projects -> 0..MaxGo]
        /\ goStart' \in [Projects -> 0..MaxGo]
    BY <2>2, LaunchPreserves DEF spawned, OwnTypeOK
  <2>5. QED
    BY <2>1, <2>3, <2>4 DEF OwnTypeOK, HandlerInv
<1>3. ASSUME NEW r \in Requests, NEW p \in Projects, NEW s \in Statuses, PatchRead(r, p, s)
      PROVE  OwnTypeOK' /\ HandlerInv'
  BY <1>3 DEF PatchRead, row, spawned, health, boot, OwnTypeOK, HandlerInv, Stages
<1>4. ASSUME NEW r \in Requests, NEW p \in Projects, DeleteBegin(r, p)
      PROVE  OwnTypeOK' /\ HandlerInv'
  BY <1>4 DEF DeleteBegin, row, spawned, health, boot, OwnTypeOK, HandlerInv, Stages
<1>5. ASSUME NEW r \in Requests, HandlerStep(r)
      PROVE  OwnTypeOK' /\ HandlerInv'
  BY <1>5, HandlerPreserves
<1>6. ASSUME NEW p \in Projects, RunProxy(p)
      PROVE  OwnTypeOK' /\ HandlerInv'
  BY <1>6, LifecycleAssumption
  DEF RunProxy, row, handler, health, boot, OwnTypeOK, HandlerInv
<1>7. ASSUME NEW p \in Projects, RunStart(p)
      PROVE  OwnTypeOK' /\ HandlerInv'
  BY <1>7, LifecycleAssumption
  DEF RunStart, row, handler, health, boot, OwnTypeOK, HandlerInv
<1>8. CASE HealthStep
  BY <1>8
  DEF HealthStep, HealthRead, HealthCheck, HealthRestart, row, spawned, handler, boot,
      OwnTypeOK, HandlerInv
<1>9. CASE BootStep
  BY <1>9
  DEF BootStep, BootRead, BootProxy, BootStart, row, spawned, handler, health,
      OwnTypeOK, HandlerInv
<1>10. ASSUME ProxyStep \/ ManagerStep \/ UNCHANGED vars
       PROVE  UNCHANGED own
  BY <1>10 DEF ProxyStep, ManagerStep, vars
<1>11. QED
  BY <1>1, <1>2, <1>3, <1>4, <1>5, <1>6, <1>7, <1>8, <1>9, <1>10 DEF Next

\* After a restart the registries are empty again; the kernel has taken the
\* children and the sockets, and units and rows are as they were.
LEMMA CrashPreserves ==
    ASSUME LifecycleInv, Crash
    PROVE  LifecycleInv'
<1>1. OwnTypeOK' /\ HandlerInv'
  <2>1. 0 \in 0..MaxGo /\ crashes + 1 \in 0..MaxCrashes
    BY LifecycleAssumption DEF LifecycleInv, OwnTypeOK, Crash
  <2>2. QED
    BY <2>1 DEF LifecycleInv, Crash, OwnTypeOK, HandlerInv, Stages, row
<1>2. PMP!IInv'
  BY Assumed
  DEF LifecycleInv, Crash, PMP!IInv, PMP!TypeOK, PMP!CallerInv, PMP!OwnerInv,
      PMP!NoStaleEntry, PMP!StopOutlivesProcess, PMP!Phases, PMP!Places
<1>3. TPP!ClientInv'
  BY Assumed
  DEF LifecycleInv, Crash, TPP!CountInv, TPP!ClientInv, TPP!RegistryInv,
      TPP!RegistryTypeOK, TPP!ServedHasOwner, TPP!ListenerRegistered,
      TPP!CounterOfListener, TPP!SocketPhases
<1>4. \A l \in Listeners : TPP!Counted(l)' = {}
  BY DEF Crash, TPP!Counted
<1>5. TPP!CounterExact'
  BY <1>4, FS_EmptySet DEF Crash, TPP!CounterExact, TPP!Cardinality, Cardinality
<1>6. TPP!CountInv'
  BY <1>3, <1>5 DEF Crash, TPP!CountInv
<1>7. QED
  BY <1>1, <1>2, <1>6 DEF LifecycleInv

\* Every step of the running server, and a restart of it at any moment.
THEOREM NextLifecycleInv == LifecycleInv /\ [Next \/ Crash]_vars => LifecycleInv'
<1>1. LifecycleInv /\ [Next]_vars => LifecycleInv'
  BY RegistriesPreserved, OwnPreserved DEF LifecycleInv
<1>2. LifecycleInv /\ Crash => LifecycleInv'
  BY CrashPreserves
<1>3. QED
  BY <1>1, <1>2

-----------------------------------------------------------------------------
(* Theorems *)

\* The invariant implies what the run checks.
LEMMA InvConsistent == LifecycleInv => RegistriesConsistent
<1> SUFFICES ASSUME LifecycleInv
             PROVE  RegistriesConsistent
  OBVIOUS
<1>1. PM!TypeOK /\ PM!NoStaleEntry
  BY DEF LifecycleInv, PMP!IInv, PMP!TypeOK, PMP!NoStaleEntry, PMP!Phases, PMP!Places,
         PM!TypeOK, PM!NoStaleEntry, PM!Phases, PM!Places
<1>2. TP!TypeOK
  BY DEF LifecycleInv, TPP!CountInv, TPP!ClientInv, TPP!RegistryInv, TPP!RegistryTypeOK,
         TPP!SocketPhases, TP!TypeOK, TP!SocketPhases
<1>3. TP!ListenersConsistent
  BY DEF LifecycleInv, TPP!CountInv, TPP!ClientInv, TPP!RegistryInv,
         TPP!ListenerRegistered, TPP!CounterOfListener,
         TP!ListenersConsistent, TP!ListenerRegistered, TP!CounterOfListener
<1>4. TP!CounterExact
  BY DEF LifecycleInv, TPP!CountInv, TPP!CounterExact, TPP!Counted,
         TPP!Cardinality, TP!Cardinality, TP!CounterExact, TP!Counted
<1>5. QED
  BY <1>1, <1>2, <1>3, <1>4 DEF RegistriesConsistent, TypeOK, LifecycleInv, OwnTypeOK

\* Whatever requests, goroutines, monitors, the boot loop, clients and crashes
\* interleave, with any number of restarts: an entry of the manager describes a
\* process that is waited for, a listener of the proxy is served and every open
\* socket is registered, and a counter is the number of connections it counts.
THEOREM RegistriesConsistentHolds == CrashSpec => []RegistriesConsistent
  BY InitLifecycleInv, NextLifecycleInv, InvConsistent, PTL DEF CrashSpec

\* Between restarts the whole system is an environment that TCPProxy, and
\* through it ProcManager, allows: no handler or monitor touches a registry
\* except through their operations.
THEOREM LifecycleImplementsTCPProxy == CrashSpec => ImplementsTCPProxy
<1>1. Init => TP!Init
  BY DEF Init
<1>2. LifecycleInv /\ [Next \/ Crash]_vars
        => [TP!Next \/ crashes' # crashes]_<<procAll, proxyAll>>
  <2>1. LifecycleInv /\ [Next]_vars => [TP!Next]_<<procAll, proxyAll>>
    BY StepImplements DEF LifecycleInv
  <2>2. LifecycleInv /\ Crash => crashes' # crashes
    BY LifecycleAssumption DEF LifecycleInv, OwnTypeOK, Crash
  <2>3. QED
    BY <2>1, <2>2
<1>3. QED
  BY <1>1, <1>2, InitLifecycleInv, NextLifecycleInv, PTL
  DEF CrashSpec, ImplementsTCPProxy
=============================================================================
