---------------------------- MODULE TCPProxyProofs ----------------------------
(***************************************************************************)
(* Theorems about TCPProxy: its registry never loses an open socket, the   *)
(* idle monitor reads the right counter, counters never drift, and the     *)
(* proxy is a client of the process manager that only does what            *)
(* ProcManager allows.                                                     *)
(***************************************************************************)
EXTENDS TCPProxy, FiniteSetTheorems, TLAPS

\* The types of the registry, without those of the counters.
RegistryTypeOK ==
    /\ listeners \in [Projects -> Listeners \cup {None}]
    /\ actives \in [Projects -> Listeners \cup {None}]
    /\ lphase \in [Listeners -> SocketPhases]
    /\ lowner \in [Listeners -> Projects \cup {None}]

\* A socket whose accept loop has not ended belongs to a project.
ServedHasOwner ==
    \A l \in Listeners : lphase[l] \in {"open", "failed", "closed"} => lowner[l] \in Projects

\* The inductive invariant.
RegistryInv ==
    /\ RegistryTypeOK
    /\ ServedHasOwner
    /\ ListenerRegistered
    /\ CounterOfListener

\* At start no project has a listener.
THEOREM InitRegistryInv == Init => RegistryInv
  BY ProxyAssumption
  DEF Init, RegistryInv, RegistryTypeOK, ServedHasOwner, ListenerRegistered,
      CounterOfListener, SocketPhases

\* Start opens a socket for a project that has none.
LEMMA ProxyStartPreserves ==
    ASSUME RegistryInv, NEW p \in Projects, ProxyStart(p)
    PROVE  RegistryInv'
<1>1. PICK l \in Listeners :
        /\ Fresh(l)
        /\ listeners' = [listeners EXCEPT ![p] = l]
        /\ actives' = [actives EXCEPT ![p] = l]
        /\ lphase' = [lphase EXCEPT ![l] = "open"]
        /\ lowner' = [lowner EXCEPT ![l] = p]
  BY DEF ProxyStart
<1>2. listeners[p] = None /\ lphase[l] = "gone"
  BY <1>1 DEF ProxyStart, Fresh
<1>3. RegistryTypeOK' /\ ServedHasOwner' /\ CounterOfListener'
  BY <1>1, ProxyAssumption
  DEF RegistryInv, RegistryTypeOK, ServedHasOwner, CounterOfListener, SocketPhases
<1>4. ASSUME NEW q \in Projects, listeners'[q] # None
      PROVE  /\ lowner'[listeners'[q]] = q
             /\ lphase'[listeners'[q]] \in {"open", "failed"}
  <2>1. CASE q = p
    BY <1>1, <2>1 DEF RegistryInv, RegistryTypeOK
  <2>2. CASE q # p
    BY <1>1, <1>2, <1>4, <2>2 DEF RegistryInv, RegistryTypeOK, ListenerRegistered
  <2>3. QED
    BY <2>1, <2>2
<1>5. ASSUME NEW m \in Listeners, lphase'[m] = "open"
      PROVE  listeners'[lowner'[m]] = m
  <2>1. CASE m = l
    BY <1>1, <2>1 DEF RegistryInv, RegistryTypeOK
  <2>2. CASE m # l
    <3>1. lphase[m] = "open" /\ lowner'[m] = lowner[m] /\ lowner[m] \in Projects
      BY <1>1, <1>5, <2>2 DEF RegistryInv, RegistryTypeOK, ServedHasOwner
    <3>2. listeners[lowner[m]] = m /\ lowner[m] # p
      BY <1>2, <3>1, ProxyAssumption DEF RegistryInv, ListenerRegistered
    <3>3. QED
      BY <1>1, <3>1, <3>2 DEF RegistryInv, RegistryTypeOK
  <2>3. QED
    BY <2>1, <2>2
<1>6. QED
  BY <1>3, <1>4, <1>5 DEF RegistryInv, ListenerRegistered

\* Stop closes the registered socket and no other.
LEMMA ProxyStopPreserves ==
    ASSUME RegistryInv, NEW p \in Projects, ProxyStop(p)
    PROVE  RegistryInv'
  BY ProxyAssumption
  DEF ProxyStop, RegistryInv, RegistryTypeOK, ServedHasOwner,
      ListenerRegistered, CounterOfListener, SocketPhases

\* An accept loop that ends removes its own listener, or nothing.
LEMMA ServeEndsPreserves ==
    ASSUME RegistryInv, NEW l \in Listeners, ServeEnds(l)
    PROVE  RegistryInv'
<1> USE ProxyAssumption
    DEF RegistryInv, RegistryTypeOK, ServedHasOwner, ListenerRegistered,
        CounterOfListener, SocketPhases
<1>1. CASE listeners[lowner[l]] = l
  BY <1>1 DEF ServeEnds
<1>2. CASE listeners[lowner[l]] # l
  BY <1>2 DEF ServeEnds
<1>3. QED
  BY <1>1, <1>2

\* Every step of the proxy, of its clients and of the manager keeps the registry
\* of listeners consistent.
THEOREM NextRegistryInv == RegistryInv /\ [Next]_vars => RegistryInv'
<1> SUFFICES ASSUME RegistryInv, [Next]_vars
             PROVE  RegistryInv'
  OBVIOUS
<1>1. ASSUME NEW p \in Projects, ProxyStart(p) \/ ProxyStop(p)
      PROVE  RegistryInv'
  BY <1>1, ProxyStartPreserves, ProxyStopPreserves
<1>2. ASSUME NEW l \in Listeners, AcceptFails(l) \/ Finalize(l)
      PROVE  RegistryInv'
  BY <1>2, ProxyAssumption
  DEF AcceptFails, Finalize, RegistryInv, RegistryTypeOK, ServedHasOwner,
      ListenerRegistered, CounterOfListener, SocketPhases
<1>3. ASSUME NEW l \in Listeners, ServeEnds(l)
      PROVE  RegistryInv'
  BY <1>3, ServeEndsPreserves
<1>4. CASE UNCHANGED <<listeners, actives, lphase, lowner>>
  BY <1>4 DEF RegistryInv, RegistryTypeOK, ServedHasOwner, ListenerRegistered,
              CounterOfListener
<1>5. ASSUME NEW k \in Conns, NEW l \in Listeners, Accept(k, l)
      PROVE  UNCHANGED <<listeners, actives, lphase, lowner>>
  BY <1>5 DEF Accept, registry
<1>6. ASSUME NEW k \in Conns, ConnStep(k)
      PROVE  UNCHANGED <<listeners, actives, lphase, lowner>>
  BY <1>6 DEF ConnStep, CountUp, Wake, Dialed, Hangup, registry
<1>7. ASSUME IdleBegin \/ IdleStep
      PROVE  UNCHANGED <<listeners, actives, lphase, lowner>>
  BY <1>7 DEF IdleBegin, IdleStep, IdleSpare, IdleJudge, IdleStop, IdleStopped,
              IdleEnd, registry
<1>8. ASSUME ManagerStep \/ UNCHANGED vars
      PROVE  UNCHANGED <<listeners, actives, lphase, lowner>>
  BY <1>8 DEF ManagerStep, vars, proxyVars, registry
<1>9. QED
  BY <1>1, <1>2, <1>3, <1>4, <1>5, <1>6, <1>7, <1>8 DEF Next

\* In every state a registered listener is served or about to be removed, and
\* an open socket is registered: a late accept loop never evicts its successor.
THEOREM ListenerRegisteredHolds == Spec => []ListenerRegistered
<1>1. RegistryInv => ListenerRegistered
  BY DEF RegistryInv
<1>2. QED
  BY <1>1, InitRegistryInv, NextRegistryInv, PTL DEF Spec

\* In every state the idle monitor reads the counter of the listener that the
\* project has now.
THEOREM CounterOfListenerHolds == Spec => []CounterOfListener
<1>1. RegistryInv => CounterOfListener
  BY DEF RegistryInv
<1>2. QED
  BY <1>1, InitRegistryInv, NextRegistryInv, PTL DEF Spec

\* The two maps of the proxy and its open sockets agree in every state.
THEOREM ListenersConsistentHolds == Spec => []ListenersConsistent
  BY ListenerRegisteredHolds, CounterOfListenerHolds, PTL DEF ListenersConsistent

-----------------------------------------------------------------------------
(* Refinement: a step of the proxy is a step of the process manager, or none *)

\* What the callers of the process manager know: an accepted connection has a
\* listener that served a project, and a project judged idle is a project.
ClientInv ==
    /\ RegistryInv
    /\ conn \in [Conns -> {"free", "accepted", "counted", "dialing", "relay"}]
    /\ via \in [Conns -> Listeners \cup {None}]
    /\ \A k \in Conns : conn[k] # "free" =>
          via[k] \in Listeners /\ lowner[via[k]] \in Projects
    /\ todo \subseteq Projects
    /\ pass = "judged" => victim \in Projects

\* At start no connection is up and the idle monitor is not in a pass.
THEOREM InitClientInv == Init => ClientInv
  BY InitRegistryInv DEF Init, ClientInv

\* Every step keeps connections and the idle pass on projects that exist, which
\* is what the refinement needs of them.
THEOREM NextClientInv == ClientInv /\ [Next]_vars => ClientInv'
<1> SUFFICES ASSUME ClientInv, [Next]_vars
             PROVE  ClientInv'
  OBVIOUS
<1> USE NextRegistryInv, ProxyAssumption DEF ClientInv
<1>1. ASSUME NEW p \in Projects, ProxyStart(p)
      PROVE  ClientInv'
  <2>1. PICK l \in Listeners : Fresh(l) /\ lowner' = [lowner EXCEPT ![l] = p]
    BY <1>1 DEF ProxyStart
  <2>2. UNCHANGED <<conn, via, todo, pass, victim>>
    BY <1>1 DEF ProxyStart, idleVars
  <2>3. \A k \in Conns : conn[k] # "free" => lowner'[via[k]] = lowner[via[k]]
    BY <2>1 DEF Fresh, RegistryInv, RegistryTypeOK
  <2>4. QED
    BY <2>2, <2>3
<1>2. ASSUME \/ \E p \in Projects : ProxyStop(p)
             \/ \E l \in Listeners : AcceptFails(l) \/ ServeEnds(l) \/ Finalize(l)
      PROVE  ClientInv'
  BY <1>2 DEF ProxyStop, AcceptFails, ServeEnds, Finalize, idleVars
<1>3. ASSUME NEW k \in Conns, NEW l \in Listeners, Accept(k, l)
      PROVE  ClientInv'
  <2>1. lowner[l] \in Projects
    BY <1>3 DEF Accept, RegistryInv, ServedHasOwner
  <2>2. QED
    BY <1>3, <2>1 DEF Accept, registry, idleVars
<1>4. ASSUME NEW k \in Conns, ConnStep(k)
      PROVE  ClientInv'
  BY <1>4 DEF ConnStep, CountUp, Wake, Dialed, Hangup, registry, idleVars
<1>5. ASSUME IdleBegin \/ IdleStep
      PROVE  ClientInv'
  BY <1>5 DEF IdleBegin, IdleStep, IdleSpare, IdleJudge, IdleStop, IdleStopped,
              IdleEnd, registry
<1>6. ASSUME ManagerStep \/ UNCHANGED vars
      PROVE  ClientInv'
  BY <1>6 DEF ManagerStep, vars, proxyVars, registry, idleVars
<1>7. QED
  BY <1>1, <1>2, <1>3, <1>4, <1>5, <1>6 DEF Next

\* Wake is Start called for the project of the connection.
LEMMA WakeImplementsStart ==
    ASSUME ClientInv, NEW k \in Conns, Wake(k)
    PROVE  [PM!Next]_PM!vars
<1>0. lowner[via[k]] \in Projects
  BY DEF Wake, ClientInv
<1>1. PICK result \in PM!Results : PM!StartRun(lowner[via[k]], result)
  BY DEF Wake
<1>2. UNCHANGED PM!callVars
  BY DEF Wake, callers, PM!callVars
<1>3. CASE UNCHANGED PM!procVars
  BY <1>2, <1>3 DEF PM!procVars, PM!callVars, PM!vars
<1>4. CASE result \in {"spawned", "unit"}
  <2>1. PM!Start(lowner[via[k]])
    BY <1>1, <1>2, <1>4 DEF PM!Start
  <2>2. QED
    BY <1>0, <2>1 DEF PM!Next
<1>5. QED
  BY <1>1, <1>3, <1>4 DEF PM!StartRun, PM!Results

\* Every step of the proxy is a step of ProcManager or leaves its variables
\* alone.
LEMMA StepImplements == ClientInv /\ [Next]_vars => [PM!Next]_PM!vars
<1> SUFFICES ASSUME ClientInv, [Next]_vars
             PROVE  [PM!Next]_PM!vars
  OBVIOUS
<1>1. CASE UNCHANGED procAll
  BY <1>1 DEF procAll, PM!vars
<1>2. ASSUME \/ \E p \in Projects : ProxyStart(p) \/ ProxyStop(p)
             \/ \E l \in Listeners : AcceptFails(l) \/ ServeEnds(l) \/ Finalize(l)
             \/ \E k \in Conns, l \in Listeners : Accept(k, l)
      PROVE  UNCHANGED procAll
  BY <1>2 DEF ProxyStart, ProxyStop, AcceptFails, ServeEnds, Finalize, Accept
<1>3. ASSUME NEW k \in Conns, ConnStep(k)
      PROVE  [PM!Next]_PM!vars
  <2>1. CASE CountUp(k) \/ Dialed(k) \/ Hangup(k)
    BY <1>1, <2>1 DEF CountUp, Dialed, Hangup
  <2>2. CASE Wake(k)
    BY <2>2, WakeImplementsStart
  <2>3. QED
    BY <1>3, <2>1, <2>2 DEF ConnStep
<1>4. ASSUME IdleBegin \/ IdleStep
      PROVE  [PM!Next]_PM!vars
  <2>1. CASE IdleStop
    <3>1. PM!StopLock(IdleMonitor, victim, "return") /\ victim \in Projects
      BY <2>1 DEF IdleStop, ClientInv
    <3>2. QED
      BY <3>1, ProxyAssumption DEF PM!Next
  <2>2. CASE ~IdleStop
    BY <1>1, <1>4, <2>2
    DEF IdleBegin, IdleStep, IdleSpare, IdleJudge, IdleStopped, IdleEnd
  <2>3. QED
    BY <2>1, <2>2
<1>5. CASE ManagerStep
  BY <1>5 DEF ManagerStep, PM!Next
<1>6. CASE UNCHANGED vars
  BY <1>1, <1>6 DEF vars
<1>7. QED
  BY <1>1, <1>2, <1>3, <1>4, <1>5, <1>6 DEF Next

\* The proxy and its idle monitor are clients of the process manager: every
\* behaviour of TCPProxy is a behaviour of ProcManager, so what is proved of
\* the registry there holds here.
THEOREM ProxyImplementsProcManager == Spec => ImplementsProcManager
<1>1. Init => PM!Init
  BY DEF Init
<1>2. QED
  BY <1>1, InitClientInv, NextClientInv, StepImplements, PTL
  DEF Spec, ImplementsProcManager, PM!Spec

-----------------------------------------------------------------------------
(* The counters *)

\* The inductive invariant of the counters.
CountInv ==
    /\ ClientInv
    /\ count \in [Listeners -> Nat]
    /\ pass \in {"off", "scan", "judged", "stopping"}
    /\ victim \in Projects \cup {None}
    /\ CounterExact

\* The connections a counter counts are finitely many.
LEMMA CountedFinite == \A l : IsFiniteSet(Counted(l))
<1>1. ASSUME NEW l
      PROVE  IsFiniteSet(Counted(l))
  <2>1. Counted(l) \in SUBSET Conns
    BY DEF Counted
  <2>2. QED
    BY <2>1, ProxyAssumption, FS_Subset
<1>2. QED
  BY <1>1

\* At start nothing is counted.
THEOREM InitCountInv == Init => CountInv
<1> SUFFICES ASSUME Init
             PROVE  CountInv
  OBVIOUS
<1>1. \A l \in Listeners : Counted(l) = {} /\ count[l] = 0
  BY DEF Init, Counted
<1>2. CounterExact
  BY <1>1, FS_EmptySet DEF CounterExact
<1>3. QED
  BY <1>2, InitClientInv DEF Init, CountInv

\* A step that touches neither counters nor connections that are counted keeps
\* the counters exact.
LEMMA CountedUnchanged ==
    ASSUME CountInv,
           count' = count,
           \A l \in Listeners : Counted(l)' = Counted(l)
    PROVE  count' \in [Listeners -> Nat] /\ CounterExact'
  BY DEF CountInv, CounterExact

\* A listener starts with a counter at zero, and no connection is left that an
\* earlier use of the same socket counted.
LEMMA ProxyStartCounts ==
    ASSUME CountInv, NEW p \in Projects, ProxyStart(p)
    PROVE  count' \in [Listeners -> Nat] /\ CounterExact'
<1>1. PICK l \in Listeners : Fresh(l) /\ count' = [count EXCEPT ![l] = 0]
  BY DEF ProxyStart
<1>2. \A m \in Listeners : Counted(m)' = Counted(m)
  BY DEF ProxyStart, Counted
<1>3. Counted(l) = {}
  BY <1>1 DEF Fresh, Counted
<1>4. QED
  BY <1>1, <1>2, <1>3, FS_EmptySet DEF CountInv, CounterExact

\* The increment counts the goroutine that makes it.
LEMMA CountUpCounts ==
    ASSUME CountInv, NEW k \in Conns, CountUp(k)
    PROVE  count' \in [Listeners -> Nat] /\ CounterExact'
<1>0. PICK l \in Listeners : l = via[k]
  BY DEF CountUp, CountInv, ClientInv
<1>1. /\ l = via[k]
      /\ conn[k] = "accepted"
      /\ count' = [count EXCEPT ![l] = @ + 1]
      /\ conn' = [conn EXCEPT ![k] = "counted"]
      /\ via' = via
  BY <1>0 DEF CountUp
<1>2. k \notin Counted(l)
  BY <1>1 DEF Counted
<1>3. Counted(l)' = Counted(l) \cup {k}
  BY <1>1 DEF Counted, CountInv, ClientInv
<1>4. \A m \in Listeners \ {l} : Counted(m)' = Counted(m)
  BY <1>1 DEF Counted, CountInv, ClientInv
<1>5. Cardinality(Counted(l)') = Cardinality(Counted(l)) + 1
  BY <1>2, <1>3, CountedFinite, FS_AddElement
<1>6. count[l] = Cardinality(Counted(l)) /\ count[l] \in Nat
  BY <1>1 DEF CountInv, CounterExact
<1>7. count' \in [Listeners -> Nat] /\ count'[l] = count[l] + 1
  BY <1>1, <1>6 DEF CountInv
<1>8. ASSUME NEW m \in Listeners
      PROVE  count'[m] = Cardinality(Counted(m)')
  <2>1. CASE m = l
    BY <1>5, <1>6, <1>7, <2>1
  <2>2. CASE m # l
    BY <1>1, <1>4, <2>2 DEF CountInv, CounterExact
  <2>3. QED
    BY <2>1, <2>2
<1>9. QED
  BY <1>7, <1>8 DEF CounterExact

\* The deferred decrement takes away the goroutine that was counted, so the
\* counter it decrements is not zero.
LEMMA HangupCounts ==
    ASSUME CountInv, NEW k \in Conns, Hangup(k)
    PROVE  count' \in [Listeners -> Nat] /\ CounterExact'
<1>0. PICK l \in Listeners : l = via[k]
  BY DEF Hangup, CountInv, ClientInv
<1>1. /\ l = via[k]
      /\ conn[k] \in {"dialing", "relay"}
      /\ count' = [count EXCEPT ![l] = @ - 1]
      /\ conn' = [conn EXCEPT ![k] = "free"]
      /\ via' = [via EXCEPT ![k] = None]
  BY <1>0 DEF Hangup
<1>2. k \in Counted(l)
  BY <1>1 DEF Counted
<1>3. Counted(l)' = Counted(l) \ {k}
  BY <1>1, ProxyAssumption DEF Counted, CountInv, ClientInv
<1>4. \A m \in Listeners \ {l} : Counted(m)' = Counted(m)
  BY <1>1, ProxyAssumption DEF Counted, CountInv, ClientInv
<1>5. Cardinality(Counted(l)') = Cardinality(Counted(l)) - 1
  BY <1>2, <1>3, CountedFinite, FS_RemoveElement
<1>6. count[l] = Cardinality(Counted(l)) /\ count[l] \in Nat /\ count[l] # 0
  BY <1>1, <1>2, CountedFinite, FS_EmptySet DEF CountInv, CounterExact
<1>7. count' \in [Listeners -> Nat] /\ count'[l] = count[l] - 1
  BY <1>1, <1>6 DEF CountInv
<1>8. ASSUME NEW m \in Listeners
      PROVE  count'[m] = Cardinality(Counted(m)')
  <2>1. CASE m = l
    BY <1>5, <1>6, <1>7, <2>1
  <2>2. CASE m # l
    BY <1>1, <1>4, <2>2 DEF CountInv, CounterExact
  <2>3. QED
    BY <2>1, <2>2
<1>9. QED
  BY <1>7, <1>8 DEF CounterExact

\* Every step keeps the counters equal to the numbers of counted goroutines.
LEMMA NextCounts ==
    ASSUME CountInv, [Next]_vars
    PROVE  count' \in [Listeners -> Nat] /\ CounterExact'
<1>1. ASSUME NEW p \in Projects, ProxyStart(p)
      PROVE  count' \in [Listeners -> Nat] /\ CounterExact'
  BY <1>1, ProxyStartCounts
<1>2. CASE UNCHANGED <<count, conn, via>>
  BY <1>2, CountedUnchanged DEF Counted
<1>3. ASSUME \/ \E p \in Projects : ProxyStop(p)
             \/ \E l \in Listeners : AcceptFails(l) \/ ServeEnds(l) \/ Finalize(l)
      PROVE  UNCHANGED <<count, conn, via>>
  BY <1>3 DEF ProxyStop, AcceptFails, ServeEnds, Finalize
<1>4. ASSUME NEW k \in Conns, NEW l \in Listeners, Accept(k, l)
      PROVE  count' \in [Listeners -> Nat] /\ CounterExact'
  <2>1. count' = count
    BY <1>4 DEF Accept, registry
  <2>2. \A m \in Listeners : Counted(m)' = Counted(m)
    BY <1>4 DEF Accept, Counted, CountInv, ClientInv
  <2>3. QED
    BY <2>1, <2>2, CountedUnchanged
<1>5. ASSUME NEW k \in Conns, Wake(k) \/ Dialed(k)
      PROVE  count' \in [Listeners -> Nat] /\ CounterExact'
  <2>1. count' = count
    BY <1>5 DEF Wake, Dialed, registry
  <2>2. \A m \in Listeners : Counted(m)' = Counted(m)
    BY <1>5 DEF Wake, Dialed, Counted, CountInv, ClientInv
  <2>3. QED
    BY <2>1, <2>2, CountedUnchanged
<1>6. ASSUME NEW k \in Conns, CountUp(k) \/ Hangup(k)
      PROVE  count' \in [Listeners -> Nat] /\ CounterExact'
  BY <1>6, CountUpCounts, HangupCounts
<1>7. ASSUME IdleBegin \/ IdleStep \/ ManagerStep \/ UNCHANGED vars
      PROVE  UNCHANGED <<count, conn, via>>
  BY <1>7 DEF IdleBegin, IdleStep, IdleSpare, IdleJudge, IdleStop, IdleStopped,
              IdleEnd, ManagerStep, vars, proxyVars, registry
<1>8. QED
  BY <1>1, <1>2, <1>3, <1>4, <1>5, <1>6, <1>7 DEF Next, ConnStep

\* Every step of the proxy, of its clients and of the manager preserves the
\* invariant of the counters.
THEOREM NextCountInv == CountInv /\ [Next]_vars => CountInv'
<1> SUFFICES ASSUME CountInv, [Next]_vars
             PROVE  CountInv'
  OBVIOUS
<1>1. ClientInv'
  BY NextClientInv DEF CountInv
<1>2. count' \in [Listeners -> Nat] /\ CounterExact'
  BY NextCounts
<1>3. /\ pass' \in {"off", "scan", "judged", "stopping"}
      /\ victim' \in Projects \cup {None}
  <2>1. CASE UNCHANGED <<pass, victim>>
    BY <2>1 DEF CountInv
  <2>2. CASE IdleBegin \/ IdleStep
    BY <2>2 DEF IdleBegin, IdleStep, IdleSpare, IdleJudge, IdleStop, IdleStopped,
                IdleEnd, CountInv
  <2>3. ASSUME \/ \E p \in Projects : ProxyStart(p) \/ ProxyStop(p)
               \/ \E l \in Listeners : AcceptFails(l) \/ ServeEnds(l) \/ Finalize(l)
               \/ \E k \in Conns, l \in Listeners : Accept(k, l)
               \/ \E k \in Conns : ConnStep(k)
        PROVE  UNCHANGED <<pass, victim>>
    BY <2>3 DEF ProxyStart, ProxyStop, AcceptFails, ServeEnds, Finalize, Accept,
                ConnStep, CountUp, Wake, Dialed, Hangup, idleVars
  <2>4. ASSUME ManagerStep \/ UNCHANGED vars
        PROVE  UNCHANGED <<pass, victim>>
    BY <2>4 DEF ManagerStep, vars, proxyVars, idleVars
  <2>5. QED
    BY <2>1, <2>2, <2>3, <2>4 DEF Next
<1>4. QED
  BY <1>1, <1>2, <1>3 DEF CountInv

\* Every variable of the proxy keeps its type; a counter never goes below zero.
THEOREM TypeCorrect == Spec => []TypeOK
<1>1. CountInv => TypeOK
  BY DEF CountInv, ClientInv, RegistryInv, RegistryTypeOK, TypeOK
<1>2. QED
  BY <1>1, InitCountInv, NextCountInv, PTL DEF Spec

\* In every state a counter is the number of goroutines between their increment
\* and their deferred decrement, for any numbers of sockets and clients, also
\* for listeners that have been replaced: it never drifts.
THEOREM CounterExactHolds == Spec => []CounterExact
<1>1. CountInv => CounterExact
  BY DEF CountInv
<1>2. QED
  BY <1>1, InitCountInv, NextCountInv, PTL DEF Spec

=============================================================================
