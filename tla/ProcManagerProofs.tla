-------------------------- MODULE ProcManagerProofs --------------------------
(***************************************************************************)
(* Theorems about ProcManager, for every number of projects, processes and *)
(* callers.                                                                *)
(***************************************************************************)
EXTENDS ProcManager, TLAPS

\* What a caller knows at each place of Stop and Restart.
CallerInv ==
    \A c \in Callers :
        /\ pc[c] # "idle" => target[c] \in Projects
        /\ pc[c] \in {"term", "wait", "killed", "clear"} <=> held[c] # None

\* A process that has not finished belongs to a project.
OwnerInv == \A h \in Handles : phase[h] # "done" => owner[h] \in Projects

\* The inductive invariant.
IInv ==
    /\ TypeOK
    /\ CallerInv
    /\ OwnerInv
    /\ NoStaleEntry
    /\ StopOutlivesProcess

\* Spawning an unused handle for a project without an entry preserves all that
\* the invariant says of processes and entries.
LEMMA SpawnPreserves ==
    ASSUME IInv,
           NEW p \in Projects, NEW h \in Handles,
           procs[p] = None,
           Spawn(p, h)
    PROVE  /\ procs' \in [Projects -> Handles \cup {None}]
           /\ phase' \in [Handles -> Phases]
           /\ owner' \in [Handles -> Projects \cup {None}]
           /\ signal' \in [Handles -> {"none", "term", "kill"}]
           /\ unit' \in [Projects -> BOOLEAN]
           /\ OwnerInv'
           /\ NoStaleEntry'
           /\ \A c \in Callers : held[c] # h
  BY NoneAssumption
  DEF IInv, TypeOK, OwnerInv, NoStaleEntry, Spawn, Unused, Phases

\* Whatever Start finds, the registry stays consistent, and a process that a
\* caller still holds is neither revived nor replaced.
LEMMA StartRunPreserves ==
    ASSUME IInv,
           NEW p \in Projects, NEW result,
           StartRun(p, result)
    PROVE  /\ procs' \in [Projects -> Handles \cup {None}]
           /\ phase' \in [Handles -> Phases]
           /\ owner' \in [Handles -> Projects \cup {None}]
           /\ signal' \in [Handles -> {"none", "term", "kill"}]
           /\ unit' \in [Projects -> BOOLEAN]
           /\ OwnerInv'
           /\ NoStaleEntry'
           /\ \A c \in Callers : held[c] # None => phase'[held[c]] = phase[held[c]]
<1>1. CASE UNCHANGED procVars
  BY <1>1 DEF IInv, TypeOK, OwnerInv, NoStaleEntry, procVars
<1>2. CASE procs[p] = None /\ \E h \in Handles : Spawn(p, h)
  <2>1. PICK h \in Handles : Spawn(p, h)
    BY <1>2
  <2>2. ASSUME NEW c \in Callers, held[c] # None
        PROVE  phase'[held[c]] = phase[held[c]]
    <3>1. held[c] \in Handles /\ held[c] # h
      BY <2>1, <2>2 DEF IInv, TypeOK, Spawn, Unused
    <3>2. QED
      BY <2>1, <3>1 DEF Spawn, IInv, TypeOK
  <2>3. QED
    BY <1>2, <2>1, <2>2, SpawnPreserves
<1>3. CASE StartUnit(p)
  BY <1>3 DEF StartUnit, IInv, TypeOK, OwnerInv, NoStaleEntry
<1>4. QED
  BY <1>1, <1>2, <1>3 DEF StartRun

\* A caller that leaves Stop forgets the process it held.
LEMMA LeavePreserves ==
    ASSUME IInv,
           NEW c \in Callers, pc[c] # "idle",
           Leave(c)
    PROVE  /\ pc' \in [Callers -> Places]
           /\ target' \in [Callers -> Projects \cup {None}]
           /\ held' \in [Callers -> Handles \cup {None}]
           /\ then' \in [Callers -> {"return", "start"}]
           /\ CallerInv'
           /\ \A d \in Callers : pc'[d] = "clear" =>
                 pc[d] = "clear" /\ held'[d] = held[d]
<1>1. CASE then[c] = "start"
  BY <1>1, NoneAssumption DEF Leave, IInv, TypeOK, CallerInv, Places
<1>2. CASE then[c] = "return"
  BY <1>2, NoneAssumption DEF Leave, IInv, TypeOK, CallerInv, Places
<1>3. QED
  BY <1>1, <1>2 DEF Leave

\* At start no entry, no process and no call exists.
THEOREM InitIInv == Init => IInv
  BY NoneAssumption
  DEF Init, IInv, TypeOK, CallerInv, OwnerInv, NoStaleEntry,
      StopOutlivesProcess, Phases, Places

\* Every step of the manager, of a child or of a caller preserves the
\* invariant.
THEOREM NextIInv == IInv /\ [Next]_vars => IInv'
<1> SUFFICES ASSUME IInv, [Next]_vars
             PROVE  IInv'
  OBVIOUS
<1> USE DEF IInv
<1>1. ASSUME NEW h \in Handles, Exit(h)
      PROVE  IInv'
  BY <1>1, NoneAssumption
  DEF Exit, callVars, TypeOK, CallerInv, OwnerInv, NoStaleEntry,
      StopOutlivesProcess, Phases
<1>2. ASSUME NEW h \in Handles, Reap(h)
      PROVE  IInv'
  <2>1. owner[h] \in Projects
    BY <1>2 DEF Reap, OwnerInv
  <2>2. NoStaleEntry'
    BY <1>2, <2>1, NoneAssumption DEF Reap, TypeOK, NoStaleEntry
  <2>3. QED
    BY <1>2, <2>1, <2>2, NoneAssumption
    DEF Reap, callVars, TypeOK, CallerInv, OwnerInv, StopOutlivesProcess, Phases
<1>3. ASSUME NEW h \in Handles, CloseDone(h)
      PROVE  IInv'
  BY <1>3, NoneAssumption
  DEF CloseDone, callVars, TypeOK, CallerInv, OwnerInv, NoStaleEntry,
      StopOutlivesProcess, Phases
<1>4. ASSUME NEW p \in Projects, Start(p)
      PROVE  IInv'
  BY <1>4, StartRunPreserves
  DEF Start, callVars, TypeOK, CallerInv, StopOutlivesProcess, Places
<1>5. ASSUME NEW c \in Callers, NEW p \in Projects,
             NEW next \in {"return", "start"}, StopLock(c, p, next)
      PROVE  IInv'
  BY <1>5, NoneAssumption
  DEF StopLock, procVars, TypeOK, CallerInv, OwnerInv, NoStaleEntry,
      StopOutlivesProcess, Places
<1>6. ASSUME NEW c \in Callers, CallerStep(c)
      PROVE  IInv'
  <2> USE NoneAssumption
      DEF TypeOK, CallerInv, OwnerInv, NoStaleEntry, StopOutlivesProcess,
          Places, Phases
  <2>1. CASE StopUntracked(c)
    <3>1. pc[c] = "lookup" /\ Leave(c) /\ UNCHANGED <<procs, phase, owner, signal>>
      BY <2>1 DEF StopUntracked
    <3>2. unit' \in [Projects -> BOOLEAN]
      <4>1. CASE UNCHANGED unit
        BY <4>1
      <4>2. CASE unit' = [unit EXCEPT ![target[c]] = FALSE]
        BY <4>2
      <4>3. QED
        BY <2>1, <4>1, <4>2, Zenon DEF StopUntracked
    <3>3. QED
      BY <3>1, <3>2, LeavePreserves
  <2>2. CASE Terminate(c)
    BY <2>2 DEF Terminate, Send
  <2>3. CASE WaitDone(c)
    BY <2>3 DEF WaitDone, procVars
  <2>4. CASE Escalate(c)
    BY <2>4 DEF Escalate, Send
  <2>5. CASE StopClear(c)
    <3>1. pc[c] = "clear" /\ Leave(c) /\ UNCHANGED <<phase, owner, signal, unit>>
      BY <2>5 DEF StopClear
    <3>2. procs' = [procs EXCEPT ![target[c]] = None]
      BY <2>5 DEF StopClear
    <3>3. procs' \in [Projects -> Handles \cup {None}] /\ NoStaleEntry'
      BY <3>1, <3>2
    <3>4. QED
      BY <3>1, <3>3, LeavePreserves
  <2>6. CASE RestartStart(c)
    <3>1. target[c] \in Projects
      BY <2>6 DEF RestartStart
    <3>2. PICK result \in Results : StartRun(target[c], result)
      BY <2>6 DEF RestartStart
    <3>3. QED
      BY <2>6, <3>1, <3>2, StartRunPreserves DEF RestartStart
  <2>7. QED
    BY <1>6, <2>1, <2>2, <2>3, <2>4, <2>5, <2>6 DEF CallerStep
<1>7. CASE UNCHANGED vars
  BY <1>7
  DEF vars, TypeOK, CallerInv, OwnerInv, NoStaleEntry, StopOutlivesProcess
<1>8. QED
  BY <1>1, <1>2, <1>3, <1>4, <1>5, <1>6, <1>7 DEF Next, ProcStep

\* The variables of the registry always have their types.
THEOREM TypeCorrect == Spec => []TypeOK
<1>1. IInv => TypeOK
  BY DEF IInv
<1>2. QED
  BY <1>1, InitIInv, NextIInv, PTL DEF Spec

\* No registry entry outlives the Wait goroutine of its process, however many
\* calls of Start, Stop and Restart interleave: a crashed project can always be
\* started again.
THEOREM NoStaleEntryHolds == Spec => []NoStaleEntry
<1>1. IInv => NoStaleEntry
  BY DEF IInv
<1>2. QED
  BY <1>1, InitIInv, NextIInv, PTL DEF Spec

\* Stop never clears an entry before the process it signalled is gone.
THEOREM StopOutlivesProcessHolds == Spec => []StopOutlivesProcess
<1>1. IInv => StopOutlivesProcess
  BY DEF IInv
<1>2. QED
  BY <1>1, InitIInv, NextIInv, PTL DEF Spec

-----------------------------------------------------------------------------
(* Without Stop, Start alone keeps one process per project *)

\* A process whose Wait goroutine has not run is the registered one.
Registered ==
    \A h \in Handles : phase[h] \in {"live", "exited"} => procs[owner[h]] = h

\* As long as no goroutine calls Stop or Restart, concurrent starts by
\* requests, the health monitor and proxied connections, crashes and Wait
\* goroutines never leave two processes of one project, nor one that the
\* registry has lost.
THEOREM OneProcessWithoutStop ==
    ASSUME Callers = {}
    PROVE  Spec => []OneProcessPerProject
<1>1. Init => Registered
  BY DEF Init, Registered
<1>2. [Next]_vars => ProcStep \/ UNCHANGED procVars \/ \E p \in Projects : Start(p)
  BY DEF Next, vars, procVars
<1>3. ASSUME IInv, Registered, NEW h \in Handles, Exit(h) \/ Reap(h) \/ CloseDone(h)
      PROVE  Registered'
  <2>1. \A g \in Handles \ {h} : phase'[g] = phase[g]
    BY <1>3 DEF Exit, Reap, CloseDone, IInv, TypeOK
  <2>2. CASE Exit(h)
    BY <1>3, <2>1, <2>2 DEF Registered, Exit, IInv, TypeOK
  <2>3. CASE Reap(h)
    <3>1. procs[owner[h]] = h /\ owner[h] \in Projects /\ phase'[h] \notin {"live", "exited"}
      BY <1>3, <2>3 DEF Registered, Reap, IInv, TypeOK, OwnerInv
    <3>2. \A q \in Projects : procs[q] # h => procs'[q] = procs[q]
      BY <1>3, <2>3, <3>1 DEF Reap, IInv, TypeOK
    <3> QED
      BY <1>3, <2>1, <2>3, <3>1, <3>2 DEF Registered, Reap, IInv, OwnerInv
  <2>4. CASE CloseDone(h)
    BY <1>3, <2>1, <2>4 DEF Registered, CloseDone, IInv, TypeOK
  <2> QED
    BY <1>3, <2>2, <2>3, <2>4
<1>4. ASSUME IInv, Registered, NEW p \in Projects, Start(p)
      PROVE  Registered'
  <2>1. \/ procs[p] = None /\ \E h \in Handles : Spawn(p, h)
        \/ UNCHANGED <<procs, phase, owner>>
    BY <1>4 DEF Start, StartRun, StartUnit, procVars
  <2>2. ASSUME procs[p] = None, NEW h \in Handles, Spawn(p, h)
        PROVE  Registered'
    <3>1. \A g \in Handles : phase[g] \in {"live", "exited"} => owner[g] # p
      BY <1>4, <2>2, NoneAssumption DEF Registered
    <3> QED
      BY <1>4, <2>2, <3>1 DEF Registered, Spawn, Unused, IInv, TypeOK, OwnerInv
  <2> QED
    BY <1>4, <2>1, <2>2 DEF Registered
<1>5. Registered /\ UNCHANGED procVars => Registered'
  BY DEF Registered, procVars
<1>6. IInv /\ Registered /\ [Next]_vars => Registered'
  BY <1>2, <1>3, <1>4, <1>5 DEF ProcStep
<1>7. Registered => OneProcessPerProject
  BY DEF Registered, OneProcessPerProject
<1>8. QED
  BY <1>1, <1>6, <1>7, InitIInv, NextIInv, PTL DEF Spec

=============================================================================
