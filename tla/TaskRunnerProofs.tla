--------------------------- MODULE TaskRunnerProofs ---------------------------
(***************************************************************************)
(* Theorems about TaskRunner, for every number of tasks, runs and minutes. *)
(* They rest on two invariants that do not need each other: one about the  *)
(* guard and the runs that took it, one about the clock and the scheduler. *)
(***************************************************************************)
EXTENDS TaskRunner, SequenceTheorems, TLAPS

-----------------------------------------------------------------------------
(* The guard *)

\* What a manual run is: it has a task, and a goroutine that is free runs
\* nothing.
RunInv ==
    /\ running \in [Tasks -> BOOLEAN]
    /\ task \in [Runs -> Tasks \cup {None}]
    /\ by \in [Runs -> {"none", "manual", "cron"}]
    /\ place \in [Runs -> {"free"} \cup Busy]
    /\ \A r \in Runs : place[r] = "free" => by[r] = "none"
    /\ \A r \in Runs : by[r] # "none" => task[r] \in Tasks

\* The guard and the manual runs of each task, without sets.
GuardInv ==
    /\ \A r \in Runs : by[r] = "manual" => running[task[r]]
    /\ \A t \in Tasks : running[t] => \E r \in Runs : by[r] = "manual" /\ task[r] = t
    /\ \A r, s \in Runs :
          by[r] = "manual" /\ by[s] = "manual" /\ task[r] = task[s] => r = s

\* At start no task runs.
LEMMA InitGuard == Init => RunInv /\ GuardInv
<1> SUFFICES ASSUME Init PROVE RunInv /\ GuardInv
  OBVIOUS
<1>1. /\ running = [t \in Tasks |-> FALSE]
      /\ task = [r \in Runs |-> None]
      /\ by = [r \in Runs |-> "none"]
      /\ place = [r \in Runs |-> "free"]
  BY DEF Init
<1>2. QED
  BY <1>1 DEF RunInv, GuardInv

\* RunTaskNow adds the only manual run of a task whose guard was down.
LEMMA ClaimKeepsGuard ==
    ASSUME RunInv, GuardInv, NEW r \in Runs, NEW t \in Tasks, Claim(r, t)
    PROVE  (RunInv /\ GuardInv)'
<1>1. by[r] = "none" /\ ~running[t]
  BY DEF Claim, Launch, RunInv
<1>2. RunInv'
  BY DEF Claim, Launch, RunInv, Busy
<1>3. by'[r] = "manual" /\ task'[r] = t
  BY DEF Claim, Launch, RunInv
<1>4. \A s \in Runs : by[s] = "manual" => task[s] # t /\ task[s] \in Tasks
  BY <1>1 DEF RunInv, GuardInv
<1>5. running' = [running EXCEPT ![t] = TRUE]
  BY DEF Claim
<1>6. \A s \in Runs : s # r => by'[s] = by[s] /\ task'[s] = task[s]
  BY DEF Claim, Launch, RunInv
<1>7. GuardInv'
  BY <1>1, <1>2, <1>3, <1>4, <1>5, <1>6 DEF RunInv, GuardInv
<1>8. QED
  BY <1>2, <1>7

\* A run that ends takes the guard it holds with it, and no other.
LEMMA EndKeepsGuard ==
    ASSUME RunInv, GuardInv, NEW r \in Runs, place[r] # "free", End(r)
    PROVE  (RunInv /\ GuardInv)'
<1>1. RunInv'
  BY DEF End, RunInv
<1>2. by'[r] = "none" /\ \A s \in Runs : s # r => by'[s] = by[s] /\ task'[s] = task[s]
  BY DEF End, RunInv
<1>3. CASE by[r] = "manual"
  <2>1. running' = [running EXCEPT ![task[r]] = FALSE] /\ task[r] \in Tasks
    BY <1>3 DEF End, RunInv
  <2>2. QED
    BY <1>1, <1>2, <1>3, <2>1 DEF RunInv, GuardInv
<1>4. CASE by[r] # "manual"
  <2>1. running' = running
    BY <1>4 DEF End
  <2>2. QED
    BY <1>1, <1>2, <1>4, <2>1 DEF RunInv, GuardInv
<1>5. QED
  BY <1>3, <1>4

\* A firing launches a run that does not touch the guard.
LEMMA FireKeepsGuard ==
    ASSUME RunInv, GuardInv, NEW r \in Runs, NEW t \in Tasks, Fire(r, t)
    PROVE  (RunInv /\ GuardInv)'
<1>1. by[r] = "none" /\ running' = running
  BY DEF Fire, Launch, RunInv
<1>2. RunInv'
  BY DEF Fire, Launch, RunInv, Hosts, Busy
<1>3. by'[r] = "cron" /\ \A s \in Runs : s # r => by'[s] = by[s] /\ task'[s] = task[s]
  BY DEF Fire, Launch, RunInv
<1>4. QED
  BY <1>1, <1>2, <1>3 DEF RunInv, GuardInv

\* A step that only moves a run that has begun leaves the guard alone.
LEMMA MoveKeepsGuard ==
    ASSUME RunInv, GuardInv,
           UNCHANGED <<running, task, by>>,
           place' \in [Runs -> {"free"} \cup Busy],
           \A r \in Runs : place'[r] = "free" => place[r] = "free"
    PROVE  (RunInv /\ GuardInv)'
  BY DEF RunInv, GuardInv

\* Every step of a run keeps the guard.
LEMMA RunStepKeepsGuard ==
    ASSUME RunInv, GuardInv, NEW r \in Runs, RunStep(r)
    PROVE  (RunInv /\ GuardInv)'
<1>1. CASE Load(r)
  <2>1. CASE End(r)
    BY <1>1, <2>1, EndKeepsGuard DEF Load
  <2>2. CASE ~End(r)
    BY <1>1, <2>2, MoveKeepsGuard DEF Load, Hosts, RunInv, Busy
  <2>3. QED
    BY <2>1, <2>2
<1>2. CASE Finish(r)
  BY <1>2, MoveKeepsGuard DEF Finish, Outcome, RunInv, Busy
<1>3. CASE Post(r)
  BY <1>3, MoveKeepsGuard DEF Post, Outcome, RunInv, Busy
<1>4. CASE GiveUp(r)
  BY <1>4, MoveKeepsGuard DEF GiveUp, TransportError, Outcome, RunInv, Busy
<1>5. CASE Record(r)
  <2>1. CASE End(r)
    BY <1>5, <2>1, EndKeepsGuard DEF Record
  <2>2. CASE ~End(r)
    BY <1>5, <2>2, MoveKeepsGuard DEF Record, RunInv, Busy
  <2>3. QED
    BY <2>1, <2>2
<1>6. CASE Alert(r)
  BY <1>6, EndKeepsGuard DEF Alert
<1>7. QED
  BY <1>1, <1>2, <1>3, <1>4, <1>5, <1>6 DEF RunStep

\* Every step of the system keeps the guard.
THEOREM NextGuard == RunInv /\ GuardInv /\ [Next]_vars => (RunInv /\ GuardInv)'
<1> SUFFICES ASSUME RunInv, GuardInv, [Next]_vars
             PROVE  (RunInv /\ GuardInv)'
  OBVIOUS
<1>1. ASSUME NEW t \in Tasks, CreateTask(t) \/ UpdateTask(t) \/ DeleteTask(t)
      PROVE  (RunInv /\ GuardInv)'
  BY <1>1 DEF CreateTask, UpdateTask, DeleteTask, runVars, RunInv, GuardInv
<1>2. ASSUME NEW r \in Runs, NEW t \in Tasks, Claim(r, t)
      PROVE  (RunInv /\ GuardInv)'
  BY <1>2, ClaimKeepsGuard
<1>3. ASSUME NEW r \in Runs, RunStep(r)
      PROVE  (RunInv /\ GuardInv)'
  BY <1>3, RunStepKeepsGuard
<1>4. ASSUME TickRead \/ TickStamp \/ TickEnd
      PROVE  (RunInv /\ GuardInv)'
  BY <1>4 DEF TickRead, TickStamp, TickEnd, runVars, RunInv, GuardInv
<1>5. ASSUME NEW r \in Runs, NEW t \in Tasks, Fire(r, t)
      PROVE  (RunInv /\ GuardInv)'
  BY <1>5, FireKeepsGuard
<1>6. CASE AgentEnds
  <2>1. UNCHANGED <<running, task, by>>
    BY <1>6 DEF AgentEnds
  <2>2. place' = place \/ place' = [place EXCEPT ![Head(agent).waiter] = "record"]
    BY <1>6 DEF AgentEnds, Outcome
  <2>3. QED
    BY <2>1, <2>2, MoveKeepsGuard DEF RunInv, Busy
<1>7. CASE Minute
  BY <1>7 DEF Minute, runVars, RunInv, GuardInv
<1>8. CASE Crash
  BY <1>8 DEF Crash, RunInv, GuardInv
<1>9. CASE UNCHANGED vars
  BY <1>9 DEF vars, RunInv, GuardInv
<1>10. QED
  BY <1>1, <1>2, <1>3, <1>4, <1>5, <1>6, <1>7, <1>8, <1>9 DEF Next, Scheduler

\* The guard of a task is up exactly while one manual run of it is in progress,
\* for every number of tasks and of requests at once (StartTaskRun).
THEOREM GuardExactHolds == Spec => []GuardExact
<1>1. ASSUME RunInv, GuardInv
      PROVE  GuardExact
  <2>1. ASSUME NEW t \in Tasks
        PROVE  running[t] <=> Manual(t) # {}
    <3>1. \A r \in Runs : r \in Manual(t) <=> by[r] = "manual" /\ task[r] = t
      BY DEF Manual
    <3>2. running[t] => Manual(t) # {}
      BY <1>1, <2>1, <3>1 DEF GuardInv
    <3>3. ASSUME NEW r \in Manual(t)
          PROVE  running[t]
      BY <1>1, <2>1, <3>3 DEF GuardInv, Manual
    <3>4. QED
      BY <3>2, <3>3
  <2>2. \A t \in Tasks : \A r, s \in Manual(t) : r = s
    BY <1>1 DEF GuardInv, Manual
  <2>3. QED
    BY <2>1, <2>2 DEF GuardExact
<1>2. QED
  BY <1>1, InitGuard, NextGuard, PTL DEF Spec
-----------------------------------------------------------------------------
(* The scheduler and the clock *)

ClockTypeOK ==
    /\ table \in [Tasks -> {"new", "on", "off", "deleted"}]
    /\ cron \in [Tasks -> Crons]
    /\ lastFired \in [Tasks -> Minutes \cup {None}]
    /\ fired \in [Tasks -> [Minutes -> Nat]]
    /\ now \in Minutes
    /\ edited \subseteq Tasks

\* lastFired tells whether a task has fired in this minute; nothing has fired
\* in a later one, and nothing twice.
FiredInv ==
    /\ \A t \in Tasks : \A m \in Minutes :
          fired[t][m] <= 1 /\ (fired[t][m] > 0 => m <= now)
    /\ \A t \in Tasks : lastFired[t] = now <=> fired[t][now] > 0
    /\ \A t \in Tasks : lastFired[t] # None => lastFired[t] <= now

\* What the pass has read of a row in this minute is what the row says, unless
\* it was written since; and a whole pass has fired what matches.
ScanInv ==
    /\ readAt # None => readAt \in Minutes /\ readAt <= now
    /\ readAt = now => \A t \in Tasks :
          table[t] = "on" /\ t \notin edited => scan[t] = cron[t]
    /\ passed => \A t \in Tasks :
          table[t] = "on" /\ now \in cron[t] /\ t \notin edited => fired[t][now] > 0

ClockInv == ClockTypeOK /\ FiredInv /\ ScanInv

\* At start nothing has fired or was read.
LEMMA InitClock == Init => ClockInv
<1> SUFFICES ASSUME Init PROVE ClockInv
  OBVIOUS
<1>1. 0 \in Minutes /\ None \notin Minutes
  BY TaskAssumption DEF Minutes
<1>2. now = 0 /\ readAt = None /\ passed = FALSE /\ edited = {}
  BY DEF Init
<1>3. lastFired = [t \in Tasks |-> None]
  BY DEF Init
<1>4. fired = [t \in Tasks |-> [m \in Minutes |-> 0]]
  BY DEF Init
<1>5. ClockTypeOK
  <2>1. table \in [Tasks -> {"new", "on", "off", "deleted"}]
    BY DEF Init
  <2>2. cron \in [Tasks -> Crons]
    BY DEF Init
  <2>3. lastFired \in [Tasks -> Minutes \cup {None}]
    BY <1>3
  <2>4. fired \in [Tasks -> [Minutes -> Nat]]
    BY <1>4
  <2>5. QED
    BY <1>1, <1>2, <2>1, <2>2, <2>3, <2>4 DEF ClockTypeOK
<1>6. FiredInv
  BY <1>1, <1>2, <1>3, <1>4 DEF FiredInv
<1>7. ScanInv
  BY <1>1, <1>2 DEF ScanInv
<1>8. QED
  BY <1>5, <1>6, <1>7 DEF ClockInv

\* The scheduler's look at the clock fires what it read and what has not fired.
LEMMA TickStampClock ==
    ASSUME ClockInv, TickStamp
    PROVE  ClockInv'
<1>1. /\ table' = table /\ cron' = cron /\ now' = now /\ edited' = edited
      /\ readAt' = None
      /\ passed' = (passed \/ readAt = now)
  BY DEF TickStamp, rowVars
<1>2. \A t \in Tasks : t \in due' <=> now \in scan[t] /\ lastFired[t] # now
  BY DEF TickStamp
<1>3. lastFired' = [t \in Tasks |-> IF t \in due' THEN now ELSE lastFired[t]]
  BY DEF TickStamp
<1>4. fired' = [t \in Tasks |->
                  IF t \in due' THEN [fired[t] EXCEPT ![now] = @ + 1] ELSE fired[t]]
  BY DEF TickStamp
<1>5. now \in Minutes /\ now \in Nat /\ Minutes \subseteq Nat /\ None \notin Minutes
  BY TaskAssumption DEF ClockInv, ClockTypeOK, Minutes
<1>6. ASSUME NEW t \in Tasks
      PROVE  /\ fired'[t] \in [Minutes -> Nat]
             /\ \A m \in Minutes : m # now => fired'[t][m] = fired[t][m]
             /\ t \in due' => fired'[t][now] = fired[t][now] + 1
             /\ t \notin due' => fired'[t][now] = fired[t][now]
  <2>1. fired[t] \in [Minutes -> Nat]
    BY <1>6 DEF ClockInv, ClockTypeOK
  <2>2. QED
    BY <1>4, <1>5, <1>6, <2>1
<1>7. ASSUME NEW t \in Tasks
      PROVE  fired[t] \in [Minutes -> Nat] /\ fired[t][now] \in Nat
  BY <1>5, <1>7 DEF ClockInv, ClockTypeOK
<1>8. ClockTypeOK'
  <2>1. fired' \in [Tasks -> [Minutes -> Nat]]
    BY <1>4, <1>6
  <2>2. lastFired' \in [Tasks -> Minutes \cup {None}]
    BY <1>3, <1>5 DEF ClockInv, ClockTypeOK
  <2>3. QED
    BY <1>1, <2>1, <2>2 DEF ClockInv, ClockTypeOK
<1>9. ASSUME NEW t \in Tasks, t \in due'
      PROVE  fired[t][now] = 0
  BY <1>2, <1>7, <1>9 DEF ClockInv, FiredInv
<1>10. FiredInv'
  <2>1. ASSUME NEW t \in Tasks, NEW m \in Minutes
        PROVE  fired'[t][m] <= 1 /\ (fired'[t][m] > 0 => m <= now)
    <3>1. CASE m = now
      BY <1>5, <1>6, <1>7, <1>9, <2>1, <3>1 DEF ClockInv, FiredInv
    <3>2. CASE m # now
      BY <1>6, <2>1, <3>2 DEF ClockInv, FiredInv
    <3>3. QED
      BY <3>1, <3>2
  <2>2. ASSUME NEW t \in Tasks
        PROVE  lastFired'[t] = now <=> fired'[t][now] > 0
    BY <1>3, <1>6, <1>7, <2>2 DEF ClockInv, FiredInv
  <2>3. ASSUME NEW t \in Tasks, lastFired'[t] # None
        PROVE  lastFired'[t] <= now
    BY <1>3, <1>5, <2>3 DEF ClockInv, FiredInv
  <2>4. QED
    BY <1>1, <2>1, <2>2, <2>3 DEF FiredInv
<1>11. ScanInv'
  <2>1. ASSUME passed \/ readAt = now,
               NEW t \in Tasks, table[t] = "on", now \in cron[t], t \notin edited
        PROVE  fired'[t][now] > 0
    <3>1. CASE passed
      BY <1>6, <1>7, <2>1, <3>1 DEF ClockInv, ScanInv
    <3>2. CASE readAt = now
      <4>1. now \in scan[t]
        BY <2>1, <3>2 DEF ClockInv, ScanInv
      <4>2. t \in due' \/ fired[t][now] > 0
        BY <1>2, <2>1, <4>1 DEF ClockInv, FiredInv
      <4>3. QED
        BY <1>6, <1>7, <2>1, <4>2
    <3>3. QED
      BY <2>1, <3>1, <3>2
  <2>2. QED
    BY <1>1, <1>5, <2>1 DEF ScanInv
<1>12. QED
  BY <1>8, <1>10, <1>11 DEF ClockInv

\* An edit of a row marks it as written in this minute.
LEMMA EditClock ==
    ASSUME ClockInv, NEW t \in Tasks, CreateTask(t) \/ UpdateTask(t) \/ DeleteTask(t)
    PROVE  ClockInv'
<1>1. /\ UNCHANGED <<lastFired, fired, now, scan, readAt, passed>>
      /\ edited' = edited \cup {t}
  BY DEF CreateTask, UpdateTask, DeleteTask, passVars
<1>2. \A u \in Tasks : u # t => table'[u] = table[u] /\ cron'[u] = cron[u]
  BY DEF CreateTask, UpdateTask, DeleteTask, ClockInv, ClockTypeOK
<1>3. /\ table' \in [Tasks -> {"new", "on", "off", "deleted"}]
      /\ cron' \in [Tasks -> Crons]
  <2>1. /\ table \in [Tasks -> {"new", "on", "off", "deleted"}]
        /\ cron \in [Tasks -> Crons]
    BY DEF ClockInv, ClockTypeOK
  <2>2. CASE CreateTask(t)
    BY <2>1, <2>2 DEF CreateTask
  <2>3. CASE UpdateTask(t)
    BY <2>1, <2>3 DEF UpdateTask
  <2>4. CASE DeleteTask(t)
    BY <2>1, <2>4 DEF DeleteTask
  <2>5. QED
    BY <2>2, <2>3, <2>4
<1>4. ClockTypeOK'
  <2>1. edited' \subseteq Tasks /\ ClockTypeOK
    BY <1>1 DEF ClockInv, ClockTypeOK
  <2>2. QED
    BY <1>1, <1>3, <2>1 DEF ClockTypeOK
<1>5. FiredInv'
  BY <1>1 DEF ClockInv, FiredInv
<1>6. ScanInv'
  BY <1>1, <1>2 DEF ClockInv, ScanInv
<1>7. QED
  BY <1>4, <1>5, <1>6 DEF ClockInv

\* A new minute: nothing has fired in it, nothing was read in it.
LEMMA MinuteClock ==
    ASSUME ClockInv, Minute
    PROVE  ClockInv'
<1>1. /\ UNCHANGED <<table, cron, lastFired, fired, readAt>>
      /\ edited' = {} /\ passed' = FALSE /\ now' = now + 1
  BY DEF Minute, rowVars, passVars
<1>2. /\ now \in Nat /\ now' \in Minutes /\ None \notin Minutes
      /\ \A m \in Minutes : m \in Nat
  BY <1>1, TaskAssumption DEF Minute, ClockInv, ClockTypeOK, Minutes
<1>3. ClockTypeOK'
  BY <1>1, <1>2 DEF ClockInv, ClockTypeOK
<1>4. FiredInv'
  <2>1. ASSUME NEW t \in Tasks
        PROVE  fired[t][now + 1] = 0 /\ lastFired[t] # now + 1
    <3>1. fired[t][now + 1] \in Nat
      BY <1>1, <1>2 DEF ClockInv, ClockTypeOK
    <3>2. ~(fired[t][now + 1] > 0)
      BY <1>1, <1>2 DEF ClockInv, FiredInv
    <3>3. lastFired[t] # now + 1
      BY <1>1, <1>2 DEF ClockInv, FiredInv, ClockTypeOK
    <3>4. QED
      BY <3>1, <3>2, <3>3
  <2>2. ASSUME NEW t \in Tasks, NEW m \in Minutes
        PROVE  fired[t][m] <= 1 /\ (fired[t][m] > 0 => m <= now + 1)
    BY <1>2, <2>2 DEF ClockInv, FiredInv
  <2>3. ASSUME NEW t \in Tasks, lastFired[t] # None
        PROVE  lastFired[t] <= now + 1
    <3>1. lastFired[t] \in Nat /\ lastFired[t] <= now
      BY <1>2, <2>3 DEF ClockInv, FiredInv, ClockTypeOK
    <3>2. QED
      BY <1>2, <3>1
  <2>4. \A t \in Tasks : \A m \in Minutes :
          fired'[t][m] <= 1 /\ (fired'[t][m] > 0 => m <= now')
    BY <1>1, <2>2
  <2>5. \A t \in Tasks : lastFired'[t] = now' <=> fired'[t][now'] > 0
    BY <1>1, <2>1
  <2>6. \A t \in Tasks : lastFired'[t] # None => lastFired'[t] <= now'
    BY <1>1, <2>3
  <2>7. QED
    BY <2>4, <2>5, <2>6 DEF FiredInv
<1>5. ScanInv'
  <2>1. readAt # None => readAt \in Minutes /\ readAt <= now
    BY DEF ClockInv, ScanInv
  <2>2. readAt # now + 1
    <3>1. CASE readAt = None
      BY <3>1, <1>1, <1>2
    <3>2. CASE readAt # None
      <4>1. readAt \in Nat /\ readAt <= now
        BY <2>1, <3>2, <1>2
      <4>2. QED
        BY <4>1, <1>2
    <3>3. QED
      BY <3>1, <3>2
  <2>3. readAt # None => readAt <= now + 1
    <3>1. SUFFICES ASSUME readAt # None
                   PROVE  readAt <= now + 1
      OBVIOUS
    <3>2. readAt \in Nat /\ readAt <= now
      BY <2>1, <3>1, <1>2
    <3>3. QED
      BY <3>2, <1>2
  <2>4. readAt' = readAt /\ now' = now + 1 /\ ~passed' /\ Minutes' = Minutes
    BY <1>1 DEF Minutes
  <2>5. QED
    BY <2>1, <2>2, <2>3, <2>4 DEF ScanInv
<1>6. QED
  BY <1>3, <1>4, <1>5 DEF ClockInv

\* Every step of the system keeps the invariant of the clock.
THEOREM NextClock == ClockInv /\ [Next]_vars => ClockInv'
<1> SUFFICES ASSUME ClockInv, [Next]_vars
             PROVE  ClockInv'
  OBVIOUS
<1>1. ASSUME UNCHANGED <<table, cron, lastFired, fired, now, edited, readAt, scan, passed>>
      PROVE  ClockInv'
  BY <1>1 DEF ClockInv, ClockTypeOK, FiredInv, ScanInv
<1>2. ASSUME NEW t \in Tasks, CreateTask(t) \/ UpdateTask(t) \/ DeleteTask(t)
      PROVE  ClockInv'
  BY <1>2, EditClock
<1>3. ASSUME NEW r \in Runs, NEW t \in Tasks, Claim(r, t) \/ Fire(r, t)
      PROVE  ClockInv'
  BY <1>1, <1>3 DEF Claim, Fire, rowVars, passVars, history
<1>4. ASSUME NEW r \in Runs, RunStep(r)
      PROVE  ClockInv'
  BY <1>1, <1>4 DEF RunStep, Load, Finish, Post, GiveUp, Record, Alert, rowVars,
                    passVars, history
<1>5. CASE TickRead
  <2>1. /\ UNCHANGED <<table, cron, lastFired, fired, now, edited, passed>>
        /\ readAt' = now
        /\ \A t \in Tasks : table[t] = "on" => scan'[t] = cron[t]
    BY <1>5 DEF TickRead, rowVars
  <2>2. now \in Minutes /\ now <= now
    BY TaskAssumption DEF ClockInv, ClockTypeOK, Minutes
  <2>3. QED
    BY <2>1, <2>2 DEF ClockInv, ClockTypeOK, FiredInv, ScanInv
<1>6. CASE TickStamp
  BY <1>6, TickStampClock
<1>7. CASE TickEnd \/ AgentEnds
  BY <1>1, <1>7 DEF TickEnd, AgentEnds, rowVars, passVars, history
<1>8. CASE Minute
  BY <1>8, MinuteClock
<1>9. CASE Crash
  <2>1. /\ UNCHANGED <<table, cron, now, edited>>
        /\ lastFired' = [t \in Tasks |-> None]
        /\ fired' = [t \in Tasks |-> [m \in Minutes |-> 0]]
        /\ readAt' = None /\ passed' = FALSE
    BY <1>9 DEF Crash, rowVars
  <2>2. now \in Minutes /\ None \notin Minutes
    BY TaskAssumption DEF ClockInv, ClockTypeOK, Minutes
  <2>3. QED
    BY <2>1, <2>2 DEF ClockInv, ClockTypeOK, FiredInv, ScanInv
<1>10. CASE UNCHANGED vars
  BY <1>1, <1>10 DEF vars
<1>11. QED
  BY <1>2, <1>3, <1>4, <1>5, <1>6, <1>7, <1>8, <1>9, <1>10 DEF Next, Scheduler

\* cronTickOnce fires a task at most once for a minute, for every number of
\* tasks, passes and minutes between two starts of the server.
THEOREM OncePerMinuteHolds == Spec => []OncePerMinute
<1>1. ClockInv => OncePerMinute
  BY DEF ClockInv, FiredInv, OncePerMinute
<1>2. QED
  BY <1>1, InitClock, NextClock, PTL DEF Spec

\* A minute in which a whole pass was made does not end before cronTickOnce
\* has fired everything that matches it and was not written meanwhile.
THEOREM NoMissedMinuteHolds == Spec => NoMissedMinute
<1>1. ClockInv /\ [Next]_vars =>
        [now' # now /\ passed => \A t \in Tasks :
            table[t] = "on" /\ now \in cron[t] /\ t \notin edited
                => fired[t][now] > 0]_vars
  BY DEF ClockInv, ScanInv
<1>2. QED
  BY <1>1, InitClock, NextClock, PTL DEF Spec, NoMissedMinute

-----------------------------------------------------------------------------
(* Types, which need to know who waits for the agent *)

Request == [task : Tasks, waiter : Runs \cup {None}]

\* A run has used up its attempts only as far as its place says, and has an
\* outcome when it is about to record one.
AttemptInv ==
    /\ tries \in [Runs -> 0 .. 2]
    /\ outcome \in [Runs -> {"none", "success"} \cup Failures]
    /\ \A r \in Runs : place[r] \in {"free", "load", "exec"} => tries[r] = 0
    /\ \A r \in Runs : place[r] = "post" => tries[r] < 2
    /\ \A r \in Runs : place[r] \in {"record", "alert"} => outcome[r] # "none"

\* A request in the agent answers at most one run, which waits for this request
\* and for no other: an answer never reaches a run that has gone on.
AgentInv ==
    /\ agent \in Seq(Request)
    /\ \A i \in 1 .. Len(agent) : agent[i].waiter # None =>
          /\ place[agent[i].waiter] = "posted"
          /\ task[agent[i].waiter] = agent[i].task
    /\ \A i, j \in 1 .. Len(agent) :
          agent[i].waiter = agent[j].waiter /\ agent[i].waiter # None => i = j
    /\ \A r \in Runs : place[r] = "posted" => \E i \in 1 .. Len(agent) : agent[i].waiter = r
    /\ \A r \in Runs : place[r] # "free" => task[r] \in Tasks

\* What is left of the scheduler's variables.
PassTypeOK ==
    /\ last \in [Tasks -> {"", "success"} \cup Failures]
    /\ pass \in {"off", "read", "fire"}
    /\ scan \in [Tasks -> SUBSET Minutes]
    /\ due \subseteq Tasks
    /\ crashes \in 0 .. MaxCrashes
    /\ passed \in BOOLEAN

AllInv == RunInv /\ GuardInv /\ ClockInv /\ AttemptInv /\ AgentInv /\ PassTypeOK

\* What the steps below preserve; the guard is not needed.
WaitInv == RunInv /\ AttemptInv /\ AgentInv

\* At start no run has begun and the agent has nothing.
LEMMA InitWait == Init => WaitInv /\ PassTypeOK
<1> SUFFICES ASSUME Init PROVE WaitInv /\ PassTypeOK
  OBVIOUS
<1>1. RunInv
  BY InitGuard
<1>2. /\ place = [r \in Runs |-> "free"]
      /\ tries = [r \in Runs |-> 0]
      /\ outcome = [r \in Runs |-> "none"]
      /\ agent = <<>>
  BY DEF Init
<1>3. AttemptInv
  BY <1>2 DEF AttemptInv
<1>4. AgentInv
  <2>1. <<>> \in Seq(Request) /\ Len(<<>>) = 0
    BY EmptySeq
  <2>2. QED
    BY <1>2, <2>1 DEF AgentInv
<1>5. PassTypeOK
  <2>1. crashes = 0 /\ pass = "off" /\ due = {} /\ passed = FALSE
    BY DEF Init
  <2>2. last = [t \in Tasks |-> ""] /\ scan = [t \in Tasks |-> {}]
    BY DEF Init
  <2>3. /\ last \in [Tasks -> {"", "success"} \cup Failures]
        /\ scan \in [Tasks -> SUBSET Minutes]
    BY <2>2
  <2>4. crashes \in 0 .. MaxCrashes
    BY <2>1, TaskAssumption
  <2>5. QED
    BY <2>1, <2>3, <2>4 DEF PassTypeOK
<1>6. QED
  BY <1>1, <1>3, <1>4, <1>5 DEF WaitInv

\* What a request in the agent is.
LEMMA RequestType ==
    ASSUME AgentInv, NEW i \in 1 .. Len(agent)
    PROVE  agent[i] \in Request /\ agent[i].task \in Tasks /\ agent[i].waiter \in Runs \cup {None}
<1>1. agent[i] \in Request
  BY ElementOfSeq DEF AgentInv
<1>2. QED
  BY <1>1 DEF Request

\* A step that touches neither the agent nor runs that wait for it, and leaves
\* a task to each run that is not free, leaves the requests alone.
LEMMA AgentUntouched ==
    ASSUME AgentInv, agent' = agent,
           NEW r \in Runs, place[r] # "posted", place'[r] # "posted",
           place'[r] # "free" => task'[r] \in Tasks,
           \A s \in Runs : s # r => place'[s] = place[s] /\ task'[s] = task[s]
    PROVE  AgentInv'
<1>1. \A i \in 1 .. Len(agent) : agent[i].waiter \in Runs \cup {None}
  BY RequestType
<1>2. \A i \in 1 .. Len(agent) : agent[i].waiter # None =>
          agent[i].waiter \in Runs /\ agent[i].waiter # r
  BY <1>1 DEF AgentInv
<1>3. \A s \in Runs : place'[s] = "posted" => s # r /\ place[s] = "posted"
  OBVIOUS
<1>4. QED
  BY <1>2, <1>3 DEF AgentInv, Request

\* Ending, launching and moving a run that does not wait keep the requests.
LEMMA EndKeepsWait ==
    ASSUME WaitInv, NEW r \in Runs, place[r] \notin {"free", "posted"}, End(r), agent' = agent
    PROVE  AttemptInv' /\ AgentInv'
<1>1. /\ place' = [place EXCEPT ![r] = "free"]
      /\ task' = [task EXCEPT ![r] = None]
      /\ tries' = [tries EXCEPT ![r] = 0]
      /\ outcome' = [outcome EXCEPT ![r] = "none"]
  BY DEF End
<1>2. AttemptInv'
  BY <1>1 DEF WaitInv, RunInv, AttemptInv
<1>3. place'[r] = "free" /\ \A s \in Runs : s # r => place'[s] = place[s] /\ task'[s] = task[s]
  BY <1>1 DEF WaitInv, RunInv
<1>4. AgentInv'
  BY <1>3, AgentUntouched DEF WaitInv
<1>5. QED
  BY <1>2, <1>4

LEMMA LaunchKeepsWait ==
    ASSUME WaitInv, NEW r \in Runs, NEW t \in Tasks, NEW who, NEW where \in {"load", "exec", "post"},
           Launch(r, t, who, where), agent' = agent
    PROVE  AttemptInv' /\ AgentInv'
<1>1. /\ place[r] = "free"
      /\ place' = [place EXCEPT ![r] = where]
      /\ task' = [task EXCEPT ![r] = t]
      /\ tries' = tries /\ outcome' = outcome
  BY DEF Launch
<1>2. AttemptInv'
  BY <1>1 DEF WaitInv, RunInv, AttemptInv
<1>3. /\ place'[r] = where /\ task'[r] = t
      /\ \A s \in Runs : s # r => place'[s] = place[s] /\ task'[s] = task[s]
  BY <1>1 DEF WaitInv, RunInv
<1>4. AgentInv'
  BY <1>1, <1>3, AgentUntouched DEF WaitInv
<1>5. QED
  BY <1>2, <1>4

LEMMA MoveKeepsWait ==
    ASSUME WaitInv, NEW r \in Runs, NEW to \in Busy \ {"posted"},
           place[r] \notin {"free", "posted"},
           place' = [place EXCEPT ![r] = to], task' = task, agent' = agent
    PROVE  AgentInv'
<1>1. place'[r] = to /\ \A s \in Runs : s # r => place'[s] = place[s]
  BY DEF WaitInv, RunInv
<1>2. to # "free" /\ to # "posted"
  BY DEF Busy
<1>3. task[r] \in Tasks
  BY DEF WaitInv, AgentInv
<1>4. QED
  BY <1>1, <1>2, <1>3, AgentUntouched DEF WaitInv

\* A request that the agent gets is the only one of its run.
LEMMA PostKeepsWait ==
    ASSUME WaitInv, NEW r \in Runs, Post(r)
    PROVE  AttemptInv' /\ AgentInv'
<1>1. /\ place[r] = "post" /\ tries[r] \in 0 .. 1 /\ task[r] \in Tasks
      /\ tries' = [tries EXCEPT ![r] = @ + 1] /\ task' = task
  BY DEF Post, WaitInv, AttemptInv, AgentInv
<1>2. tries'[r] = tries[r] + 1 /\ tries' \in [Runs -> 0 .. 2]
  BY <1>1 DEF WaitInv, AttemptInv
<1>3. CASE /\ tries'[r] < 2 /\ UNCHANGED <<place, outcome>> /\ agent' = agent
  <2>1. AttemptInv'
    BY <1>1, <1>2, <1>3 DEF WaitInv, AttemptInv
  <2>2. QED
    BY <1>1, <1>3, <2>1 DEF WaitInv, AgentInv
<1>4. CASE Outcome(r, "failed") /\ agent' = agent
  <2>1. /\ place' = [place EXCEPT ![r] = "record"]
        /\ outcome' = [outcome EXCEPT ![r] = "failed"]
    BY <1>4 DEF Outcome
  <2>2. AttemptInv'
    BY <1>1, <1>2, <2>1 DEF WaitInv, RunInv, AttemptInv, Failures
  <2>3. AgentInv'
    BY <1>1, <1>4, <2>1, MoveKeepsWait DEF Busy
  <2>4. QED
    BY <2>2, <2>3
<1>5. CASE /\ agent' = Append(agent, [task |-> task[r], waiter |-> r])
           /\ place' = [place EXCEPT ![r] = "posted"]
           /\ UNCHANGED outcome
  <2> DEFINE new == [task |-> task[r], waiter |-> r]
  <2>1. AttemptInv'
    BY <1>1, <1>2, <1>5 DEF WaitInv, RunInv, AttemptInv
  <2>2. new \in Request /\ new.waiter = r /\ new.task = task[r] /\ r # None
    BY <1>1, TaskAssumption DEF Request
  <2>3. agent \in Seq(Request) /\ Len(agent) \in Nat
    BY LenProperties DEF WaitInv, AgentInv
  <2>4. /\ agent' \in Seq(Request) /\ Len(agent') = Len(agent) + 1
        /\ agent'[Len(agent) + 1] = new
        /\ \A i \in 1 .. Len(agent) : agent'[i] = agent[i]
    BY <1>5, <2>2, <2>3, AppendProperties
  <2>5. \A i \in 1 .. Len(agent) : agent[i].waiter # r
    BY <1>1, <2>2 DEF WaitInv, AgentInv
  <2>6. \A i \in 1 .. Len(agent') : i = Len(agent) + 1 \/ i \in 1 .. Len(agent)
    BY <2>3, <2>4
  <2>7. place'[r] = "posted" /\ \A s \in Runs : s # r => place'[s] = place[s]
    BY <1>5 DEF WaitInv, RunInv
  <2>8. \A i \in 1 .. Len(agent) : agent[i].waiter \in Runs \cup {None}
    BY RequestType DEF WaitInv
  <2>9. \A i \in 1 .. Len(agent') : agent'[i].waiter # None =>
          place'[agent'[i].waiter] = "posted" /\ task[agent'[i].waiter] = agent'[i].task
    BY <2>2, <2>4, <2>5, <2>6, <2>7, <2>8 DEF WaitInv, AgentInv
  <2>10. \A i, j \in 1 .. Len(agent') :
          agent'[i].waiter = agent'[j].waiter /\ agent'[i].waiter # None => i = j
    BY <2>2, <2>4, <2>5, <2>6 DEF WaitInv, AgentInv
  <2>11. \A s \in Runs : place'[s] = "posted" => \E i \in 1 .. Len(agent') : agent'[i].waiter = s
    <3>1. SUFFICES ASSUME NEW s \in Runs, s # r, place'[s] = "posted"
                   PROVE  \E i \in 1 .. Len(agent') : agent'[i].waiter = s
      BY <2>2, <2>3, <2>4
    <3>2. PICK i \in 1 .. Len(agent) : agent[i].waiter = s
      BY <2>7, <3>1 DEF WaitInv, AgentInv
    <3>3. QED
      BY <2>3, <2>4, <3>2
  <2>12. \A s \in Runs : place'[s] # "free" => task'[s] \in Tasks
    BY <1>1, <2>7 DEF WaitInv, AgentInv
  <2>13. AgentInv'
    BY <1>1, <2>4, <2>9, <2>10, <2>11, <2>12 DEF AgentInv, Request
  <2>14. QED
    BY <2>1, <2>13
<1>6. QED
  BY <1>3, <1>4, <1>5 DEF Post

\* Requests that are changed one by one stay as many.
LEMMA Changed ==
    ASSUME NEW q \in Seq(Request), NEW f, f = [i \in DOMAIN q |-> f[i]],
           \A i \in DOMAIN q : f[i] \in Request
    PROVE  f \in Seq(Request) /\ Len(f) = Len(q) /\ DOMAIN q = 1 .. Len(q)
<1>1. DOMAIN q = 1 .. Len(q) /\ Len(q) \in Nat
  BY LenProperties
<1>2. f \in [1 .. Len(q) -> Request]
  BY <1>1
<1>3. QED
  BY <1>1, <1>2

\* A request that is given up stays in the agent, and nobody waits for it.
LEMMA GiveUpKeepsWait ==
    ASSUME WaitInv, NEW r \in Runs, GiveUp(r)
    PROVE  AttemptInv' /\ AgentInv'
<1>1. /\ place[r] = "posted" /\ task' = task /\ tries' = tries /\ r # None
      /\ task[r] \in Tasks
  BY TaskAssumption DEF GiveUp, WaitInv, AgentInv
<1>2. PICK to \in {"post", "record"} :
        /\ place' = [place EXCEPT ![r] = to]
        /\ to = "post" => tries[r] < 2 /\ outcome' = outcome
        /\ to = "record" => outcome' = [outcome EXCEPT ![r] = "failed"]
  BY DEF GiveUp, TransportError, Outcome
<1>3. place'[r] = to /\ \A s \in Runs : s # r => place'[s] = place[s]
  BY <1>2 DEF WaitInv, RunInv
<1>4. AttemptInv'
  BY <1>1, <1>2, <1>3 DEF WaitInv, AttemptInv, Failures
<1>5. /\ agent' \in Seq(Request) /\ Len(agent') = Len(agent)
      /\ \A i \in 1 .. Len(agent) :
            /\ agent'[i].task = agent[i].task
            /\ agent'[i].waiter = IF agent[i].waiter = r THEN None ELSE agent[i].waiter
  <2>1. agent' = [i \in DOMAIN agent |->
          IF agent[i].waiter = r THEN [agent[i] EXCEPT !.waiter = None] ELSE agent[i]]
    BY DEF GiveUp
  <2>2. agent \in Seq(Request) /\ \A i \in DOMAIN agent : agent[i] \in Request
    BY RequestType, LenProperties DEF WaitInv, AgentInv
  <2>3. \A i \in DOMAIN agent :
          /\ agent'[i] \in Request
          /\ agent'[i].task = agent[i].task
          /\ agent'[i].waiter = IF agent[i].waiter = r THEN None ELSE agent[i].waiter
    BY <2>1, <2>2 DEF Request
  <2>4. QED
    BY <2>1, <2>2, <2>3, Changed
<1>6. \A i \in 1 .. Len(agent) : agent[i].waiter \in Runs \cup {None}
  BY RequestType DEF WaitInv
<1>7. \A s \in Runs : place'[s] = "posted" => s # r /\ place[s] = "posted"
  BY <1>3
<1>8. AgentInv'
  <2>1. \A i \in 1 .. Len(agent') : agent'[i].waiter # None =>
          /\ agent'[i].waiter = agent[i].waiter
          /\ agent[i].waiter \in Runs \ {r}
    BY <1>1, <1>5, <1>6
  <2>2. \A i \in 1 .. Len(agent') : agent'[i].waiter # None =>
          place'[agent'[i].waiter] = "posted" /\ task'[agent'[i].waiter] = agent'[i].task
    BY <1>1, <1>3, <1>5, <2>1 DEF WaitInv, AgentInv
  <2>3. \A i, j \in 1 .. Len(agent') :
          agent'[i].waiter = agent'[j].waiter /\ agent'[i].waiter # None => i = j
    BY <1>5, <2>1 DEF WaitInv, AgentInv
  <2>4. \A s \in Runs : place'[s] = "posted" => \E i \in 1 .. Len(agent') : agent'[i].waiter = s
    <3>1. SUFFICES ASSUME NEW s \in Runs, s # r, place[s] = "posted"
                   PROVE  \E i \in 1 .. Len(agent') : agent'[i].waiter = s
      BY <1>7
    <3>2. PICK i \in 1 .. Len(agent) : agent[i].waiter = s
      BY <3>1 DEF WaitInv, AgentInv
    <3>3. QED
      BY <1>5, <3>1, <3>2
  <2>5. \A s \in Runs : place'[s] # "free" => task'[s] \in Tasks
    BY <1>1, <1>3 DEF WaitInv, AgentInv
  <2>6. QED
    BY <1>5, <2>2, <2>3, <2>4, <2>5 DEF AgentInv
<1>9. QED
  BY <1>4, <1>8

\* The answer goes to the run that waits for it, which has no other request.
LEMMA AnswerKeepsWait ==
    ASSUME WaitInv, AgentEnds
    PROVE  AttemptInv' /\ AgentInv'
<1> DEFINE r == Head(agent).waiter
<1>1. /\ agent \in Seq(Request) /\ agent # <<>> /\ agent' = Tail(agent)
      /\ task' = task /\ tries' = tries
  BY DEF AgentEnds, WaitInv, AgentInv
<1>2. /\ Head(agent) = agent[1] /\ Len(agent) \in Nat /\ 1 \in 1 .. Len(agent)
  BY <1>1, EmptySeq
<1>3. /\ agent' \in Seq(Request) /\ Len(agent') = Len(agent) - 1
      /\ \A i \in 1 .. Len(agent') : i + 1 \in 1 .. Len(agent) /\ agent'[i] = agent[i + 1]
  BY <1>1, <1>2, HeadTailProperties
<1>4. \A i \in 1 .. Len(agent) : agent[i].waiter \in Runs \cup {None}
  BY RequestType DEF WaitInv
<1>5. r \in Runs \cup {None} /\ None \notin Runs
  BY <1>2, <1>4, TaskAssumption
<1>6. \A i \in 1 .. Len(agent') : agent'[i].waiter # None => agent'[i].waiter # r
  <2>1. SUFFICES ASSUME NEW i \in 1 .. Len(agent'), agent'[i].waiter # None, agent'[i].waiter = r
                 PROVE  FALSE
    OBVIOUS
  <2>2. i + 1 \in 1 .. Len(agent) /\ agent[i + 1].waiter = agent[1].waiter
    BY <1>2, <1>3, <2>1
  <2>3. i + 1 = 1
    BY <1>2, <1>3, <2>1, <2>2 DEF WaitInv, AgentInv
  <2>4. QED
    BY <1>3, <2>1, <2>3
<1>7. \A i \in 1 .. Len(agent) : i = 1 \/ (i - 1 \in 1 .. Len(agent') /\ agent'[i - 1] = agent[i])
  BY <1>2, <1>3
<1>8. \A i, j \in 1 .. Len(agent') :
        agent'[i].waiter = agent'[j].waiter /\ agent'[i].waiter # None => i = j
  <2>1. SUFFICES ASSUME NEW i \in 1 .. Len(agent'), NEW j \in 1 .. Len(agent'),
                        agent'[i].waiter = agent'[j].waiter, agent'[i].waiter # None
                 PROVE  i = j
    OBVIOUS
  <2>2. i + 1 = j + 1
    BY <1>3, <2>1 DEF WaitInv, AgentInv
  <2>3. QED
    BY <1>3, <2>1, <2>2
<1>9. CASE r = None /\ UNCHANGED <<place, outcome>>
  <2>1. AttemptInv'
    BY <1>1, <1>9 DEF WaitInv, AttemptInv
  <2>2. \A s \in Runs : place[s] = "posted" => \E i \in 1 .. Len(agent') : agent'[i].waiter = s
    <3>1. SUFFICES ASSUME NEW s \in Runs, place[s] = "posted"
                   PROVE  \E i \in 1 .. Len(agent') : agent'[i].waiter = s
      OBVIOUS
    <3>2. PICK i \in 1 .. Len(agent) : agent[i].waiter = s
      BY <3>1 DEF WaitInv, AgentInv
    <3>3. i # 1
      BY <1>2, <1>5, <1>9, <3>1, <3>2
    <3>4. QED
      BY <1>7, <3>2, <3>3
  <2>3. AgentInv'
    BY <1>1, <1>3, <1>8, <1>9, <2>2 DEF WaitInv, AgentInv, Request
  <2>4. QED
    BY <2>1, <2>3
<1>10. ASSUME r # None, NEW o \in {"success", "failed"}, Outcome(r, o)
       PROVE  AttemptInv' /\ AgentInv'
  <2>1. /\ r \in Runs /\ place[r] = "posted"
        /\ place' = [place EXCEPT ![r] = "record"]
        /\ outcome' = [outcome EXCEPT ![r] = o]
    BY <1>2, <1>5, <1>10 DEF Outcome, WaitInv, AgentInv
  <2>2. place'[r] = "record" /\ \A s \in Runs : s # r => place'[s] = place[s]
    BY <2>1 DEF WaitInv, RunInv
  <2>3. AttemptInv'
    BY <1>1, <2>1, <2>2 DEF WaitInv, AttemptInv, Failures
  <2>4. \A s \in Runs : place'[s] = "posted" => \E i \in 1 .. Len(agent') : agent'[i].waiter = s
    <3>1. SUFFICES ASSUME NEW s \in Runs, s # r, place[s] = "posted"
                   PROVE  \E i \in 1 .. Len(agent') : agent'[i].waiter = s
      BY <2>2
    <3>2. PICK i \in 1 .. Len(agent) : agent[i].waiter = s
      BY <3>1 DEF WaitInv, AgentInv
    <3>3. i # 1
      BY <1>2, <3>1, <3>2
    <3>4. QED
      BY <1>7, <3>2, <3>3
  <2>5. \A i \in 1 .. Len(agent') : agent'[i].waiter # None =>
          place'[agent'[i].waiter] = "posted" /\ task[agent'[i].waiter] = agent'[i].task
    <3>1. SUFFICES ASSUME NEW i \in 1 .. Len(agent'), agent'[i].waiter # None
                   PROVE  place'[agent'[i].waiter] = "posted" /\ task[agent'[i].waiter] = agent'[i].task
      OBVIOUS
    <3>2. agent'[i].waiter \in Runs /\ agent'[i].waiter # r
      BY <1>3, <1>4, <1>6, <3>1
    <3>3. place[agent'[i].waiter] = "posted" /\ task[agent'[i].waiter] = agent'[i].task
      BY <1>3, <3>1 DEF WaitInv, AgentInv
    <3>4. QED
      BY <2>2, <3>2, <3>3
  <2>6. \A s \in Runs : place'[s] # "free" => task[s] \in Tasks
    BY <2>1, <2>2 DEF WaitInv, AgentInv
  <2>7. AgentInv'
    BY <1>1, <1>3, <1>8, <2>4, <2>5, <2>6 DEF AgentInv, Request
  <2>8. QED
    BY <2>3, <2>7
<1>11. QED
  BY <1>9, <1>10 DEF AgentEnds

\* After a restart the agent still has its requests, and no run is left.
LEMMA CrashKeepsWait ==
    ASSUME WaitInv, Crash
    PROVE  AttemptInv' /\ AgentInv'
<1>1. /\ place' = [r \in Runs |-> "free"]
      /\ tries' = [r \in Runs |-> 0]
      /\ outcome' = [r \in Runs |-> "none"]
  BY DEF Crash
<1>2. AttemptInv'
  BY <1>1 DEF AttemptInv
<1>3. agent' \in Seq(Request) /\ \A i \in 1 .. Len(agent') : agent'[i].waiter = None
  <2>1. agent' = [i \in DOMAIN agent |-> [agent[i] EXCEPT !.waiter = None]]
    BY DEF Crash
  <2>2. agent \in Seq(Request) /\ \A i \in DOMAIN agent : agent[i] \in Request
    BY RequestType, LenProperties DEF WaitInv, AgentInv
  <2>3. \A i \in DOMAIN agent : agent'[i] \in Request /\ agent'[i].waiter = None
    BY <2>1, <2>2 DEF Request
  <2>4. QED
    BY <2>1, <2>2, <2>3, Changed
<1>4. AgentInv'
  BY <1>1, <1>3 DEF AgentInv, Request
<1>5. QED
  BY <1>2, <1>4

\* Every step of a run keeps the requests.
LEMMA RunStepKeepsWait ==
    ASSUME WaitInv, NEW r \in Runs, RunStep(r)
    PROVE  AttemptInv' /\ AgentInv'
<1>1. CASE Load(r)
  <2>1. place[r] = "load" /\ agent' = agent
    BY <1>1 DEF Load
  <2>2. CASE End(r)
    BY <2>1, <2>2, EndKeepsWait
  <2>3. ASSUME NEW h \in Hosts, place' = [place EXCEPT ![r] = h],
               UNCHANGED <<running, task, by, tries, outcome>>
        PROVE  AttemptInv' /\ AgentInv'
    <3>1. AttemptInv'
      BY <2>1, <2>3 DEF Hosts, WaitInv, RunInv, AttemptInv
    <3>2. AgentInv'
      BY <2>1, <2>3, MoveKeepsWait DEF Hosts, Busy
    <3>3. QED
      BY <3>1, <3>2
  <2>4. QED
    BY <1>1, <2>2, <2>3 DEF Load
<1>2. CASE Finish(r)
  <2>1. PICK o \in {"success"} \cup Failures :
          /\ outcome' = [outcome EXCEPT ![r] = o]
          /\ place' = [place EXCEPT ![r] = "record"]
    BY <1>2 DEF Finish, Outcome
  <2>2. place[r] = "exec" /\ UNCHANGED <<task, tries, agent>>
    BY <1>2 DEF Finish
  <2>3. AttemptInv'
    BY <2>1, <2>2 DEF WaitInv, RunInv, AttemptInv, Failures
  <2>4. AgentInv'
    BY <2>1, <2>2, MoveKeepsWait DEF Busy
  <2>5. QED
    BY <2>3, <2>4
<1>3. CASE Post(r)
  BY <1>3, PostKeepsWait
<1>4. CASE GiveUp(r)
  BY <1>4, GiveUpKeepsWait
<1>5. CASE Record(r)
  <2>1. place[r] = "record" /\ agent' = agent
    BY <1>5 DEF Record
  <2>2. CASE End(r)
    BY <2>1, <2>2, EndKeepsWait
  <2>3. CASE /\ place' = [place EXCEPT ![r] = "alert"]
             /\ UNCHANGED <<running, task, by, tries, outcome>>
    <3>1. AttemptInv'
      BY <2>1, <2>3 DEF WaitInv, RunInv, AttemptInv
    <3>2. AgentInv'
      BY <2>1, <2>3, MoveKeepsWait DEF Busy
    <3>3. QED
      BY <3>1, <3>2
  <2>4. QED
    BY <1>5, <2>2, <2>3 DEF Record
<1>6. CASE Alert(r)
  BY <1>6, EndKeepsWait DEF Alert
<1>7. QED
  BY <1>1, <1>2, <1>3, <1>4, <1>5, <1>6 DEF RunStep

\* Every step of the system keeps the requests.
THEOREM NextWait == WaitInv /\ GuardInv /\ [Next]_vars => WaitInv'
<1> SUFFICES ASSUME WaitInv, GuardInv, [Next]_vars
             PROVE  WaitInv'
  OBVIOUS
<1>1. RunInv'
  BY NextGuard DEF WaitInv
<1>2. ASSUME UNCHANGED <<runVars, agent>>
      PROVE  AttemptInv' /\ AgentInv'
  BY <1>2 DEF runVars, WaitInv, AttemptInv, AgentInv, Request
<1>3. ASSUME NEW t \in Tasks, CreateTask(t) \/ UpdateTask(t) \/ DeleteTask(t)
      PROVE  UNCHANGED <<runVars, agent>>
  BY <1>3 DEF CreateTask, UpdateTask, DeleteTask
<1>4. ASSUME NEW r \in Runs, NEW t \in Tasks, Claim(r, t)
      PROVE  AttemptInv' /\ AgentInv'
  BY <1>4, LaunchKeepsWait DEF Claim
<1>5. ASSUME NEW r \in Runs, RunStep(r)
      PROVE  AttemptInv' /\ AgentInv'
  BY <1>5, RunStepKeepsWait
<1>6. ASSUME NEW r \in Runs, NEW t \in Tasks, Fire(r, t)
      PROVE  AttemptInv' /\ AgentInv'
  BY <1>6, LaunchKeepsWait DEF Fire, Hosts
<1>7. ASSUME TickRead \/ TickStamp \/ TickEnd \/ Minute \/ UNCHANGED vars
      PROVE  UNCHANGED <<runVars, agent>>
  BY <1>7 DEF TickRead, TickStamp, TickEnd, Minute, vars, runVars
<1>8. CASE AgentEnds
  BY <1>8, AnswerKeepsWait, <1>1 DEF WaitInv
<1>9. CASE Crash
  BY <1>9, CrashKeepsWait, <1>1 DEF WaitInv
<1>10. QED
  BY <1>1, <1>2, <1>3, <1>4, <1>5, <1>6, <1>7, <1>8, <1>9 DEF Next, Scheduler, WaitInv

\* The remaining variables keep their types: a status that is recorded is one,
\* and what the scheduler reads are minutes.
LEMMA NextPass == WaitInv /\ ClockInv /\ PassTypeOK /\ [Next]_vars => PassTypeOK'
<1> SUFFICES ASSUME WaitInv, ClockInv, PassTypeOK, [Next]_vars
             PROVE  PassTypeOK'
  OBVIOUS
<1>1. ASSUME UNCHANGED <<last, pass, scan, due, crashes, passed>>
      PROVE  PassTypeOK'
  BY <1>1 DEF PassTypeOK
<1>2. ASSUME NEW t \in Tasks, CreateTask(t) \/ UpdateTask(t) \/ DeleteTask(t)
      PROVE  PassTypeOK'
  BY <1>1, <1>2 DEF CreateTask, UpdateTask, DeleteTask, passVars
<1>3. ASSUME NEW r \in Runs, NEW t \in Tasks, Claim(r, t)
      PROVE  PassTypeOK'
  BY <1>1, <1>3 DEF Claim, rowVars, passVars, history
<1>4. ASSUME NEW r \in Runs, RunStep(r)
      PROVE  PassTypeOK'
  <2>1. CASE Record(r)
    <3>1. last' \in [Tasks -> {"", "success"} \cup Failures]
      <4>1. place[r] = "record" /\ outcome[r] \in {"success"} \cup Failures
        BY <2>1 DEF Record, WaitInv, AttemptInv
      <4>2. last' = last \/ last' = [last EXCEPT ![task[r]] = outcome[r]]
        BY <2>1 DEF Record
      <4>3. QED
        BY <4>1, <4>2 DEF PassTypeOK
    <3>2. QED
      BY <2>1, <3>1 DEF Record, passVars, history, PassTypeOK
  <2>2. CASE ~Record(r)
    BY <1>1, <1>4, <2>2 DEF RunStep, Load, Finish, Post, GiveUp, Alert, rowVars, passVars, history
  <2>3. QED
    BY <2>1, <2>2
<1>5. CASE TickRead
  <2>1. \A t \in Tasks : cron[t] \in SUBSET Minutes
    BY TaskAssumption DEF ClockInv, ClockTypeOK, Minutes
  <2>2. scan' \in [Tasks -> SUBSET Minutes]
    BY <1>5, <2>1 DEF TickRead
  <2>3. QED
    BY <1>5, <2>2 DEF TickRead, rowVars, PassTypeOK
<1>6. CASE TickStamp
  BY <1>6 DEF TickStamp, rowVars, PassTypeOK
<1>7. ASSUME NEW r \in Runs, NEW t \in Tasks, Fire(r, t)
      PROVE  PassTypeOK'
  BY <1>7 DEF Fire, rowVars, history, PassTypeOK
<1>8. CASE TickEnd
  BY <1>8 DEF TickEnd, rowVars, history, PassTypeOK
<1>9. CASE AgentEnds \/ Minute
  BY <1>9 DEF AgentEnds, Minute, rowVars, passVars, history, PassTypeOK
<1>10. CASE Crash
  <2>1. scan' \in [Tasks -> SUBSET Minutes]
    BY <1>10 DEF Crash
  <2>2. /\ crashes < MaxCrashes /\ crashes' = crashes + 1
        /\ pass' = "off" /\ due' = {} /\ passed' = FALSE /\ last' = last
    BY <1>10 DEF Crash, rowVars
  <2>3. crashes \in 0 .. MaxCrashes
    BY DEF PassTypeOK
  <2>4. crashes' \in 0 .. MaxCrashes
    BY <2>2, <2>3, TaskAssumption
  <2>5. QED
    BY <2>1, <2>2, <2>4 DEF PassTypeOK
<1>11. CASE UNCHANGED vars
  BY <1>1, <1>11 DEF vars
<1>12. QED
  BY <1>2, <1>3, <1>4, <1>5, <1>6, <1>7, <1>8, <1>9, <1>10, <1>11 DEF Next, Scheduler

\* Every variable of the task runner keeps its type, for any number of tasks,
\* goroutines and requests in the agent: an answer of the agent reaches only a
\* run that waits for it, so no run records an outcome it does not have.
THEOREM TypeCorrect == Spec => []TypeOK
<1>1. WaitInv /\ ClockInv /\ PassTypeOK => TypeOK
  BY DEF WaitInv, RunInv, AttemptInv, AgentInv, Request, ClockInv, ClockTypeOK, ScanInv,
         PassTypeOK, TypeOK
<1>2. QED
  BY <1>1, InitGuard, InitClock, InitWait, NextGuard, NextClock, NextWait, NextPass, PTL
  DEF Spec, WaitInv
=============================================================================
