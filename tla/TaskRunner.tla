------------------------------ MODULE TaskRunner ------------------------------
(***************************************************************************)
(* Scheduled tasks: the cron scheduler and the task runs of                *)
(* internal/runtime/cron_sched.go, the handlers of internal/handlers/      *)
(* tasks.go, and the Windows agent they post to (compute-agent.py), which  *)
(* serves one request after the other.                                     *)
(*                                                                         *)
(* A step is one critical section of taskRunMu, one SQL statement, one     *)
(* part of the scheduler's pass or one event of a command.  A cron         *)
(* expression is the set of minutes it matches; minutes are counted from 0 *)
(* and the clock of the host is taken to be monotonic.                     *)
(***************************************************************************)
EXTENDS Naturals, Sequences

CONSTANTS
    Tasks,      \* task ids; one is never used twice
    Lingering,  \* tasks whose command leaves a descendant holding its output
    Runs,       \* goroutines inside StartTaskRun or executeTask
    MaxMinute,  \* bound: minutes of the clock
    Crons,      \* the cron expressions in use, as the minutes they match
    MaxQueue,   \* bound: requests the agent's backlog holds
    MaxCrashes, \* bound: restarts of the server
    None

ASSUME TaskAssumption ==
    /\ Lingering \subseteq Tasks
    /\ Crons \subseteq SUBSET (0 .. MaxMinute)
    /\ MaxMinute \in Nat /\ MaxQueue \in Nat /\ MaxCrashes \in Nat
    /\ None \notin Tasks \cup Runs \cup (0 .. MaxMinute)

Minutes == 0 .. MaxMinute

VARIABLES
    table,      \* the row: not created yet, enabled, disabled, or deleted
    cron,       \* the minutes its expression matches
    last,       \* last_status
    running,    \* taskRunning
    task, by,   \* what a run runs, and who launched it
    place,      \* where it is
    tries,      \* attempts of runWindowsCommand
    outcome,    \* the status executeTask will write
    pass,       \* where the scheduler is in cronTickOnce
    scan,       \* the minutes of the rows it has read, none for other tasks
    due,        \* tasks of this pass still to launch
    lastFired,
    agent,      \* requests in the agent: the task, and the run that waits
    now,        \* the minute of the clock
    crashes,
    fired,      \* history: firings per task and minute since the server started
    edited,     \* history: tasks written in this minute
    readAt,     \* history: minute in which the current pass read the rows
    passed      \* history: a whole pass was made in this minute

rowVars == <<table, cron, last>>
runVars == <<running, task, by, place, tries, outcome>>
passVars == <<pass, scan, due, lastFired>>
history == <<fired, edited, readAt, passed>>
vars == <<table, cron, last, running, task, by, place, tries, outcome, pass,
          scan, due, lastFired, agent, now, crashes, fired, edited,
          readAt, passed>>

Failures == {"failed", "timeout"}
Busy == {"load", "exec", "post", "posted", "record", "alert"}

TypeOK ==
    /\ table \in [Tasks -> {"new", "on", "off", "deleted"}]
    /\ cron \in [Tasks -> Crons]
    /\ last \in [Tasks -> {"", "success"} \cup Failures]
    /\ running \in [Tasks -> BOOLEAN]
    /\ task \in [Runs -> Tasks \cup {None}]
    /\ by \in [Runs -> {"none", "manual", "cron"}]
    /\ place \in [Runs -> {"free"} \cup Busy]
    /\ tries \in [Runs -> 0 .. 2]
    /\ outcome \in [Runs -> {"none", "success"} \cup Failures]
    /\ pass \in {"off", "read", "fire"}
    /\ scan \in [Tasks -> SUBSET Minutes]
    /\ due \subseteq Tasks
    /\ lastFired \in [Tasks -> Minutes \cup {None}]
    /\ agent \in Seq([task : Tasks, waiter : Runs \cup {None}])
    /\ now \in Minutes
    /\ crashes \in 0 .. MaxCrashes
    /\ fired \in [Tasks -> [Minutes -> Nat]]
    /\ edited \subseteq Tasks
    /\ readAt \in Minutes \cup {None}
    /\ passed \in BOOLEAN

Init ==
    /\ table \in [Tasks -> {"new", "on", "off"}]
    /\ cron \in [Tasks -> Crons]
    /\ last = [t \in Tasks |-> ""]
    /\ running = [t \in Tasks |-> FALSE]
    /\ task = [r \in Runs |-> None]
    /\ by = [r \in Runs |-> "none"]
    /\ place = [r \in Runs |-> "free"]
    /\ tries = [r \in Runs |-> 0]
    /\ outcome = [r \in Runs |-> "none"]
    /\ pass = "off" /\ scan = [t \in Tasks |-> {}] /\ due = {}
    /\ lastFired = [t \in Tasks |-> None]
    /\ fired = [t \in Tasks |-> [m \in Minutes |-> 0]]
    /\ readAt = None /\ passed = FALSE
    /\ agent = <<>>
    /\ now = 0
    /\ crashes = 0
    /\ edited = {}

-----------------------------------------------------------------------------
(* The handlers that write rows; a cron expression is validated first *)

CreateTask(t) ==
    /\ table[t] = "new"
    /\ \E s \in {"on", "off"} : table' = [table EXCEPT ![t] = s]
    /\ \E ms \in Crons : cron' = [cron EXCEPT ![t] = ms]
    /\ edited' = edited \cup {t}
    /\ UNCHANGED <<last, runVars, passVars, agent, now, crashes, fired, readAt, passed>>

UpdateTask(t) ==
    /\ table[t] \in {"on", "off"}
    /\ \E s \in {"on", "off"} : table' = [table EXCEPT ![t] = s]
    /\ \E ms \in Crons : cron' = [cron EXCEPT ![t] = ms]
    /\ edited' = edited \cup {t}
    /\ UNCHANGED <<last, runVars, passVars, agent, now, crashes, fired, readAt, passed>>

DeleteTask(t) ==
    /\ table[t] \in {"on", "off"}
    /\ table' = [table EXCEPT ![t] = "deleted"]
    /\ edited' = edited \cup {t}
    /\ UNCHANGED <<cron, last, runVars, passVars, agent, now, crashes, fired, readAt, passed>>

-----------------------------------------------------------------------------
(* StartTaskRun *)

\* A goroutine r begins to work on t.
Launch(r, t, who, where) ==
    /\ place[r] = "free"
    /\ task' = [task EXCEPT ![r] = t]
    /\ by' = [by EXCEPT ![r] = who]
    /\ place' = [place EXCEPT ![r] = where]
    /\ UNCHANGED <<tries, outcome>>

\* ... and returns; a run that took the guard gives it back.
End(r) ==
    /\ running' = IF by[r] = "manual" THEN [running EXCEPT ![task[r]] = FALSE] ELSE running
    /\ task' = [task EXCEPT ![r] = None]
    /\ by' = [by EXCEPT ![r] = "none"]
    /\ place' = [place EXCEPT ![r] = "free"]
    /\ tries' = [tries EXCEPT ![r] = 0]
    /\ outcome' = [outcome EXCEPT ![r] = "none"]

\* RunTaskNow takes the guard, for an id that need not exist.
Claim(r, t) ==
    /\ ~running[t]
    /\ running' = [running EXCEPT ![t] = TRUE]
    /\ Launch(r, t, "manual", "load")
    /\ UNCHANGED <<rowVars, passVars, agent, now, crashes, history>>

\* Where executeTask begins: on this host, or by posting to the agent.  Which of
\* them the row names is left open, as UpdateTask may change it at any time.
Hosts == {"exec", "post"}

\* Mutant of Load: an unknown task keeps the guard.
LoadKeepsGuard(r) ==
    /\ place[r] = "load"
    /\ \/ /\ table[task[r]] \in {"on", "off"}
          /\ \E h \in Hosts : place' = [place EXCEPT ![r] = h]
          /\ UNCHANGED <<task, by, tries, outcome>>
       \/ /\ place' = [place EXCEPT ![r] = "free"]
          /\ task' = [task EXCEPT ![r] = None]
          /\ by' = [by EXCEPT ![r] = "none"]
          /\ UNCHANGED <<tries, outcome>>
    /\ UNCHANGED <<rowVars, running, passVars, agent, now, crashes, history>>

\* The row is read: executeTask follows in a goroutine, or there is no such task.
Load(r) ==
    /\ place[r] = "load"
    /\ \/ /\ table[task[r]] \in {"on", "off"}
          /\ \E h \in Hosts : place' = [place EXCEPT ![r] = h]
          /\ UNCHANGED <<running, task, by, tries, outcome>>
       \/ End(r)
    /\ UNCHANGED <<rowVars, passVars, agent, now, crashes, history>>

-----------------------------------------------------------------------------
(* cronTickOnce, by the one scheduler goroutine *)

\* The enabled rows are read.
TickRead ==
    /\ pass = "off"
    /\ pass' = "read"
    /\ scan' = [t \in Tasks |-> IF table[t] = "on" THEN cron[t] ELSE {}]
    /\ readAt' = now
    /\ UNCHANGED <<rowVars, runVars, due, lastFired, agent, now, crashes,
                   fired, edited, passed>>

\* Mutant of TickStamp: lastFired is not consulted.
TickStampAlways ==
    /\ pass = "read"
    /\ pass' = "fire"
    /\ due' = {t \in Tasks : now \in scan[t]}
    /\ lastFired' = [t \in Tasks |-> IF t \in due' THEN now ELSE lastFired[t]]
    /\ fired' = [t \in Tasks |->
                    IF t \in due' THEN [fired[t] EXCEPT ![now] = @ + 1] ELSE fired[t]]
    /\ passed' = (passed \/ readAt = now)
    /\ scan' = [t \in Tasks |-> {}]
    /\ readAt' = None
    /\ UNCHANGED <<rowVars, runVars, agent, now, crashes, edited>>

\* Mutant of TickStamp: any earlier firing counts.
TickStampOnce ==
    /\ pass = "read"
    /\ pass' = "fire"
    /\ due' = {t \in Tasks : now \in scan[t] /\ lastFired[t] = None}
    /\ lastFired' = [t \in Tasks |-> IF t \in due' THEN now ELSE lastFired[t]]
    /\ fired' = [t \in Tasks |->
                    IF t \in due' THEN [fired[t] EXCEPT ![now] = @ + 1] ELSE fired[t]]
    /\ passed' = (passed \/ readAt = now)
    /\ scan' = [t \in Tasks |-> {}]
    /\ readAt' = None
    /\ UNCHANGED <<rowVars, runVars, agent, now, crashes, edited>>

\* Then the clock: what matches this minute, and did not fire in it, is due.
TickStamp ==
    /\ pass = "read"
    /\ pass' = "fire"
    /\ due' = {t \in Tasks : now \in scan[t] /\ lastFired[t] # now}
    /\ lastFired' = [t \in Tasks |-> IF t \in due' THEN now ELSE lastFired[t]]
    /\ fired' = [t \in Tasks |->
                    IF t \in due' THEN [fired[t] EXCEPT ![now] = @ + 1] ELSE fired[t]]
    /\ passed' = (passed \/ readAt = now)
    /\ scan' = [t \in Tasks |-> {}]
    /\ readAt' = None
    /\ UNCHANGED <<rowVars, runVars, agent, now, crashes, edited>>

\* go executeTask, with the row as it was read; taskRunning is not consulted.
Fire(r, t) ==
    /\ pass = "fire" /\ t \in due
    /\ due' = due \ {t}
    /\ \E h \in Hosts : Launch(r, t, "cron", h)
    /\ UNCHANGED <<rowVars, running, pass, scan, lastFired, agent, now,
                   crashes, history>>

TickEnd ==
    /\ pass = "fire" /\ due = {}
    /\ pass' = "off"
    /\ UNCHANGED <<rowVars, runVars, scan, due, lastFired, agent, now, crashes, history>>

-----------------------------------------------------------------------------
(* executeTask *)

Outcome(r, o) ==
    /\ outcome' = [outcome EXCEPT ![r] = o]
    /\ place' = [place EXCEPT ![r] = "record"]

\* runApp1Command returns: bash ended or was killed at the timeout, and nobody
\* holds its output any more.
Finish(r) ==
    /\ place[r] = "exec"
    /\ \E o \in {"success"} \cup Failures : Outcome(r, o)
    /\ UNCHANGED <<rowVars, running, task, by, tries, passVars, agent, now, crashes, history>>

\* A transport error: the second one is final.
TransportError(r) ==
    IF tries[r] < 2
    THEN place' = [place EXCEPT ![r] = "post"] /\ UNCHANGED outcome
    ELSE Outcome(r, "failed")

\* Mutant of Post: a host that cannot be reached is tried for ever.
PostForever(r) ==
    /\ place[r] = "post"
    /\ UNCHANGED <<place, outcome, agent>>
    /\ tries' = [tries EXCEPT ![r] = 1 - @]
    /\ UNCHANGED <<rowVars, running, task, by, passVars, now, crashes, history>>

\* runWindowsCommand tries: the agent cannot be reached, or has the request.
Post(r) ==
    /\ place[r] = "post"
    /\ \/ /\ tries' = [tries EXCEPT ![r] = @ + 1]
          /\ IF tries'[r] < 2 THEN UNCHANGED <<place, outcome>> ELSE Outcome(r, "failed")
          /\ UNCHANGED agent
       \/ /\ tries' = [tries EXCEPT ![r] = @ + 1]
          /\ Len(agent) < MaxQueue
          /\ agent' = Append(agent, [task |-> task[r], waiter |-> r])
          /\ place' = [place EXCEPT ![r] = "posted"]
          /\ UNCHANGED outcome
    /\ UNCHANGED <<rowVars, running, task, by, passVars, now, crashes, history>>

\* The connection breaks or the client's timeout strikes; the agent keeps what
\* it has.
GiveUp(r) ==
    /\ place[r] = "posted"
    /\ TransportError(r)
    /\ agent' = [i \in DOMAIN agent |->
                    IF agent[i].waiter = r THEN [agent[i] EXCEPT !.waiter = None] ELSE agent[i]]
    /\ UNCHANGED <<rowVars, running, task, by, tries, passVars, now, crashes, history>>

\* The agent ends the request it serves and answers whoever still waits.
AgentEnds ==
    /\ agent # <<>>
    /\ agent' = Tail(agent)
    /\ LET r == Head(agent).waiter IN
       \/ r = None /\ UNCHANGED <<place, outcome>>
       \/ r # None /\ \E o \in {"success", "failed"} : Outcome(r, o)
    /\ UNCHANGED <<rowVars, running, task, by, tries, passVars, now, crashes, history>>

\* Mutant of Record: the columns of the UPDATE are swapped.
RecordSwapped(r) ==
    /\ place[r] = "record"
    /\ last' = [last EXCEPT ![task[r]] = by[r]]
    /\ End(r)
    /\ UNCHANGED <<table, cron, passVars, agent, now, crashes, history>>

\* The status is written, unless the row is gone or the write fails; a success
\* is the end of the run.
Record(r) ==
    LET t == task[r] IN
    /\ place[r] = "record"
    /\ \/ table[t] \in {"on", "off"} /\ last' = [last EXCEPT ![t] = outcome[r]]
       \/ UNCHANGED last
    /\ \/ outcome[r] = "success" /\ End(r)
       \/ /\ outcome[r] # "success"
          /\ place' = [place EXCEPT ![r] = "alert"]
          /\ UNCHANGED <<running, task, by, tries, outcome>>
    /\ UNCHANGED <<table, cron, passVars, agent, now, crashes, history>>

\* A failure inserts a notification.
Alert(r) ==
    /\ place[r] = "alert"
    /\ End(r)
    /\ UNCHANGED <<rowVars, passVars, agent, now, crashes, history>>

-----------------------------------------------------------------------------
(* The clock, and a restart of the server *)

Minute ==
    /\ now < MaxMinute
    /\ now' = now + 1
    /\ edited' = {}
    /\ passed' = FALSE
    /\ UNCHANGED <<rowVars, runVars, passVars, agent, crashes, fired, readAt>>

\* Goroutines, guard and lastFired are gone; rows, and requests that the agent
\* has, are not.
Crash ==
    /\ crashes < MaxCrashes
    /\ crashes' = crashes + 1
    /\ running' = [t \in Tasks |-> FALSE]
    /\ task' = [r \in Runs |-> None]
    /\ by' = [r \in Runs |-> "none"]
    /\ place' = [r \in Runs |-> "free"]
    /\ tries' = [r \in Runs |-> 0]
    /\ outcome' = [r \in Runs |-> "none"]
    /\ pass' = "off" /\ scan' = [t \in Tasks |-> {}] /\ due' = {}
    /\ lastFired' = [t \in Tasks |-> None]
    /\ fired' = [t \in Tasks |-> [m \in Minutes |-> 0]]
    /\ readAt' = None /\ passed' = FALSE
    /\ agent' = [i \in DOMAIN agent |-> [agent[i] EXCEPT !.waiter = None]]
    /\ UNCHANGED <<rowVars, now, edited>>

RunStep(r) ==
    Load(r) \/ Finish(r) \/ Post(r) \/ GiveUp(r) \/ Record(r) \/ Alert(r)

Scheduler == TickRead \/ TickStamp \/ TickEnd \/ \E r \in Runs, t \in Tasks : Fire(r, t)

Next ==
    \/ \E t \in Tasks : CreateTask(t) \/ UpdateTask(t) \/ DeleteTask(t)
    \/ \E r \in Runs, t \in Tasks : Claim(r, t)
    \/ \E r \in Runs : RunStep(r)
    \/ Scheduler
    \/ AgentEnds
    \/ Minute
    \/ Crash

Spec == Init /\ [][Next]_vars

\* Goroutines run, and a local command is killed after ten minutes.  Nothing is
\* assumed of the agent, nor of descendants that keep a command's output open.
Fairness ==
    \A r \in Runs : WF_vars(RunStep(r) /\ ~(place[r] = "exec" /\ task[r] \in Lingering))

FairSpec == Spec /\ Fairness

-----------------------------------------------------------------------------
(* Properties *)

Manual(t) == {r \in Runs : by[r] = "manual" /\ task[r] = t}

\* The guard of a task is up exactly while one "run now" of it is in progress:
\* it never stays up, which would refuse every later run, and two manual runs
\* of one task never overlap.
GuardExact ==
    \A t \in Tasks :
        /\ running[t] <=> Manual(t) # {}
        /\ \A r, s \in Manual(t) : r = s

\* Since the server started, the scheduler fires a task at most once for one
\* minute, although two passes see the minute and a pass may cross into the
\* next one between its query and its look at the clock.
OncePerMinute == \A t \in Tasks, m \in Minutes : fired[t][m] <= 1

\* A minute that saw a whole pass does not end before every task that matches
\* it was fired, unless its row was written in that minute.
NoMissedMinute ==
    [][now' # now /\ passed => \A t \in Tasks :
          table[t] = "on" /\ now \in cron[t] /\ t \notin edited => fired[t][now] > 0]_vars

\* A run ends, and a manual one gives the guard back, whatever the agent does
\* and whatever is deleted meanwhile.
RunsEnd ==
    \A r \in Runs : place[r] # "free" ~>
        place[r] = "free" \/ (place[r] = "exec" /\ task[r] \in Lingering)

\* Commands of t that execute: local ones, and the one the agent serves.
Executing(t) ==
    {r \in Runs : task[r] = t /\ place[r] = "exec"}
        \cup (IF agent # <<>> /\ Head(agent).task = t THEN {"agent"} ELSE {})

\* A task is never executed twice at the same time ("prevents a second concurrent
\* execution of the same task", cron_sched.go, comment at taskRunning).  Does not
\* hold: the scheduler does not consult the guard that run-now takes.
NoConcurrentRuns ==
    \A t \in Tasks : \A x, y \in Executing(t) : x = y

=============================================================================
