------------------------ MODULE SharedServicesProofs ------------------------
(***************************************************************************)
(* Theorems about SharedServices, for every number of projects, services,  *)
(* processes and goroutines.                                               *)
(***************************************************************************)
EXTENDS SharedServices, TLAPS

\* What a goroutine holds at each place of its pass.
ThreadInv ==
    \A w \in Threads :
        /\ pc[w] = "read" => job[w] \in {"attach", "boot", "detach", "delete"}
        /\ job[w] \in {"attach", "boot", "detach", "delete"} => who[w] \in Projects
        /\ pc[w] \in {"claim", "launch", "register", "stop", "stopped"} => at[w] \in States
        /\ pc[w] \in {"register", "wait", "killed"} => held[w] \in Handles

\* A launch in flight is the only one of its svcState, and the svcState knows
\* no process meanwhile.
LaunchInv ==
    \A w \in Threads : pc[w] \in {"launch", "register"} =>
        /\ starting[at[w]]
        /\ cmd[at[w]] = None
        /\ \A v \in Threads :
              pc[v] \in {"launch", "register"} /\ at[v] = at[w] => v = w
        /\ pc[w] = "launch" => \A h \in Handles : owner[h] # at[w]
        /\ pc[w] = "register" =>
              owner[held[w]] = at[w] /\ phase[held[w]] \in {"live", "exited"}

\* A process that has not been waited for belongs to a svcState that names it,
\* or whose launcher is about to store it.
ProcInv ==
    /\ \A h \in Handles : owner[h] # None <=> phase[h] \in {"live", "exited"}
    /\ \A h \in Handles : owner[h] # None =>
          \/ cmd[owner[h]] = h
          \/ \E w \in Threads : pc[w] = "register" /\ at[w] = owner[h] /\ held[w] = h
    /\ \A s \in States : cmd[s] # None => owner[cmd[s]] = s /\ starting[s]
    /\ \A s \in States : starting[s] =>
          \/ cmd[s] # None
          \/ \E w \in Threads : pc[w] \in {"launch", "register"} /\ at[w] = s

LaunchIInv == TypeOK /\ ThreadInv /\ LaunchInv /\ ProcInv

USE NoneAssumption, HealthAssumption DEF Threads, Places, Jobs

\* The initial states are typed, and every step keeps the types.
LEMMA InitTyped == Init => TypeOK /\ ThreadInv
  BY MaxAssumption DEF Init, TypeOK, ThreadInv

\* A status change, a delete, a boot or an edit of the services hands a worker a
\* well formed task.
LEMMA RequestTyped ==
    ASSUME TypeOK, ThreadInv, Handlers
    PROVE  (TypeOK /\ ThreadInv)'
<1>1. ASSUME NEW p \in Projects, UpdateServices(p)
      PROVE  (TypeOK /\ ThreadInv)'
  BY <1>1, MaxAssumption DEF UpdateServices, Request, svcVars, procVars, goVars, TypeOK, ThreadInv
<1>2. ASSUME NEW p \in Projects, NEW w \in Workers, GoOnline(p, w)
      PROVE  (TypeOK /\ ThreadInv)'
  BY <1>2, MaxAssumption DEF GoOnline, Request, Begin, svcVars, procVars, TypeOK, ThreadInv
<1>3. ASSUME NEW p \in Projects, NEW w \in Workers, GoOffline(p, w)
      PROVE  (TypeOK /\ ThreadInv)'
  BY <1>3, MaxAssumption DEF GoOffline, Request, Begin, svcVars, procVars, TypeOK, ThreadInv
<1>4. ASSUME NEW p \in Projects, NEW w \in Workers, Delete(p, w)
      PROVE  (TypeOK /\ ThreadInv)'
  BY <1>4, MaxAssumption DEF Delete, Request, Begin, svcVars, procVars, TypeOK, ThreadInv
<1>5. ASSUME NEW p \in Projects, NEW w \in Workers, BootAttach(p, w)
      PROVE  (TypeOK /\ ThreadInv)'
  BY <1>5, MaxAssumption DEF BootAttach, Begin, svcVars, procVars, TypeOK, ThreadInv
<1>6. QED
  BY <1>1, <1>2, <1>3, <1>4, <1>5 DEF Handlers

\* Every step of a goroutine inside AttachServices, DetachServices, startShared
\* or stopShared keeps the types and leaves the goroutine in a legal place.
LEMMA ThreadTyped ==
    ASSUME TypeOK, ThreadInv, NEW w \in Threads, ThreadStep(w)
    PROVE  (TypeOK /\ ThreadInv)'
<1>1. ASSUME ReadServices(w)
      PROVE  (TypeOK /\ ThreadInv)'
  BY <1>1 DEF ReadServices, rowVars, svcVars, procVars, TypeOK, ThreadInv
<1>2. ASSUME EndPass(w)
      PROVE  (TypeOK /\ ThreadInv)'
  BY <1>2 DEF EndPass, svcVars, procVars, TypeOK, ThreadInv
<1>3. ASSUME NEW n \in Names, Attach(w, n)
      PROVE  (TypeOK /\ ThreadInv)'
  <2>1. CASE services[n] # None
    <3>1. refs' \in [States -> SUBSET Projects]
      BY <1>3, <2>1 DEF Attach, TypeOK, ThreadInv
    <3>2. pc' \in [Threads -> Places] /\ at' \in [Threads -> States \cup {None}]
      BY <1>3, <2>1 DEF Attach, TypeOK
    <3>3. QED
      BY <1>3, <2>1, <3>1, <3>2 DEF Attach, rowVars, procVars, TypeOK, ThreadInv
  <2>2. CASE services[n] = None
    <3>1. PICK s \in States :
             /\ services' = [services EXCEPT ![n] = s]
             /\ name' = [name EXCEPT ![s] = n]
             /\ refs' = [refs EXCEPT ![s] = {who[w]}]
             /\ cmd' = [cmd EXCEPT ![s] = None]
             /\ starting' = [starting EXCEPT ![s] = FALSE]
             /\ pc' = [pc EXCEPT ![w] = "claim"]
             /\ at' = [at EXCEPT ![w] = s]
      BY <1>3, <2>2 DEF Attach
    <3>2. who[w] \in Projects
      BY <1>3 DEF Attach, ThreadInv
    <3>3. /\ services' \in [Names -> States \cup {None}]
          /\ name' \in [States -> Names \cup {None}]
          /\ refs' \in [States -> SUBSET Projects]
          /\ cmd' \in [States -> Handles \cup {None}]
          /\ starting' \in [States -> BOOLEAN]
      BY <3>1, <3>2 DEF TypeOK
    <3>4. TypeOK'
      BY <1>3, <3>1, <3>3 DEF Attach, rowVars, procVars, TypeOK
    <3>5. ThreadInv'
      BY <1>3, <3>1 DEF Attach, TypeOK, ThreadInv
    <3>6. QED
      BY <3>4, <3>5
  <2>3. QED
    BY <2>1, <2>2
<1>4. ASSUME NEW n \in Names, Detach(w, n)
      PROVE  (TypeOK /\ ThreadInv)'
  <2>1. CASE services[n] # None
    <3>1. refs' \in [States -> SUBSET Projects]
      BY <1>4, <2>1 DEF Detach, TypeOK, ThreadInv
    <3>2. services' \in [Names -> States \cup {None}]
      BY <1>4, <2>1 DEF Detach, TypeOK
    <3>3. pc' \in [Threads -> Places] /\ at' \in [Threads -> States \cup {None}]
      BY <1>4, <2>1 DEF Detach, TypeOK
    <3>4. QED
      BY <1>4, <2>1, <3>1, <3>2, <3>3 DEF Detach, rowVars, procVars, TypeOK, ThreadInv
  <2>2. CASE services[n] = None
    BY <1>4, <2>2 DEF Detach, rowVars, procVars, TypeOK, ThreadInv
  <2>3. QED
    BY <2>1, <2>2
<1>5. ASSUME Claim(w)
      PROVE  (TypeOK /\ ThreadInv)'
  <2>1. CASE starting[at[w]] \/ cmd[at[w]] # None
    BY <1>5, <2>1 DEF Claim, Return, rowVars, procVars, TypeOK, ThreadInv
  <2>2. CASE ~starting[at[w]] /\ cmd[at[w]] = None
    <3>1. /\ starting' = [starting EXCEPT ![at[w]] = TRUE]
          /\ pc' = [pc EXCEPT ![w] = "launch"]
          /\ UNCHANGED <<at, held>>
      BY <1>5, <2>2 DEF Claim
    <3>2. pc[w] = "claim"
      BY <1>5 DEF Claim
    <3>3. TypeOK'
      BY <1>5, <3>1, <3>2 DEF Claim, rowVars, procVars, TypeOK
    <3>4. ThreadInv'
      BY <1>5, <3>1, <3>2 DEF Claim, TypeOK, ThreadInv
    <3>5. QED
      BY <3>3, <3>4
  <2>3. QED
    BY <2>1, <2>2
<1>6. ASSUME Refuse(w)
      PROVE  (TypeOK /\ ThreadInv)'
  BY <1>6, MaxAssumption DEF Refuse, Return, rowVars, procVars, TypeOK, ThreadInv
<1>7. ASSUME Launch(w)
      PROVE  (TypeOK /\ ThreadInv)'
  BY <1>7 DEF Launch, rowVars, svcVars, TypeOK, ThreadInv
<1>8. ASSUME Register(w)
      PROVE  (TypeOK /\ ThreadInv)'
  BY <1>8 DEF Register, Return, rowVars, procVars, TypeOK, ThreadInv
<1>9. ASSUME StopShared(w)
      PROVE  (TypeOK /\ ThreadInv)'
  BY <1>9 DEF StopShared, StopCommand, StopRead, Escalate, WaitDone, Return,
              rowVars, svcVars, procVars, TypeOK, ThreadInv
<1>10. QED
  BY <1>1, <1>2, <1>3, <1>4, <1>5, <1>6, <1>7, <1>8, <1>9
  DEF ThreadStep, StartShared

\* The health monitor's own steps and the steps of the processes keep the types.
LEMMA OtherTyped ==
    ASSUME TypeOK, ThreadInv, HealthStep \/ ProcStep \/ UNCHANGED vars
    PROVE  (TypeOK /\ ThreadInv)'
<1>1. ASSUME HealthBegin
      PROVE  (TypeOK /\ ThreadInv)'
  BY <1>1 DEF HealthBegin, rowVars, svcVars, procVars, TypeOK, ThreadInv
<1>2. ASSUME NEW s \in States, HealthCheck(s)
      PROVE  (TypeOK /\ ThreadInv)'
  BY <1>2 DEF HealthCheck, rowVars, svcVars, procVars, TypeOK, ThreadInv
<1>3. ASSUME NEW h \in Handles, Exit(h) \/ Reap(h) \/ CloseDone(h)
      PROVE  (TypeOK /\ ThreadInv)'
  <2>1. CASE Exit(h)
    BY <2>1 DEF Exit, rowVars, svcVars, goVars, TypeOK, ThreadInv
  <2>2. CASE Reap(h)
    BY <2>2 DEF Reap, rowVars, goVars, TypeOK, ThreadInv
  <2>3. CASE CloseDone(h)
    BY <2>3 DEF CloseDone, rowVars, svcVars, goVars, TypeOK, ThreadInv
  <2>4. QED
    BY <1>3, <2>1, <2>2, <2>3
<1>4. ASSUME UNCHANGED vars
      PROVE  (TypeOK /\ ThreadInv)'
  BY <1>4 DEF vars, TypeOK, ThreadInv
<1>5. QED
  BY <1>1, <1>2, <1>3, <1>4 DEF HealthStep, ProcStep

\* Types are inductive.
LEMMA NextTyped == TypeOK /\ ThreadInv /\ [Next]_vars => (TypeOK /\ ThreadInv)'
  BY RequestTyped, ThreadTyped, OtherTyped DEF Next

\* Every variable keeps its type.
THEOREM TypeCorrect == Spec => []TypeOK
<1>1. Spec => [](TypeOK /\ ThreadInv)
  BY InitTyped, NextTyped, PTL DEF Spec
<1>2. QED
  BY <1>1, PTL

-----------------------------------------------------------------------------
(* At most one process per svcState, and the flag says whether there is one *)

InLaunch(w) == pc[w] \in {"launch", "register"}

\* The step neither enters nor leaves a launch.
SameLaunches ==
    \A v \in Threads :
        /\ InLaunch(v)' <=> InLaunch(v)
        /\ InLaunch(v) => pc'[v] = pc[v] /\ at'[v] = at[v] /\ held'[v] = held[v]

\* A step that touches neither the processes, the flags nor the threads that
\* are inside a launch keeps the launch invariant.
LEMMA FrameLaunch ==
    ASSUME LaunchIInv, SameLaunches, UNCHANGED <<cmd, starting, phase, owner>>
    PROVE  (LaunchInv /\ ProcInv)'
<1>1. LaunchInv'
  BY DEF LaunchIInv, LaunchInv, SameLaunches, InLaunch
<1>2. ProcInv'
  <2>1. ASSUME NEW h \in Handles, owner[h] # None, cmd[owner[h]] # h
        PROVE  \E w \in Threads : pc'[w] = "register" /\ at'[w] = owner[h] /\ held'[w] = h
    BY <2>1 DEF LaunchIInv, ProcInv, SameLaunches, InLaunch
  <2>2. ASSUME NEW s \in States, starting[s], cmd[s] = None
        PROVE  \E w \in Threads : pc'[w] \in {"launch", "register"} /\ at'[w] = s
    BY <2>2 DEF LaunchIInv, ProcInv, SameLaunches, InLaunch
  <2>3. QED
    BY <2>1, <2>2 DEF LaunchIInv, ProcInv
<1>3. QED
  BY <1>1, <1>2

\* Requests, the passes over the services, stopShared and the health monitor's
\* own steps leave the launches alone.
LEMMA QuietLaunch ==
    ASSUME LaunchIInv,
           \/ Handlers
           \/ HealthStep
           \/ UNCHANGED vars
           \/ \E w \in Threads :
                 \/ ReadServices(w)
                 \/ EndPass(w)
                 \/ \E n \in Names : Attach(w, n) /\ services[n] # None
                 \/ \E n \in Names : Detach(w, n)
                 \/ Claim(w) /\ UNCHANGED starting
                 \/ StopShared(w)
    PROVE  SameLaunches /\ UNCHANGED <<cmd, starting, phase, owner>>
<1> USE DEF SameLaunches, InLaunch, LaunchIInv, TypeOK
<1>1. CASE Handlers
  BY <1>1 DEF Handlers, UpdateServices, GoOnline, GoOffline, Delete, BootAttach,
              Begin, svcVars, procVars, goVars
<1>2. CASE HealthStep
  <2>1. CASE HealthBegin
    BY <2>1 DEF HealthBegin, svcVars, procVars
  <2>2. ASSUME NEW s \in States, HealthCheck(s)
        PROVE  SameLaunches /\ UNCHANGED <<cmd, starting, phase, owner>>
    BY <2>2 DEF HealthCheck, svcVars, procVars
  <2>3. QED
    BY <1>2, <2>1, <2>2 DEF HealthStep
<1>3. CASE UNCHANGED vars
  BY <1>3 DEF vars
<1>4. ASSUME NEW w \in Threads,
             \/ ReadServices(w)
             \/ EndPass(w)
             \/ \E n \in Names : Attach(w, n) /\ services[n] # None
             \/ \E n \in Names : Detach(w, n)
             \/ Claim(w) /\ UNCHANGED starting
             \/ StopShared(w)
      PROVE  SameLaunches /\ UNCHANGED <<cmd, starting, phase, owner>>
  <2>1. CASE ReadServices(w)
    BY <2>1 DEF ReadServices, svcVars, procVars
  <2>2. CASE EndPass(w)
    BY <2>2 DEF EndPass, svcVars, procVars
  <2>3. ASSUME NEW n \in Names, Attach(w, n), services[n] # None
        PROVE  SameLaunches /\ UNCHANGED <<cmd, starting, phase, owner>>
    BY <2>3 DEF Attach, procVars
  <2>4. ASSUME NEW n \in Names, Detach(w, n)
        PROVE  SameLaunches /\ UNCHANGED <<cmd, starting, phase, owner>>
    BY <2>4 DEF Detach, procVars
  <2>5. ASSUME Claim(w), UNCHANGED starting
        PROVE  SameLaunches /\ UNCHANGED <<cmd, starting, phase, owner>>
    <3>1. pc[w] = "claim" /\ at[w] \in States
      BY <2>5 DEF Claim, ThreadInv
    <3>2. ~(starting' = [starting EXCEPT ![at[w]] = TRUE] /\ ~starting[at[w]])
      BY <2>5, <3>1
    <3>3. Return(w)
      BY <2>5, <3>2 DEF Claim
    <3>4. QED
      BY <2>5, <3>1, <3>3 DEF Claim, Return, procVars
  <2>6. CASE StopShared(w)
    BY <2>6 DEF StopShared, StopCommand, StopRead, Escalate, WaitDone, Return, svcVars, procVars
  <2>7. QED
    BY <1>4, <2>1, <2>2, <2>3, <2>4, <2>5, <2>6
<1>5. QED
  BY <1>1, <1>2, <1>3, <1>4

\* A new svcState starts with no process and a lowered flag.
LEMMA CreateLaunch ==
    ASSUME LaunchIInv, NEW w \in Threads, NEW n \in Names,
           Attach(w, n), services[n] = None
    PROVE  (LaunchInv /\ ProcInv)'
<1> USE DEF LaunchIInv
<1>1. PICK s \in States :
         /\ Unreachable(s)
         /\ cmd' = [cmd EXCEPT ![s] = None]
         /\ starting' = [starting EXCEPT ![s] = FALSE]
         /\ pc' = [pc EXCEPT ![w] = "claim"]
         /\ at' = [at EXCEPT ![w] = s]
  BY DEF Attach
<1>2. pc[w] = "loop" /\ UNCHANGED <<phase, owner, held>>
  BY DEF Attach, procVars
<1>3. \A v \in Threads : InLaunch(v) => at[v] # s
  BY <1>1 DEF Unreachable
<1>4. \A h \in Handles : owner[h] # s
  BY <1>1 DEF Unreachable
<1>5. LaunchInv'
  BY <1>1, <1>2, <1>3 DEF LaunchInv, TypeOK, ThreadInv, InLaunch
<1>6. ProcInv'
  <2>1. ASSUME NEW h \in Handles, owner[h] # None, cmd'[owner[h]] # h
        PROVE  \E v \in Threads : pc'[v] = "register" /\ at'[v] = owner[h] /\ held'[v] = h
    <3>1. PICK v \in Threads : pc[v] = "register" /\ at[v] = owner[h] /\ held[v] = h
      BY <2>1, <1>1, <1>4 DEF ProcInv, TypeOK
    <3>2. QED
      BY <3>1, <1>1, <1>2 DEF TypeOK
  <2>2. ASSUME NEW r \in States, starting'[r], cmd'[r] = None
        PROVE  \E v \in Threads : pc'[v] \in {"launch", "register"} /\ at'[v] = r
    <3>1. r # s /\ starting[r] /\ cmd[r] = None
      BY <2>2, <1>1 DEF TypeOK
    <3>2. PICK v \in Threads : pc[v] \in {"launch", "register"} /\ at[v] = r
      BY <3>1 DEF ProcInv
    <3>3. QED
      BY <3>2, <1>1, <1>2 DEF TypeOK
  <2>3. ASSUME NEW r \in States, cmd'[r] # None
        PROVE  owner[cmd'[r]] = r /\ starting'[r]
    BY <2>3, <1>1 DEF ProcInv, TypeOK
  <2>4. QED
    BY <1>2, <2>1, <2>2, <2>3 DEF ProcInv
<1>7. QED
  BY <1>5, <1>6

\* Raising the flag begins a launch; nobody else can be inside one.
LEMMA ClaimLaunch ==
    ASSUME LaunchIInv, NEW w \in Threads, Claim(w), starting' # starting
    PROVE  (LaunchInv /\ ProcInv)'
<1> USE DEF LaunchIInv
<1> DEFINE s == at[w]
<1>1. /\ ~starting[s] /\ cmd[s] = None
      /\ starting' = [starting EXCEPT ![s] = TRUE]
      /\ pc' = [pc EXCEPT ![w] = "launch"]
      /\ pc[w] = "claim"
      /\ UNCHANGED <<at, held, cmd, phase, owner>>
  BY DEF Claim, procVars
<1>2. s \in States
  BY <1>1 DEF ThreadInv
<1>3. \A v \in Threads : InLaunch(v) => at[v] # s
  BY <1>1 DEF LaunchInv, InLaunch
<1>4. \A h \in Handles : owner[h] # s
  <2>1. ASSUME NEW h \in Handles, owner[h] = s
        PROVE  FALSE
    <3>1. cmd[s] # h
      BY <1>1
    <3>2. PICK v \in Threads : pc[v] = "register" /\ at[v] = s
      BY <1>2, <2>1, <3>1 DEF ProcInv
    <3>3. QED
      BY <3>2, <1>3 DEF InLaunch
  <2>2. QED
    BY <2>1
<1>5. LaunchInv'
  BY <1>1, <1>2, <1>3, <1>4 DEF LaunchInv, TypeOK, ThreadInv, InLaunch
<1>6. ProcInv'
  <2>1. ASSUME NEW h \in Handles, owner[h] # None, cmd[owner[h]] # h
        PROVE  \E v \in Threads : pc'[v] = "register" /\ at'[v] = owner[h] /\ held'[v] = h
    BY <2>1, <1>1 DEF ProcInv, TypeOK
  <2>2. ASSUME NEW r \in States, starting'[r], cmd'[r] = None
        PROVE  \E v \in Threads : pc'[v] \in {"launch", "register"} /\ at'[v] = r
    <3>1. CASE r = s
      BY <3>1, <1>1 DEF TypeOK
    <3>2. CASE r # s
      BY <3>2, <2>2, <1>1 DEF ProcInv, TypeOK
    <3>3. QED
      BY <3>1, <3>2
  <2>3. ASSUME NEW r \in States, cmd'[r] # None
        PROVE  owner[cmd'[r]] = r /\ starting'[r]
    BY <2>3, <1>1 DEF ProcInv, TypeOK
  <2>4. QED
    BY <1>1, <2>1, <2>2, <2>3 DEF ProcInv
<1>7. QED
  BY <1>5, <1>6

\* A refused launch lowers the flag of a svcState that has no process.
LEMMA RefuseLaunch ==
    ASSUME LaunchIInv, NEW w \in Threads, Refuse(w)
    PROVE  (LaunchInv /\ ProcInv)'
<1> USE DEF LaunchIInv
<1> DEFINE s == at[w]
<1>1. /\ starting' = [starting EXCEPT ![s] = FALSE]
      /\ pc' = [pc EXCEPT ![w] = "loop"]
      /\ at' = [at EXCEPT ![w] = None]
      /\ held' = [held EXCEPT ![w] = None]
      /\ pc[w] = "launch"
      /\ UNCHANGED <<cmd, phase, owner>>
  BY DEF Refuse, Return, procVars
<1>2. s \in States /\ cmd[s] = None
  BY <1>1 DEF ThreadInv, LaunchInv
<1>3. \A v \in Threads : InLaunch(v) /\ v # w => at[v] # s
  BY <1>1 DEF LaunchInv, InLaunch
<1>4. LaunchInv'
  BY <1>1, <1>2, <1>3 DEF LaunchInv, TypeOK, ThreadInv, InLaunch
<1>5. ProcInv'
  <2>1. ASSUME NEW h \in Handles, owner[h] # None, cmd[owner[h]] # h
        PROVE  \E v \in Threads : pc'[v] = "register" /\ at'[v] = owner[h] /\ held'[v] = h
    BY <2>1, <1>1 DEF ProcInv, TypeOK
  <2>2. ASSUME NEW r \in States, starting'[r], cmd'[r] = None
        PROVE  \E v \in Threads : pc'[v] \in {"launch", "register"} /\ at'[v] = r
    <3>1. r # s /\ starting[r] /\ cmd[r] = None
      BY <2>2, <1>1, <1>2 DEF TypeOK
    <3>2. QED
      BY <3>1, <1>1 DEF ProcInv, TypeOK
  <2>3. ASSUME NEW r \in States, cmd'[r] # None
        PROVE  owner[cmd'[r]] = r /\ starting'[r]
    BY <2>3, <1>1, <1>2 DEF ProcInv, TypeOK
  <2>4. QED
    BY <1>1, <2>1, <2>2, <2>3 DEF ProcInv
<1>6. QED
  BY <1>4, <1>5

\* The new process is one nobody knew.
LEMMA SpawnLaunch ==
    ASSUME LaunchIInv, NEW w \in Threads, Launch(w)
    PROVE  (LaunchInv /\ ProcInv)'
<1> USE DEF LaunchIInv
<1> DEFINE s == at[w]
<1>1. PICK h \in Handles :
         /\ phase[h] = "done" /\ \A v \in Threads : held[v] # h
         /\ phase' = [phase EXCEPT ![h] = "live"]
         /\ owner' = [owner EXCEPT ![h] = s]
         /\ held' = [held EXCEPT ![w] = h]
  BY DEF Launch, Unused
<1>2. /\ pc[w] = "launch"
      /\ pc' = [pc EXCEPT ![w] = "register"]
      /\ UNCHANGED <<at, cmd, starting>>
  BY DEF Launch, svcVars
<1>3. s \in States /\ starting[s] /\ cmd[s] = None
  BY <1>2 DEF ThreadInv, LaunchInv
<1>4. \A v \in Threads : InLaunch(v) /\ v # w => at[v] # s
  BY <1>2 DEF LaunchInv, InLaunch
<1>5. owner[h] = None
  BY <1>1 DEF ProcInv, TypeOK
<1>6. LaunchInv'
  BY <1>1, <1>2, <1>3, <1>4 DEF LaunchInv, TypeOK, ThreadInv, InLaunch
<1>7. ProcInv'
  <2>1. ASSUME NEW g \in Handles, owner'[g] # None, cmd'[owner'[g]] # g
        PROVE  \E v \in Threads : pc'[v] = "register" /\ at'[v] = owner'[g] /\ held'[v] = g
    <3>1. CASE g = h
      BY <3>1, <1>1, <1>2 DEF TypeOK
    <3>2. CASE g # h
      <4>1. PICK v \in Threads : pc[v] = "register" /\ at[v] = owner[g] /\ held[v] = g
        BY <3>2, <2>1, <1>1, <1>2 DEF ProcInv, TypeOK
      <4>2. v # w
        BY <4>1, <1>2
      <4>3. QED
        BY <4>1, <4>2, <3>2, <1>1, <1>2 DEF TypeOK
    <3>3. QED
      BY <3>1, <3>2
  <2>2. ASSUME NEW r \in States, starting'[r], cmd'[r] = None
        PROVE  \E v \in Threads : pc'[v] \in {"launch", "register"} /\ at'[v] = r
    BY <2>2, <1>2 DEF ProcInv, TypeOK
  <2>3. ASSUME NEW r \in States, cmd'[r] # None
        PROVE  owner'[cmd'[r]] = r /\ starting'[r]
    BY <2>3, <1>1, <1>2, <1>5 DEF ProcInv, TypeOK
  <2>4. \A g \in Handles : owner'[g] # None <=> phase'[g] \in {"live", "exited"}
    BY <1>1, <1>3 DEF ProcInv, TypeOK
  <2>5. QED
    BY <2>1, <2>2, <2>3, <2>4 DEF ProcInv
<1>8. QED
  BY <1>6, <1>7

\* Storing the process ends the launch.
LEMMA RegisterLaunch ==
    ASSUME LaunchIInv, NEW w \in Threads, Register(w)
    PROVE  (LaunchInv /\ ProcInv)'
<1> USE DEF LaunchIInv
<1> DEFINE s == at[w]
           h == held[w]
<1>1. /\ pc[w] = "register"
      /\ cmd' = [cmd EXCEPT ![s] = h]
      /\ pc' = [pc EXCEPT ![w] = "loop"]
      /\ at' = [at EXCEPT ![w] = None]
      /\ held' = [held EXCEPT ![w] = None]
      /\ UNCHANGED <<starting, phase, owner>>
  BY DEF Register, Return, procVars
<1>2. s \in States /\ h \in Handles /\ starting[s] /\ cmd[s] = None /\ owner[h] = s
  BY <1>1 DEF ThreadInv, LaunchInv
<1>3. \A v \in Threads : InLaunch(v) /\ v # w => at[v] # s
  BY <1>1 DEF LaunchInv, InLaunch
<1>4. LaunchInv'
  BY <1>1, <1>2, <1>3 DEF LaunchInv, TypeOK, ThreadInv, InLaunch
<1>5. ProcInv'
  <2>1. ASSUME NEW g \in Handles, owner[g] # None, cmd'[owner[g]] # g
        PROVE  \E v \in Threads : pc'[v] = "register" /\ at'[v] = owner[g] /\ held'[v] = g
    <3>1. g # h /\ cmd[owner[g]] # g
      BY <2>1, <1>1, <1>2, NoneAssumption DEF TypeOK
    <3>2. PICK v \in Threads : pc[v] = "register" /\ at[v] = owner[g] /\ held[v] = g
      BY <2>1, <3>1 DEF ProcInv
    <3>3. QED
      BY <3>1, <3>2, <1>1 DEF TypeOK
  <2>2. ASSUME NEW r \in States, starting[r], cmd'[r] = None
        PROVE  \E v \in Threads : pc'[v] \in {"launch", "register"} /\ at'[v] = r
    <3>1. r # s /\ cmd[r] = None
      BY <2>2, <1>1, <1>2, NoneAssumption DEF TypeOK
    <3>2. QED
      BY <2>2, <3>1, <1>1 DEF ProcInv, TypeOK
  <2>3. ASSUME NEW r \in States, cmd'[r] # None
        PROVE  owner[cmd'[r]] = r /\ starting[r]
    BY <2>3, <1>1, <1>2 DEF ProcInv, TypeOK
  <2>4. QED
    BY <1>1, <2>1, <2>2, <2>3 DEF ProcInv
<1>6. QED
  BY <1>4, <1>5

\* A process dies, is waited for, and its done channel is closed.
LEMMA ProcLaunch ==
    ASSUME LaunchIInv, ProcStep
    PROVE  (LaunchInv /\ ProcInv)'
<1> USE DEF LaunchIInv
<1>1. ASSUME NEW h \in Handles, Exit(h)
      PROVE  (LaunchInv /\ ProcInv)'
  BY <1>1 DEF Exit, svcVars, goVars, LaunchInv, ProcInv, TypeOK, ThreadInv
<1>2. ASSUME NEW h \in Handles, CloseDone(h)
      PROVE  (LaunchInv /\ ProcInv)'
  BY <1>2 DEF CloseDone, svcVars, goVars, LaunchInv, ProcInv, TypeOK, ThreadInv
<1>3. ASSUME NEW h \in Handles, Reap(h)
      PROVE  (LaunchInv /\ ProcInv)'
  <2> DEFINE s == owner[h]
  <2>1. /\ cmd[s] = h
        /\ phase[h] = "exited"
        /\ phase' = [phase EXCEPT ![h] = "reaped"]
        /\ cmd' = [cmd EXCEPT ![s] = None]
        /\ starting' = [starting EXCEPT ![s] = FALSE]
        /\ owner' = [owner EXCEPT ![h] = None]
        /\ UNCHANGED <<pc, at, held>>
    BY <1>3 DEF Reap, goVars
  <2>2. s \in States
    BY <2>1 DEF ProcInv, TypeOK
  <2>3. \A v \in Threads : InLaunch(v) => at[v] # s
    BY <2>1, NoneAssumption DEF LaunchInv, InLaunch
  <2>4. \A g \in Handles : owner[g] = s => g = h
    BY <2>1, <2>2, <2>3 DEF ProcInv, InLaunch
  <2>5. \A v \in Threads : pc[v] = "register" => held[v] # h
    BY <2>3 DEF LaunchInv, InLaunch
  <2>6. LaunchInv'
    BY <2>1, <2>2, <2>3, <2>5 DEF LaunchInv, TypeOK, ThreadInv, InLaunch
  <2>7. ProcInv'
    <3>1. ASSUME NEW g \in Handles, owner'[g] # None, cmd'[owner'[g]] # g
          PROVE  \E v \in Threads : pc'[v] = "register" /\ at'[v] = owner'[g] /\ held'[v] = g
      <4>1. g # h /\ owner'[g] = owner[g] /\ owner[g] # s
        BY <3>1, <2>1, <2>4 DEF TypeOK
      <4>2. cmd[owner[g]] # g
        BY <3>1, <4>1, <2>1 DEF TypeOK
      <4>3. QED
        BY <3>1, <4>1, <4>2, <2>1 DEF ProcInv
    <3>2. ASSUME NEW r \in States, starting'[r], cmd'[r] = None
          PROVE  \E v \in Threads : pc'[v] \in {"launch", "register"} /\ at'[v] = r
      BY <3>2, <2>1, <2>2 DEF ProcInv, TypeOK
    <3>3. ASSUME NEW r \in States, cmd'[r] # None
          PROVE  owner'[cmd'[r]] = r /\ starting'[r]
      BY <3>3, <2>1, <2>2 DEF ProcInv, TypeOK
    <3>4. \A g \in Handles : owner'[g] # None <=> phase'[g] \in {"live", "exited"}
      BY <2>1 DEF ProcInv, TypeOK
    <3>5. QED
      BY <3>1, <3>2, <3>3, <3>4 DEF ProcInv
  <2>8. QED
    BY <2>6, <2>7
<1>4. QED
  BY <1>1, <1>2, <1>3 DEF ProcStep

\* The launch invariant is inductive.
LEMMA NextLaunch == LaunchIInv /\ [Next]_vars => LaunchIInv'
<1> SUFFICES ASSUME LaunchIInv, [Next]_vars
             PROVE  LaunchIInv'
  OBVIOUS
<1>1. (TypeOK /\ ThreadInv)'
  BY NextTyped DEF LaunchIInv
<1>2. CASE Handlers \/ HealthStep \/ UNCHANGED vars
  BY <1>1, <1>2, QuietLaunch, FrameLaunch DEF LaunchIInv
<1>3. CASE ProcStep
  BY <1>1, <1>3, ProcLaunch DEF LaunchIInv
<1>4. ASSUME NEW w \in Threads, ThreadStep(w)
      PROVE  LaunchIInv'
  <2>1. CASE \/ ReadServices(w) \/ EndPass(w) \/ StopShared(w)
             \/ \E n \in Names : Detach(w, n)
    BY <1>1, <2>1, QuietLaunch, FrameLaunch DEF LaunchIInv
  <2>2. ASSUME NEW n \in Names, Attach(w, n)
        PROVE  LaunchIInv'
    <3>1. CASE services[n] = None
      BY <1>1, <2>2, <3>1, CreateLaunch DEF LaunchIInv
    <3>2. CASE services[n] # None
      BY <1>1, <2>2, <3>2, QuietLaunch, FrameLaunch DEF LaunchIInv
    <3>3. QED
      BY <3>1, <3>2
  <2>3. CASE Claim(w)
    <3>1. CASE UNCHANGED starting
      BY <1>1, <2>3, <3>1, QuietLaunch, FrameLaunch DEF LaunchIInv
    <3>2. CASE starting' # starting
      BY <1>1, <2>3, <3>2, ClaimLaunch DEF LaunchIInv
    <3>3. QED
      BY <3>1, <3>2
  <2>4. CASE Refuse(w) \/ Launch(w) \/ Register(w)
    BY <1>1, <2>4, RefuseLaunch, SpawnLaunch, RegisterLaunch DEF LaunchIInv
  <2>5. QED
    BY <1>4, <2>1, <2>2, <2>3, <2>4 DEF ThreadStep, StartShared
<1>5. QED
  BY <1>2, <1>3, <1>4 DEF Next

\* At start nothing is launched.
LEMMA InitLaunch == Init => LaunchIInv
  BY InitTyped DEF Init, LaunchIInv, LaunchInv, ProcInv

\* The launch invariant holds in every reachable state.
LEMMA LaunchInvariant == Spec => []LaunchIInv
  BY InitLaunch, NextLaunch, PTL DEF Spec

\* No svcState ever runs two processes.
THEOREM OneProcessPerStateHolds == Spec => []OneProcessPerState
<1>1. LaunchIInv => OneProcessPerState
  <2> SUFFICES ASSUME LaunchIInv, NEW g \in Handles, NEW h \in Handles,
                      owner[g] # None, owner[g] = owner[h]
               PROVE  g = h
    BY DEF OneProcessPerState
  <2> USE DEF LaunchIInv
  <2>1. owner[g] \in States
    BY DEF TypeOK
  <2>2. CASE cmd[owner[g]] = g
    <3>1. \A w \in Threads : InLaunch(w) => at[w] # owner[g]
      BY <2>2 DEF LaunchInv, InLaunch
    <3>2. cmd[owner[h]] = h
      BY <3>1 DEF ProcInv, InLaunch
    <3>3. QED
      BY <2>2, <3>2
  <2>3. CASE cmd[owner[g]] # g
    <3>1. PICK w \in Threads : pc[w] = "register" /\ at[w] = owner[g] /\ held[w] = g
      BY <2>3 DEF ProcInv
    <3>2. cmd[owner[h]] # h
      BY <3>1 DEF LaunchInv
    <3>3. PICK v \in Threads : pc[v] = "register" /\ at[v] = owner[h] /\ held[v] = h
      BY <3>2 DEF ProcInv
    <3>4. v = w
      BY <3>1, <3>3 DEF LaunchInv
    <3>5. QED
      BY <3>1, <3>3, <3>4
  <2>4. QED
    BY <2>2, <2>3
<1>2. QED
  BY <1>1, LaunchInvariant, PTL

\* The launch guard is up exactly while there is something to guard.
THEOREM FlagMeansLaunchHolds == Spec => []FlagMeansLaunch
<1>1. LaunchIInv => FlagMeansLaunch
  <2> SUFFICES ASSUME LaunchIInv, NEW s \in States
               PROVE  starting[s] <=>
                         Launching(s) # {} \/ \E h \in Handles : owner[h] = s
    BY DEF FlagMeansLaunch
  <2> USE DEF LaunchIInv
  <2>1. ASSUME starting[s]
        PROVE  Launching(s) # {} \/ \E h \in Handles : owner[h] = s
    <3>1. CASE cmd[s] # None
      BY <3>1 DEF ProcInv, TypeOK
    <3>2. CASE cmd[s] = None
      BY <2>1, <3>2 DEF ProcInv, Launching
    <3>3. QED
      BY <3>1, <3>2
  <2>2. ASSUME NEW w \in Threads, w \in Launching(s)
        PROVE  starting[s]
    BY <2>2 DEF Launching, LaunchInv
  <2>3. ASSUME NEW h \in Handles, owner[h] = s
        PROVE  starting[s]
    <3>1. CASE cmd[s] = h
      BY <3>1 DEF ProcInv
    <3>2. CASE cmd[s] # h
      BY <2>3, <3>2 DEF ProcInv, LaunchInv
    <3>3. QED
      BY <3>1, <3>2
  <2>4. QED
    BY <2>1, <2>2, <2>3 DEF Launching
<1>2. QED
  BY <1>1, LaunchInvariant, PTL

-----------------------------------------------------------------------------
(* Registered and referenced are the same *)

\* Only AttachServices and DetachServices write the map and the reference sets.
LEMMA OnlyAttachDetach ==
    ASSUME [Next]_vars,
           \A w \in Threads, n \in Names : ~Attach(w, n) /\ ~Detach(w, n)
    PROVE  UNCHANGED <<services, name, refs>>
<1>1. CASE Handlers
  BY <1>1 DEF Handlers, UpdateServices, GoOnline, GoOffline, Delete, BootAttach, svcVars
<1>2. CASE HealthStep
  BY <1>2 DEF HealthStep, HealthBegin, HealthCheck, svcVars
<1>3. CASE ProcStep
  BY <1>3 DEF ProcStep, Exit, Reap, CloseDone, svcVars
<1>4. CASE UNCHANGED vars
  BY <1>4 DEF vars
<1>5. CASE \E w \in Threads : ThreadStep(w)
  BY <1>5 DEF ThreadStep, ReadServices, EndPass, StartShared, Claim, Refuse, Launch,
              Register, StopShared, StopCommand, StopRead, Escalate, WaitDone, svcVars
<1>6. QED
  BY <1>1, <1>2, <1>3, <1>4, <1>5 DEF Next

\* AttachServices enters a svcState in the map together with its first reference.
LEMMA AttachRegisters ==
    ASSUME TypeOK, ThreadInv, RegisteredIsReferenced,
           NEW w \in Threads, NEW n \in Names, Attach(w, n)
    PROVE  RegisteredIsReferenced'
<1>1. CASE services[n] # None
  BY <1>1 DEF Attach, TypeOK, RegisteredIsReferenced
<1>2. CASE services[n] = None
  <2>1. PICK s \in States :
           /\ Unreachable(s)
           /\ services' = [services EXCEPT ![n] = s]
           /\ name' = [name EXCEPT ![s] = n]
           /\ refs' = [refs EXCEPT ![s] = {who[w]}]
    BY <1>2 DEF Attach
  <2>2. \A m \in Names : services[m] # s
    BY <2>1 DEF Unreachable
  <2>3. ASSUME NEW m \in Names, services'[m] # None
        PROVE  name'[services'[m]] = m /\ refs'[services'[m]] # {}
    <3>1. CASE m = n
      BY <3>1, <2>1 DEF TypeOK
    <3>2. CASE m # n
      BY <3>2, <2>1, <2>2, <2>3 DEF TypeOK, RegisteredIsReferenced
    <3>3. QED
      BY <3>1, <3>2
  <2>4. ASSUME NEW r \in States, refs'[r] # {}
        PROVE  \E m \in Names : services'[m] = r
    <3>1. CASE r = s
      BY <3>1, <2>1 DEF TypeOK
    <3>2. CASE r # s
      <4>1. PICK m \in Names : services[m] = r
        BY <3>2, <2>1, <2>4 DEF TypeOK, RegisteredIsReferenced
      <4>2. m # n
        BY <4>1, <1>2
      <4>3. QED
        BY <4>1, <4>2, <2>1 DEF TypeOK
    <3>3. QED
      BY <3>1, <3>2
  <2>5. QED
    BY <2>3, <2>4 DEF RegisteredIsReferenced
<1>3. QED
  BY <1>1, <1>2

\* DetachServices drops a svcState from the map together with its last reference.
LEMMA DetachRegisters ==
    ASSUME TypeOK, RegisteredIsReferenced,
           NEW w \in Threads, NEW n \in Names, Detach(w, n)
    PROVE  RegisteredIsReferenced'
<1>1. CASE services[n] = None
  BY <1>1 DEF Detach, RegisteredIsReferenced
<1>2. CASE services[n] # None
  <2> DEFINE s == services[n]
             last == refs[s] \ {who[w]} = {}
  <2>1. /\ refs' = [refs EXCEPT ![s] = refs[s] \ {who[w]}]
        /\ services' = [services EXCEPT ![n] = IF last THEN None ELSE s]
        /\ UNCHANGED name
        /\ s \in States /\ name[s] = n
    BY <1>2 DEF Detach, TypeOK, RegisteredIsReferenced
  <2>2. ASSUME NEW m \in Names, services'[m] # None
        PROVE  name'[services'[m]] = m /\ refs'[services'[m]] # {}
    <3>1. CASE m = n
      BY <3>1, <2>1, <2>2 DEF TypeOK
    <3>2. CASE m # n
      <4>1. services'[m] = services[m] /\ services[m] \in States /\ services[m] # s
        BY <3>2, <2>1, <2>2 DEF TypeOK, RegisteredIsReferenced
      <4>2. QED
        BY <4>1, <2>1, <2>2 DEF TypeOK, RegisteredIsReferenced
    <3>3. QED
      BY <3>1, <3>2
  <2>3. ASSUME NEW r \in States, refs'[r] # {}
        PROVE  \E m \in Names : services'[m] = r
    <3>1. CASE r = s
      BY <3>1, <2>1, <2>3 DEF TypeOK
    <3>2. CASE r # s
      <4>1. PICK m \in Names : services[m] = r
        BY <3>2, <2>1, <2>3 DEF TypeOK, RegisteredIsReferenced
      <4>2. m # n
        BY <4>1, <3>2
      <4>3. QED
        BY <4>1, <4>2, <2>1 DEF TypeOK
    <3>3. QED
      BY <3>1, <3>2
  <2>4. QED
    BY <2>2, <2>3 DEF RegisteredIsReferenced
<1>3. QED
  BY <1>1, <1>2

\* pm.services holds exactly the svcStates somebody references.
THEOREM RegisteredIsReferencedHolds == Spec => []RegisteredIsReferenced
<1> DEFINE I == TypeOK /\ ThreadInv /\ RegisteredIsReferenced
<1>1. Init => I
  BY InitTyped DEF Init, RegisteredIsReferenced
<1>2. I /\ [Next]_vars => I'
  <2> SUFFICES ASSUME I, [Next]_vars
               PROVE  RegisteredIsReferenced'
    BY NextTyped
  <2>1. CASE \A w \in Threads, n \in Names : ~Attach(w, n) /\ ~Detach(w, n)
    BY <2>1, OnlyAttachDetach DEF RegisteredIsReferenced
  <2>2. QED
    BY <2>1, AttachRegisters, DetachRegisters
<1>3. QED
  BY <1>1, <1>2, PTL DEF Spec

=============================================================================
