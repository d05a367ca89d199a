---------------------------- MODULE BackgroundProofs ----------------------------
(* Theorems about the components that run beside the requests, and about their *)
(* composition: RateLimit, DBPool, Backups, DeployUpdate, TgBot and CronParse, *)
(* for any clients, goroutines, projects, commits, updates, faults, calendars  *)
(* and expressions.                                                            *)
EXTENDS MCBackground, Extremes, FiniteSetTheorems, SequenceTheorems

-----------------------------------------------------------------------------
(* RateLimit: the sliding window lets no more through than it should, although
   stamps are recorded out of order and addresses are swept. *)

\* A stamp is read before it is used.
StampInv ==
    /\ \A r \in Requests : req[r].stamp <= clock
    /\ \A c \in Clients : \A i \in 1..Len(grants[c]) : grants[c][i].stamp <= clock

\* Grant m of c is a whole window old.
Expired(c, m) == grants[c][m].stamp + Window <= clock

\* A grant that is no longer recorded is a window old, or a later one is.
ForgottenInv ==
    \A c \in Clients : \A i \in 1..Len(grants[c]) :
        i \in hits[c] \/ \E m \in i..Len(grants[c]) : Expired(c, m)

\* The inductive invariant.
LimitInv == LimitTypeOK /\ StampInv /\ ForgottenInv /\ WindowBound

\* At the start of the server nothing has been granted.
THEOREM InitLimitInv == LimitInit => LimitInv
  BY LimitAssumption
  DEF LimitInit, LimitInv, LimitTypeOK, StampInv, ForgottenInv, WindowBound, NoRequest

\* A recorded grant has a stamp and a time.
LEMMA GrantType ==
    ASSUME LimitInv, NEW c \in Clients, NEW i \in 1..Len(grants[c])
    PROVE  grants[c][i].stamp \in Nat /\ grants[c][i].at \in Nat
<1>1. grants[c] \in Seq([stamp : Nat, at : Nat])
  BY DEF LimitInv, LimitTypeOK
<1>2. grants[c][i] \in [stamp : Nat, at : Nat]
  BY <1>1, ElementOfSeq
<1>3. QED
  BY <1>2

\* Forgetting an address in a sweep only loses grants followed by an expired one.
LEMMA SweepForgetsExpired ==
    ASSUME LimitInv, NEW moment \in Nat, moment <= clock, NEW c \in Clients, c \in Swept(moment),
           NEW i \in 1..Len(grants[c])
    PROVE  \E m \in i..Len(grants[c]) : Expired(c, m)
<1>1. CASE i \notin hits[c]
  BY <1>1 DEF LimitInv, ForgottenInv
<1>2. CASE i \in hits[c]
  <2>1. c \in Stale(moment)
    BY DEF Swept
  <2>2. PICK m \in hits[c] : i <= m /\ moment > grants[c][m].stamp + Window
    BY <1>2, <2>1 DEF Stale
  <2>3. m \in 1..Len(grants[c])
    BY DEF LimitInv, LimitTypeOK
  <2>4. grants[c][m].stamp \in Nat
    BY <2>3, GrantType
  <2>5. Expired(c, m)
    <3>1. clock \in Nat /\ Window \in Nat
      BY LimitAssumption DEF LimitInv, LimitTypeOK
    <3>2. clock >= grants[c][m].stamp + Window
      BY <2>2, <2>4, <3>1
    <3>3. QED
      BY <3>2 DEF Expired
  <2>6. QED
    BY <2>2, <2>3, <2>5
<1>3. QED
  BY <1>1, <1>2

\* What the mutex holder does not keep is a window old, or a later grant is.
LEMMA DroppedIsExpired ==
    ASSUME LimitInv, NEW moment \in Nat, moment <= clock, NEW c \in Clients,
           NEW i \in 1..Len(grants[c]), i \notin Kept(c, moment)
    PROVE  \E m \in i..Len(grants[c]) : Expired(c, m)
<1>1. CASE c \in Swept(moment)
  BY <1>1, SweepForgetsExpired
<1>2. CASE c \notin Swept(moment) /\ i \notin hits[c]
  BY <1>2 DEF LimitInv, ForgottenInv
<1>3. CASE c \notin Swept(moment) /\ i \in hits[c]
  <2>1. grants[c][i].stamp \in Nat
    BY GrantType
  <2>2. ~(moment < grants[c][i].stamp + Window)
    BY <1>3 DEF Kept
  <2>3. Expired(c, i)
    BY <2>1, <2>2, LimitAssumption DEF Expired, LimitInv, LimitTypeOK
  <2>4. QED
    BY <2>3
<1>4. QED
  BY <1>1, <1>2, <1>3

\* Fewer than Max grants kept: one of the last Max grants has expired.
LEMMA RoomMeansExpired ==
    ASSUME LimitInv, NEW moment \in Nat, moment <= clock, NEW c \in Clients,
           Cardinality(Kept(c, moment)) < Max, Len(grants[c]) >= Max
    PROVE  \E m \in (Len(grants[c]) + 1 - Max)..Len(grants[c]) : Expired(c, m)
<1> DEFINE n == Len(grants[c])
           recent == (n + 1 - Max)..n
<1>1. n \in Nat /\ Max \in Nat \ {0} /\ recent \subseteq 1..n
  BY LimitAssumption DEF LimitInv, LimitTypeOK
<1>2. Cardinality(recent) = Max
  <2>1. n + 1 - Max \in Int /\ n \in Int
    BY <1>1
  <2>2. Cardinality(recent) = IF n + 1 - Max > n THEN 0 ELSE n - (n + 1 - Max) + 1
    BY <2>1, FS_Interval
  <2>3. QED
    BY <1>1, <2>2
<1>3. Kept(c, moment) \subseteq 1..n
  BY DEF Kept, LimitInv, LimitTypeOK
<1>4. IsFiniteSet(Kept(c, moment))
  <2>1. 1 \in Int /\ n \in Int
    BY <1>1
  <2> HIDE DEF n
  <2>2. IsFiniteSet(1..n)
    BY <2>1, FS_Interval
  <2> QED
    BY <1>3, <2>2, FS_Subset
<1>5. ~(recent \subseteq Kept(c, moment))
  <2>1. SUFFICES ASSUME recent \subseteq Kept(c, moment)
                 PROVE  FALSE
    OBVIOUS
  <2>2. Cardinality(recent) <= Cardinality(Kept(c, moment))
    BY <1>4, <2>1, FS_Subset
  <2>3. Cardinality(Kept(c, moment)) \in Nat
    BY <1>4, FS_CardinalityType
  <2>4. QED
    BY <1>1, <1>2, <2>2, <2>3
<1>6. PICK i \in recent : i \notin Kept(c, moment)
  BY <1>5
<1>7. PICK m \in i..n : Expired(c, m)
  BY <1>1, <1>6, DroppedIsExpired
<1>8. QED
  BY <1>1, <1>7

\* What the critical section of a request knows of it.
LEMMA RequestType ==
    ASSUME LimitInv, NEW r \in Requests, req[r].client # NoClient
    PROVE  req[r].client \in Clients /\ req[r].stamp \in Nat /\ req[r].stamp <= clock
<1>1. req[r] \in [client : Clients \cup {NoClient}, stamp : Nat]
  BY DEF LimitInv, LimitTypeOK
<1>2. QED
  BY <1>1 DEF LimitInv, StampInv

\* A request that is refused changes no grant, and what it makes the limiter
\* forget has expired.
LEMMA RefusePreserves ==
    ASSUME LimitInv, NEW r \in Requests, Refuse(r)
    PROVE  LimitInv'
<1> DEFINE c == req[r].client
           moment == req[r].stamp
<1>1. c \in Clients /\ moment \in Nat /\ moment <= clock
  BY RequestType DEF Refuse
<1>2. /\ clock' = clock /\ grants' = grants
      /\ known' = (known \ Swept(moment)) \cup {c}
      /\ req' = [req EXCEPT ![r] = NoRequest]
      /\ hits' = [d \in Clients |-> IF d = c THEN Kept(c, moment)
                                    ELSE IF d \in Swept(moment) THEN {} ELSE hits[d]]
  BY DEF Refuse
<1>3. LimitTypeOK'
  BY <1>1, <1>2 DEF LimitInv, LimitTypeOK, NoRequest, Kept
<1>4. StampInv' /\ WindowBound'
  BY <1>2 DEF LimitInv, LimitTypeOK, StampInv, WindowBound, NoRequest
<1>5. ASSUME NEW d \in Clients, NEW i \in 1..Len(grants[d]), i \notin hits'[d]
      PROVE  \E m \in i..Len(grants[d]) : Expired(d, m)
  <2>1. CASE d = c
    BY <1>1, <1>2, <1>5, <2>1, DroppedIsExpired
  <2>2. CASE d # c /\ d \in Swept(moment)
    BY <1>1, <2>2, SweepForgetsExpired
  <2>3. CASE d # c /\ d \notin Swept(moment)
    BY <1>2, <1>5, <2>3 DEF LimitInv, ForgottenInv
  <2>4. QED
    BY <2>1, <2>2, <2>3
<1>6. ForgottenInv'
  BY <1>2, <1>5 DEF ForgottenInv, Expired
<1>7. QED
  BY <1>3, <1>4, <1>6 DEF LimitInv

\* A request that is let through comes a window after one of the last Max
\* grants of its address, if there are as many.
LEMMA GrantPreserves ==
    ASSUME LimitInv, NEW r \in Requests, Grant(r)
    PROVE  LimitInv'
<1> DEFINE moment == req[r].stamp
<1>0. PICK c \in Clients : c = req[r].client
  BY RequestType DEF Grant
<1> DEFINE n == Len(grants[c])
           g == [stamp |-> moment, at |-> clock]
<1>1. moment \in Nat /\ moment <= clock /\ clock \in Nat /\ n \in Nat /\ Max \in Nat \ {0}
  <2>1. moment \in Nat /\ moment <= clock
    BY RequestType DEF Grant
  <2>2. QED
    BY <2>1, LimitAssumption DEF LimitInv, LimitTypeOK
<1>2. /\ clock' = clock
      /\ grants' = [grants EXCEPT ![c] = Append(grants[c], g)]
      /\ known' = (known \ Swept(moment)) \cup {c}
      /\ req' = [req EXCEPT ![r] = NoRequest]
      /\ hits' = [d \in Clients |-> IF d = c THEN Kept(c, moment) \cup {n + 1}
                                    ELSE IF d \in Swept(moment) THEN {} ELSE hits[d]]
      /\ Cardinality(Kept(c, moment)) < Max
  BY <1>0 DEF Grant
<1>3. /\ grants' \in [Clients -> Seq([stamp : Nat, at : Nat])]
      /\ Len(grants'[c]) = n + 1
      /\ grants'[c][n + 1] = g
      /\ \A i \in 1..n : grants'[c][i] = grants[c][i]
      /\ \A d \in Clients \ {c} : grants'[d] = grants[d]
  <2>1. grants \in [Clients -> Seq([stamp : Nat, at : Nat])]
    BY DEF LimitInv, LimitTypeOK
  <2>2. grants[c] \in Seq([stamp : Nat, at : Nat]) /\ g \in [stamp : Nat, at : Nat]
    BY <1>1, <2>1
  <2>3. /\ Append(grants[c], g) \in Seq([stamp : Nat, at : Nat])
        /\ Len(Append(grants[c], g)) = n + 1
        /\ Append(grants[c], g)[n + 1] = g
        /\ \A i \in 1..n : Append(grants[c], g)[i] = grants[c][i]
    BY <2>2, AppendProperties
  <2>4. QED
    BY <1>2, <2>1, <2>3
<1>4. LimitTypeOK'
  <2>1. \A d \in Clients : hits'[d] \subseteq 1..Len(grants'[d])
    BY <1>1, <1>2, <1>3 DEF LimitInv, LimitTypeOK, Kept
  <2>2. hits' \in [Clients -> SUBSET Nat]
    BY <1>1, <1>2 DEF LimitInv, LimitTypeOK, Kept
  <2>3. QED
    BY <1>2, <1>3, <2>1, <2>2 DEF LimitInv, LimitTypeOK, NoRequest
<1>5. StampInv'
  <2>1. \A q \in Requests : req'[q].stamp <= clock'
    BY <1>1, <1>2 DEF LimitInv, LimitTypeOK, StampInv, NoRequest
  <2>2. ASSUME NEW d \in Clients, NEW i \in 1..Len(grants'[d])
        PROVE  grants'[d][i].stamp <= clock'
    <3>1. CASE d # c
      BY <1>2, <1>3, <3>1 DEF LimitInv, StampInv
    <3>2. CASE d = c /\ i \in 1..n
      BY <1>2, <1>3, <3>2 DEF LimitInv, StampInv
    <3>3. CASE d = c /\ i = n + 1
      BY <1>1, <1>2, <1>3, <3>3
    <3>4. d = c => i \in 1..n \/ i = n + 1
      <4>1. d = c => i \in 1..(n + 1)
        BY <1>3
      <4>2. QED
        BY <1>1, <4>1
    <3>5. QED
      BY <3>1, <3>2, <3>3, <3>4
  <2>3. QED
    BY <2>1, <2>2 DEF StampInv
<1>6. \A d \in Clients : \A m \in 1..Len(grants[d]) :
        /\ m \in 1..Len(grants'[d])
        /\ Expired(d, m) => Expired(d, m)'
  BY <1>1, <1>2, <1>3 DEF Expired
<1>7. ForgottenInv'
  <2>1. ASSUME NEW d \in Clients, NEW i \in 1..Len(grants'[d]), i \notin hits'[d]
        PROVE  \E m \in i..Len(grants[d]) : i \in 1..Len(grants[d]) /\ Expired(d, m)
    <3>1. CASE d = c
      <4>1. i \in 1..n /\ i \notin Kept(c, moment)
        BY <1>1, <1>2, <1>3, <2>1, <3>1
      <4>2. QED
        BY <1>1, <3>1, <4>1, DroppedIsExpired
    <3>2. CASE d # c /\ d \in Swept(moment)
      BY <1>1, <1>3, <3>2, SweepForgetsExpired
    <3>3. CASE d # c /\ d \notin Swept(moment)
      BY <1>2, <1>3, <2>1, <3>3 DEF LimitInv, ForgottenInv
    <3>4. QED
      BY <3>1, <3>2, <3>3
  <2>2. ASSUME NEW d \in Clients, NEW i \in 1..Len(grants'[d]), i \notin hits'[d]
        PROVE  \E m \in i..Len(grants'[d]) : Expired(d, m)'
    <3>1. PICK m \in i..Len(grants[d]) : i \in 1..Len(grants[d]) /\ Expired(d, m)
      BY <2>1, <2>2
    <3>2. m \in 1..Len(grants[d])
      BY <3>1
    <3>3. QED
      BY <1>6, <3>1, <3>2
  <2>3. QED
    BY <2>2 DEF ForgottenInv
<1>8. WindowBound'
  <2>1. ASSUME NEW d \in Clients, NEW j \in (Max + 1)..Len(grants'[d])
        PROVE  \E m \in (j - Max)..(j - 1) : grants'[d][j].at >= grants'[d][m].stamp + Window
    <3>1. CASE d # c
      BY <1>3, <3>1 DEF LimitInv, WindowBound
    <3>2. CASE d = c /\ j \in 1..n
      <4>1. j \in (Max + 1)..n /\ (j - Max)..(j - 1) \subseteq 1..n
        BY <1>1, <3>2
      <4>2. PICK m \in (j - Max)..(j - 1) : grants[c][j].at >= grants[c][m].stamp + Window
        BY <4>1 DEF LimitInv, WindowBound
      <4>3. QED
        BY <1>3, <3>2, <4>1, <4>2
    <3>3. CASE d = c /\ j = n + 1
      <4>1. n >= Max
        BY <1>1, <3>3
      <4>2. PICK m \in (n + 1 - Max)..n : Expired(c, m)
        BY <1>1, <1>2, <4>1, RoomMeansExpired
      <4>3. m \in 1..n
        BY <1>1, <4>1, <4>2
      <4>4. grants'[c][j].at = clock /\ grants'[c][m].stamp = grants[c][m].stamp
        <5>1. grants'[c][m] = grants[c][m]
          BY <1>3, <4>3
        <5>2. grants'[c][j] = g
          BY <1>3, <3>3
        <5>3. QED
          BY <5>1, <5>2
      <4>5. grants[c][m].stamp \in Nat
        BY <4>3, GrantType
      <4>6. clock >= grants[c][m].stamp + Window
        BY <4>2 DEF Expired
      <4>7. m \in (j - Max)..(j - 1)
        BY <1>1, <3>3, <4>2
      <4>8. grants'[c][j].at >= grants'[c][m].stamp + Window
        BY <4>4, <4>6
      <4>9. QED
        BY <3>3, <4>7, <4>8
    <3>4. d = c => j \in 1..n \/ j = n + 1
      <4>1. d = c => j \in (Max + 1)..(n + 1)
        BY <1>3
      <4>2. QED
        BY <1>1, <4>1
    <3>5. QED
      BY <3>1, <3>2, <3>3, <3>4
  <2>2. QED
    BY <2>1 DEF WindowBound
<1>9. QED
  BY <1>4, <1>5, <1>7, <1>8 DEF LimitInv

\* The clock and the requests that only read it keep the invariant: an expired
\* grant stays expired.
LEMMA ClockPreserves ==
    ASSUME LimitInv, UNCHANGED <<known, hits, grants>>,
           clock' \in Nat, clock <= clock',
           req' \in [Requests -> [client : Clients \cup {NoClient}, stamp : Nat]],
           \A r \in Requests : req'[r].stamp <= clock'
    PROVE  LimitInv'
<1>1. LimitTypeOK' /\ WindowBound'
  BY DEF LimitInv, LimitTypeOK, WindowBound
<1>2. ASSUME NEW c \in Clients, NEW i \in 1..Len(grants[c])
      PROVE  grants[c][i].stamp <= clock' /\ (Expired(c, i) => Expired(c, i)')
  <2>1. grants[c][i].stamp \in Nat /\ grants[c][i].stamp <= clock
    BY GrantType DEF LimitInv, StampInv
  <2>2. clock \in Nat /\ Window \in Nat
    BY LimitAssumption DEF LimitInv, LimitTypeOK
  <2>3. clock >= grants[c][i].stamp + Window => clock' >= grants[c][i].stamp + Window
    BY <2>1, <2>2
  <2>4. grants[c][i].stamp <= clock'
    BY <2>1, <2>2
  <2>5. QED
    BY <2>3, <2>4 DEF Expired
<1>3. StampInv'
  BY <1>2 DEF StampInv
<1>4. ForgottenInv'
  <2>1. ASSUME NEW c \in Clients, NEW i \in 1..Len(grants[c]), i \notin hits[c]
        PROVE  \E m \in i..Len(grants[c]) : Expired(c, m)'
    <3>1. PICK m \in i..Len(grants[c]) : Expired(c, m)
      BY <2>1 DEF LimitInv, ForgottenInv
    <3>2. m \in 1..Len(grants[c])
      BY <3>1
    <3>3. QED
      BY <1>2, <3>1, <3>2
  <2>2. QED
    BY <2>1 DEF ForgottenInv
<1>5. QED
  BY <1>1, <1>3, <1>4 DEF LimitInv

\* Every step of the clock and of a request preserves the invariant.
THEOREM NextLimitInv == LimitInv /\ [LimitNext]_lvars => LimitInv'
<1> SUFFICES ASSUME LimitInv, [LimitNext]_lvars
             PROVE  LimitInv'
  OBVIOUS
<1>1. clock \in Nat /\ req \in [Requests -> [client : Clients \cup {NoClient}, stamp : Nat]]
      /\ \A r \in Requests : req[r].stamp <= clock
  BY DEF LimitInv, LimitTypeOK, StampInv
<1>2. CASE Tick
  <2>1. \A r \in Requests : req'[r].stamp <= clock'
    BY <1>1, <1>2 DEF Tick
  <2>2. QED
    BY <1>1, <1>2, <2>1, ClockPreserves DEF Tick
<1>3. ASSUME NEW r \in Requests, NEW c \in Clients, Arrive(r, c)
      PROVE  LimitInv'
  BY <1>1, <1>3, ClockPreserves DEF Arrive
<1>4. ASSUME NEW r \in Requests, Refuse(r) \/ Grant(r)
      PROVE  LimitInv'
  BY <1>4, RefusePreserves, GrantPreserves
<1>5. CASE UNCHANGED lvars
  BY <1>1, <1>5, ClockPreserves DEF lvars
<1>6. QED
  BY <1>2, <1>3, <1>4, <1>5 DEF LimitNext

\* For any limit and window, any addresses and any number of requests between
\* the clock and the mutex: of Max + 1 requests in a row that one address gets
\* through, the last comes a whole window after the stamp of one of the others.
THEOREM WindowBoundHolds == LimitSpec => []WindowBound
<1>1. LimitInv => WindowBound
  BY DEF LimitInv
<1>2. QED
  BY <1>1, InitLimitInv, NextLimitInv, PTL DEF LimitSpec

-----------------------------------------------------------------------------
(* DBPool: the pool lends no more connections than it has. *)

\* Only the loops that nest ask for a second connection.
NestingInv ==
    /\ at \in [Goroutines -> Places]
    /\ \A g \in Goroutines : at[g] \in {"wantSecond", "second"} => g \in Nesting

\* At start no goroutine uses the database.
THEOREM InitNestingInv == PoolInit => NestingInv
  BY DEF PoolInit, NestingInv, Places

\* A goroutine gets to a second connection only through QueryInLoop.
THEOREM NextNestingInv == NestingInv /\ [PoolNext]_pvars => NestingInv'
<1> SUFFICES ASSUME NestingInv, [PoolNext]_pvars
             PROVE  NestingInv'
  OBVIOUS
<1>1. CASE UNCHANGED pvars
  BY <1>1 DEF NestingInv, pvars
<1>2. ASSUME NEW g \in Goroutines,
             \/ Query(g) \/ TakeFirst(g) \/ CloseRows(g)
             \/ QueryInLoop(g) \/ TakeSecond(g) \/ QueryDone(g)
      PROVE  NestingInv'
  BY <1>2
  DEF NestingInv, Places, Go, Query, TakeFirst, CloseRows, QueryInLoop, TakeSecond, QueryDone
<1>3. QED
  BY <1>1, <1>2 DEF PoolNext

\* The connections in use change by one, or not at all, as a goroutine goes on.
LEMMA GoCounts ==
    ASSUME NestingInv, NEW g \in Goroutines, NEW here \in Places, NEW there \in Places, Go(g, here, there)
    PROVE  LET A == In({"first", "wantSecond"})
               B == In({"second"})
           IN  /\ Cardinality(A) \in Nat /\ Cardinality(B) \in Nat
               /\ here \notin {"first", "wantSecond"} /\ there \notin {"first", "wantSecond"} =>
                      Cardinality(A)' = Cardinality(A)
               /\ here \in {"first", "wantSecond"} /\ there \in {"first", "wantSecond"} =>
                      Cardinality(A)' = Cardinality(A)
               /\ here \notin {"first", "wantSecond"} /\ there \in {"first", "wantSecond"} =>
                      Cardinality(A)' = Cardinality(A) + 1
               /\ here \in {"first", "wantSecond"} /\ there \notin {"first", "wantSecond"} =>
                      Cardinality(A)' = Cardinality(A) - 1
               /\ here # "second" /\ there # "second" => Cardinality(B)' = Cardinality(B)
               /\ here # "second" /\ there = "second" => Cardinality(B)' = Cardinality(B) + 1
               /\ here = "second" /\ there # "second" => Cardinality(B)' = Cardinality(B) - 1
<1> DEFINE A == In({"first", "wantSecond"})
           B == In({"second"})
<1>1. at[g] = here /\ \A h \in Goroutines : at'[h] = IF h = g THEN there ELSE at[h]
  BY DEF Go, NestingInv
<1>2. A \subseteq Goroutines /\ B \subseteq Goroutines
  BY DEF In
<1>3. IsFiniteSet(A) /\ IsFiniteSet(B)
  BY <1>2, PoolAssumption, FS_Subset
<1>4. /\ Cardinality(A) \in Nat /\ Cardinality(B) \in Nat
      /\ Cardinality(A \cup {g}) = IF g \in A THEN Cardinality(A) ELSE Cardinality(A) + 1
      /\ Cardinality(B \cup {g}) = IF g \in B THEN Cardinality(B) ELSE Cardinality(B) + 1
      /\ Cardinality(A \ {g}) = IF g \in A THEN Cardinality(A) - 1 ELSE Cardinality(A)
      /\ Cardinality(B \ {g}) = IF g \in B THEN Cardinality(B) - 1 ELSE Cardinality(B)
  BY <1>3, FS_CardinalityType, FS_AddElement, FS_RemoveElement
<1>5. A' = IF there \in {"first", "wantSecond"} THEN A \cup {g} ELSE A \ {g}
  BY <1>1 DEF In
<1>6. B' = IF there = "second" THEN B \cup {g} ELSE B \ {g}
  BY <1>1 DEF In
<1>7. (g \in A <=> here \in {"first", "wantSecond"}) /\ (g \in B <=> here = "second")
  BY <1>1 DEF In
<1> HIDE DEF A, B
<1>8. Cardinality(A') = IF there \in {"first", "wantSecond"}
                        THEN IF here \in {"first", "wantSecond"} THEN Cardinality(A) ELSE Cardinality(A) + 1
                        ELSE IF here \in {"first", "wantSecond"} THEN Cardinality(A) - 1 ELSE Cardinality(A)
  BY <1>4, <1>5, <1>7
<1>9. Cardinality(B') = IF there = "second"
                        THEN IF here = "second" THEN Cardinality(B) ELSE Cardinality(B) + 1
                        ELSE IF here = "second" THEN Cardinality(B) - 1 ELSE Cardinality(B)
  BY <1>4, <1>6, <1>7
<1> QED
  BY <1>4, <1>8, <1>9 DEF A, B

\* The pool lends no more connections than it has.
LEMMA PoolTypeInv == PoolTypeOK /\ [PoolNext]_pvars => PoolTypeOK'
<1> SUFFICES ASSUME PoolTypeOK, [PoolNext]_pvars PROVE PoolTypeOK'
  OBVIOUS
<1>1. NestingInv /\ NestingInv'
  <2>1. NestingInv
    BY DEF PoolTypeOK, NestingInv, In
  <2> QED
    BY <2>1, NextNestingInv
<1>2. InUse' <= Size
  <2>1. CASE UNCHANGED pvars
    BY <2>1 DEF pvars, PoolTypeOK, InUse, In
  <2>2. ASSUME NEW g \in Goroutines, Query(g) \/ CloseRows(g) \/ QueryInLoop(g) \/ QueryDone(g)
        PROVE  InUse' <= Size
    BY <1>1, <2>2, GoCounts, PoolAssumption
    DEF Query, CloseRows, QueryInLoop, QueryDone, InUse, PoolTypeOK, Places
  <2>3. ASSUME NEW g \in Goroutines, TakeFirst(g) \/ TakeSecond(g)
        PROVE  InUse' <= Size
    BY <1>1, <2>3, GoCounts, PoolAssumption
    DEF TakeFirst, TakeSecond, InUse, PoolTypeOK, Places
  <2> QED
    BY <2>1, <2>2, <2>3 DEF PoolNext
<1> QED
  BY <1>1, <1>2 DEF PoolTypeOK, NestingInv, In

-----------------------------------------------------------------------------
(* Backups: whoever a pass has dealt with has a young backup. *)

\* A file as young as the interval of p.
Young(p, f) == now - f.at < Interval[p]

\* What a file that is removed by the retention of another project excuses.
CutShort(p) == \E q \in Scheduled : Named(q) \cap Named(p) # {} /\ Retention[q] \in 1..(Interval[p] - 1)

\* The inductive invariant: something young passes for a backup of every project
\* that was dealt with, whichever of the kinds of file it is.
BackupsInv ==
    /\ BackupsTypeOK
    /\ \A p \in checked : CutShort(p) \/ \E f \in Taken(p) : Young(p, f)

\* At start there are no files and no project was dealt with.
THEOREM BackupsInitInv == BackupsInit => BackupsInv
  BY BackupsAssumption DEF BackupsInit, BackupsInv, BackupsTypeOK, IdlePass

\* A file made now is a file.
LEMMA FileTyped ==
    ASSUME BackupsTypeOK, NEW p \in BackedUp, NEW kind \in {"whole", "part", "copy"}
    PROVE  File(p, kind) \in [of : BackedUp, at : 0..now, kind : {"whole", "part", "copy"}]
<1>1. now \in 0..now
  BY DEF BackupsTypeOK
<1> QED
  BY <1>1 DEF File

LEMMA MishapTyped == ASSUME BackupsTypeOK, Mishap PROVE mishaps' \in 0..MaxMishaps
  BY BackupsAssumption DEF BackupsTypeOK, Mishap

\* While the files only become more and the clock stands, who has a young file
\* keeps it.
LEMMA MoreFilesInv ==
    ASSUME BackupsInv, BackupsTypeOK', files \subseteq files', now' = now, checked' \subseteq checked
    PROVE  BackupsInv'
<1> SUFFICES ASSUME NEW p \in checked', ~CutShort(p)' PROVE (\E f \in Taken(p) : Young(p, f))'
  BY DEF BackupsInv
<1>1. PICK f \in Taken(p) : Young(p, f)
  BY DEF BackupsInv, CutShort
<1>2. f \in Taken(p)' /\ Young(p, f)'
  BY <1>1 DEF Taken, Young
<1> QED
  BY <1>2

\* The removal of expired files takes a young one from another project only if
\* the two take the same files and the retention is shorter than the interval.
LEMMA LookAtInv == ASSUME BackupsInv, NEW p \in Scheduled, LookAt(p) PROVE BackupsInv'
<1>1. BackupsTypeOK'
  <2>1. files' \subseteq files /\ now' = now /\ checked' \subseteq checked \cup {p} /\ mishaps' = mishaps
    BY DEF LookAt
  <2>2. pass' \in [pc : {"idle", "look", "dump", "upload"}, todo : SUBSET Scheduled,
                   due : SUBSET Scheduled]
    <3>1. pass \in [pc : {"idle", "look", "dump", "upload"}, todo : SUBSET Scheduled,
                    due : SUBSET Scheduled]
      BY DEF BackupsInv, BackupsTypeOK
    <3>2. pass.todo \ {p} \in SUBSET Scheduled /\ {p} \in SUBSET Scheduled
      BY <3>1
    <3>3. \/ pass' = [pass EXCEPT !.pc = "dump", !.todo = @ \ {p}, !.due = {p}]
          \/ pass' = [pass EXCEPT !.todo = @ \ {p}]
      BY DEF LookAt
    <3> QED
      BY <3>1, <3>2, <3>3
  <2> QED
    BY <2>1, <2>2 DEF BackupsInv, BackupsTypeOK, LookAt
<1>2. ASSUME NEW q \in Scheduled, NEW f \in Taken(q), Young(q, f), ~CutShort(q)
      PROVE  (\E g \in Taken(q) : Young(q, g))'
  <2>1. now \in Nat /\ f.at \in Nat /\ f \in files /\ f.of \in Named(q)
    BY DEF Taken, BackupsInv, BackupsTypeOK
  <2>2. Interval[q] \in Nat /\ Retention[p] \in Nat
    BY BackupsAssumption
  <2>3. f \in files'
    <3> SUFFICES ASSUME f \in Taken(p), Retention[p] > 0, now - f.at > Retention[p] PROVE FALSE
      BY <2>1 DEF LookAt
    <3>1. f.of \in Named(p) \cap Named(q)
      BY <2>1 DEF Taken
    <3>2. Retention[p] \in 1..(Interval[q] - 1)
      <4>1. Retention[p] < now - f.at /\ now - f.at < Interval[q]
        BY <1>2, <2>1, <2>2 DEF Young
      <4> QED
        BY <2>1, <2>2, <4>1
    <3> QED
      BY <3>1, <3>2, <1>2 DEF CutShort
  <2>4. f \in Taken(q)' /\ Young(q, f)'
    BY <1>2, <2>1, <2>3 DEF Taken, Young, LookAt
  <2> QED
    BY <2>4
<1>3. CASE Due(p)
  BY <1>1, <1>2, <1>3 DEF LookAt, BackupsInv, BackupsTypeOK, CutShort
<1>4. CASE ~Due(p)
  <2>1. checked' = checked \cup {p}
    BY <1>4 DEF LookAt
  <2>2. PICK f \in Taken(p) : Young(p, f)
    <3>1. PICK f \in Taken(p) : ~(now - f.at >= Interval[p])
      BY <1>4 DEF Due
    <3>2. now - f.at \in Int /\ Interval[p] \in Int
      BY BackupsAssumption DEF Taken, BackupsInv, BackupsTypeOK
    <3> QED
      BY <3>1, <3>2 DEF Young
  <2> QED
    BY <1>1, <1>2, <2>1, <2>2 DEF BackupsInv, BackupsTypeOK, CutShort
<1> QED
  BY <1>3, <1>4

\* A dump that succeeds is young: no interval is zero.
LEMMA DumpInv == ASSUME BackupsInv, NEW p \in Scheduled, Dump(p) PROVE BackupsInv'
<1>1. BackupsTypeOK'
  <2>1. p \in BackedUp /\ BackupsTypeOK
    BY DEF BackedUp, BackupsInv
  <2> QED
    BY <2>1, FileTyped DEF Dump, BackupsTypeOK
<1>2. (\E f \in Taken(p) : Young(p, f))'
  <2>1. PICK f : f = File(p, "whole")
    OBVIOUS
  <2>2. f.of = p /\ f.at = now /\ f \in files'
    BY <2>1 DEF File, Dump
  <2>3. now - now < Interval[p] /\ now' = now
    BY BackupsAssumption DEF Dump, BackupsInv, BackupsTypeOK
  <2>4. f \in Taken(p)' /\ Young(p, f)'
    BY <2>2, <2>3 DEF Taken, Named, Young
  <2> QED
    BY <2>4
<1>3. ASSUME NEW q \in checked, ~CutShort(q) PROVE (\E f \in Taken(q) : Young(q, f))'
  <2>1. PICK f \in Taken(q) : Young(q, f)
    BY <1>3 DEF BackupsInv
  <2>2. f \in Taken(q)' /\ Young(q, f)'
    BY <2>1 DEF Taken, Young, Dump
  <2> QED
    BY <2>2
<1> QED
  BY <1>1, <1>2, <1>3 DEF BackupsInv, Dump, CutShort

\* A removal ends what was said of the projects that took the file.
LEMMA GoneInv ==
    ASSUME BackupsInv, BackupsTypeOK', NEW f, Gone(f), now' = now PROVE BackupsInv'
<1>1. ASSUME NEW p \in checked', ~CutShort(p) PROVE (\E g \in Taken(p) : Young(p, g))'
  <2>1. PICK g \in Taken(p) : Young(p, g)
    BY <1>1 DEF Gone, BackupsInv
  <2>2. g \in Taken(p)' /\ Young(p, g)'
    BY <1>1, <2>1 DEF Gone, Taken, Young
  <2> QED
    BY <2>2
<1> QED
  BY <1>1 DEF BackupsInv, CutShort

LEMMA DeleteInv == ASSUME BackupsInv, Delete PROVE BackupsInv'
<1>1. BackupsTypeOK'
  BY MishapTyped DEF Delete, Gone, BackupsInv, BackupsTypeOK
<1> QED
  BY <1>1, GoneInv DEF Delete

\* An upload adds a file, and removes it in the end or leaves it.
LEMMA CopyInv == ASSUME BackupsInv, CopyBegins \/ CopyEnds PROVE BackupsInv'
<1>1. CASE CopyBegins
  <2>1. PICK f \in files : /\ files' = files \cup {File(f.of, "copy")}
                          /\ copying' = copying \cup {File(f.of, "copy")}
    BY <1>1 DEF CopyBegins
  <2>2. BackupsTypeOK /\ f.of \in BackedUp /\ now \in 0..now
    BY DEF BackupsInv, BackupsTypeOK
  <2>3. File(f.of, "copy") \in [of : BackedUp, at : 0..now, kind : {"copy"}]
    BY <2>2 DEF File
  <2>4. File(f.of, "copy") \in [of : BackedUp, at : 0..now, kind : {"whole", "part", "copy"}]
    BY <2>2, FileTyped
  <2>5. mishaps' \in 0..MaxMishaps
    BY <1>1, <2>2, MishapTyped DEF CopyBegins
  <2>6. BackupsTypeOK'
    BY <1>1, <2>1, <2>2, <2>3, <2>4, <2>5 DEF CopyBegins, BackupsTypeOK
  <2> QED
    BY <1>1, <2>1, <2>6, MoreFilesInv DEF CopyBegins
<1>2. CASE CopyEnds
  <2>1. PICK f \in copying : /\ copying' = copying \ {f}
                             /\ Gone(f) \/ UNCHANGED <<files, checked>>
    BY <1>2 DEF CopyEnds
  <2>2. BackupsTypeOK' /\ now' = now
    BY <1>2, <2>1 DEF CopyEnds, Gone, BackupsInv, BackupsTypeOK
  <2>3. CASE Gone(f)
    BY <2>2, <2>3, GoneInv
  <2>4. CASE UNCHANGED <<files, checked>>
    BY <2>2, <2>4, MoreFilesInv
  <2> QED
    BY <2>1, <2>3, <2>4
<1> QED
  BY <1>1, <1>2

\* Every step of a pass, and every mishap, preserves the invariant.
THEOREM BackupsNextInv == BackupsInv /\ [BackupsNext]_kvars => BackupsInv'
<1> SUFFICES ASSUME BackupsInv, [BackupsNext]_kvars PROVE BackupsInv'
  OBVIOUS
<1>1. CASE UNCHANGED kvars
  <2>1. BackupsTypeOK'
    BY <1>1 DEF kvars, BackupsInv, BackupsTypeOK
  <2> QED
    BY <1>1, <2>1, MoreFilesInv DEF kvars
<1>2. CASE HourPasses
  BY <1>2, BackupsAssumption DEF HourPasses, BackupsInv, BackupsTypeOK
<1>3. CASE PassBegins \/ PassEnds
  <2>1. BackupsTypeOK'
    BY <1>3 DEF PassBegins, PassEnds, IdlePass, BackupsInv, BackupsTypeOK
  <2> QED
    BY <1>3, <2>1, MoreFilesInv DEF PassBegins, PassEnds
<1>4. CASE Crash
  <2>1. BackupsTypeOK'
    <3>1. BackupsTypeOK /\ mishaps' \in 0..MaxMishaps /\ pass.due \subseteq BackedUp /\ copying' = {}
      BY <1>4, MishapTyped DEF Crash, BackedUp, BackupsInv, BackupsTypeOK
    <3>2. IdlePass \in [pc : {"idle", "look", "dump", "upload"}, todo : SUBSET Scheduled,
                        due : SUBSET Scheduled]
      BY DEF IdlePass
    <3> QED
      BY <1>4, <3>1, <3>2, FileTyped DEF Crash, BackupsTypeOK
  <2> QED
    BY <1>4, <2>1, MoreFilesInv DEF Crash
<1>5. ASSUME NEW p \in Scheduled, DumpFails(p) \/ Upload(p) \/ UploadLeavesCopy(p) PROVE BackupsInv'
  <2>1. BackupsTypeOK'
    <3>1. BackupsTypeOK /\ mishaps' \in 0..MaxMishaps /\ p \in BackedUp
      BY <1>5, MishapTyped DEF DumpFails, Upload, UploadLeavesCopy, BackedUp, BackupsInv, BackupsTypeOK
    <3>2. CASE DumpFails(p)
      BY <3>1, <3>2, FileTyped DEF DumpFails, BackupsTypeOK
    <3>3. CASE Upload(p)
      BY <3>1, <3>3, FileTyped DEF Upload, BackupsTypeOK
    <3>4. CASE UploadLeavesCopy(p)
      BY <3>1, <3>4, FileTyped DEF UploadLeavesCopy, BackupsTypeOK
    <3> QED
      BY <1>5, <3>2, <3>3, <3>4
  <2> QED
    BY <1>5, <2>1, MoreFilesInv DEF DumpFails, Upload, UploadLeavesCopy
<1>6. ASSUME NEW p \in BackedUp, Create(p) PROVE BackupsInv'
  <2>1. BackupsTypeOK'
    BY <1>6, MishapTyped, FileTyped DEF Create, BackupsInv, BackupsTypeOK
  <2> QED
    BY <1>6, <2>1, MoreFilesInv DEF Create
<1> QED
  BY <1>1, <1>2, <1>3, <1>4, <1>5, <1>6, LookAtInv, DumpInv, DeleteInv, CopyInv DEF BackupsNext

\* A young file is a whole one of the project, or one that passes for it.
LEMMA BackupsInvFresh == BackupsInv => FreshBackup
<1> SUFFICES ASSUME BackupsInv, NEW p \in checked, ~CutShort(p)
             PROVE  \/ \E f \in Own(p) : f.kind = "whole" /\ now - f.at < Interval[p]
                    \/ \E f \in Taken(p) : (f.of # p \/ f.kind # "whole") /\ now - f.at < Interval[p]
  BY DEF FreshBackup, CutShort
<1>1. PICK f \in Taken(p) : Young(p, f)
  BY DEF BackupsInv
<1> QED
  BY <1>1 DEF Young, Own, Taken

\* For any projects, intervals, retentions and names: a project that a pass has
\* dealt with has a young backup, or what FreshBackup excuses.
THEOREM BackupsFresh == BackupsSpec => []FreshBackup
  BY BackupsInitInv, BackupsNextInv, BackupsInvFresh, PTL DEF BackupsSpec

-----------------------------------------------------------------------------
(* DeployUpdate: a bad commit does not stay deployed without an excuse. *)

Record == [pc : Steps, old : Commits, tries : 0..(Attempts - 1), result : Results]

\* An update goes back no further than what it found checked out.
DeployTypeInv == DeployTypeOK /\ \A u \in Updaters : update[u].old <= upstream

\* What holds at each place of an update that is alone: the commit it would roll
\* back to is good, and the unit runs the commit of the checkout, but for the
\* restarts that are still to come.
Sound(u) ==
    /\ update[u].pc = "merge" => update[u].old = head
    /\ update[u].pc \in {"merge", "restart", "check", "reset"} => update[u].old \notin Bad
    /\ update[u].pc \in {"merge", "check", "unit"} => running = head
    /\ update[u].pc \in {"restartOld", "unit"} => head \notin Bad

Busy(u) == update[u].pc # "idle"

\* The inductive invariant: as long as nothing excuses a bad commit, one update
\* is at work at a time, and it is Sound.
DeployInv ==
    /\ DeployTypeInv
    /\ excuse = {} =>
          /\ \A u, v \in Updaters : Busy(u) /\ Busy(v) => u = v
          /\ \A u \in Updaters : Sound(u)
          /\ Settled => head \notin Bad /\ running = head

\* At start the first commit is deployed, and it is good.
THEOREM DeployInitInv == DeployInit => DeployInv
  BY CommitAssumption, AttemptsAssumption
  DEF DeployInit, DeployInv, DeployTypeInv, DeployTypeOK, Commits, Idle, Steps, Results, Sound, Busy

LEMMA IdleRecord == Idle \in Record /\ \A r \in Results : [Idle EXCEPT !.result = r] \in Record
  BY CommitAssumption, AttemptsAssumption DEF Record, Idle, Steps, Results, Commits

LEMMA UpdateTyped ==
    ASSUME DeployTypeInv, NEW u \in Updaters, NEW o \in Record, o.old <= upstream,
           update' = [update EXCEPT ![u] = o], upstream' = upstream
    PROVE  /\ update' \in [Updaters -> Record]
           /\ \A v \in Updaters : update'[v].old <= upstream'
           /\ \A v \in Updaters : update'[v] = IF v = u THEN o ELSE update[v]
<1>1. update \in [Updaters -> Record]
  BY DEF DeployTypeInv, DeployTypeOK, Record
<1> QED
  BY <1>1 DEF DeployTypeInv

\* An update goes on to its next place.
LEMMA ToTyped ==
    ASSUME DeployTypeInv, NEW u \in Updaters, NEW pc \in Steps, To(u, pc), upstream' = upstream
    PROVE  /\ update' \in [Updaters -> Record]
           /\ \A v \in Updaters : update'[v].old <= upstream'
           /\ update'[u].pc = pc /\ update'[u].old = update[u].old
           /\ \A v \in Updaters \ {u} : update'[v] = update[v]
<1> DEFINE o == [update[u] EXCEPT !.pc = pc]
<1>1. update[u] \in Record /\ update[u].old <= upstream
  BY DEF DeployTypeInv, DeployTypeOK, Record
<1>2. o \in Record /\ o.old = update[u].old /\ o.pc = pc
  BY <1>1 DEF Record
<1>3. update' = [update EXCEPT ![u] = o]
  BY DEF To
<1> HIDE DEF o
<1> QED
  BY <1>1, <1>2, <1>3, UpdateTyped

\* An update ends.
LEMMA ReturnTyped ==
    ASSUME DeployTypeInv, NEW u \in Updaters, NEW r \in Results, Return(u, r), upstream' = upstream
    PROVE  /\ update' \in [Updaters -> Record]
           /\ \A v \in Updaters : update'[v].old <= upstream'
           /\ update'[u].pc = "idle"
           /\ \A v \in Updaters \ {u} : update'[v] = update[v]
<1> DEFINE o == [Idle EXCEPT !.result = r]
<1>1. o \in Record /\ o.old = 0 /\ o.pc = "idle"
  BY IdleRecord DEF Idle
<1>2. update' = [update EXCEPT ![u] = o] /\ 0 <= upstream
  BY DEF Return, DeployTypeInv, DeployTypeOK, Commits
<1> HIDE DEF o
<1> QED
  BY <1>1, <1>2, UpdateTyped

\* While an update is busy and nothing is excused, the others are idle; when it
\* ends, all is settled.
LEMMA Alone ==
    ASSUME DeployInv, NEW u \in Updaters, excuse = {}, Busy(u)
    PROVE  \A v \in Updaters \ {u} : ~Busy(v)
  BY DEF DeployInv

\* An update that is alone ends with a good commit running, or goes on.
LEMMA EndsInv ==
    ASSUME DeployInv, NEW u \in Updaters, Busy(u), NEW r \in Results, Return(u, r),
           upstream' = upstream, tracked' = tracked, head' \in 0..upstream,
           running' \in (0..upstream) \cup {Down}, excuse' = excuse,
           excuse = {} => head' \notin Bad /\ running' = head'
    PROVE  DeployInv'
<1>1. /\ update' \in [Updaters -> Record]
      /\ \A v \in Updaters : update'[v].old <= upstream'
      /\ update'[u].pc = "idle"
      /\ \A v \in Updaters \ {u} : update'[v] = update[v]
  BY ReturnTyped DEF DeployInv
<1>2. DeployTypeInv'
  BY <1>1 DEF DeployInv, DeployTypeInv, DeployTypeOK, Record, Commits, Down
<1>3. excuse = {} => \A v \in Updaters : update'[v].pc = "idle"
  BY <1>1, Alone DEF Busy
<1> QED
  BY <1>2, <1>3 DEF DeployInv, Sound, Busy

LEMMA GoesOnInv ==
    ASSUME DeployInv, NEW u \in Updaters, Busy(u), NEW pc \in Steps \ {"idle"},
           update' \in [Updaters -> Record], \A v \in Updaters : update'[v].old <= upstream',
           update'[u].pc = pc, \A v \in Updaters \ {u} : update'[v] = update[v],
           upstream' = upstream, tracked' = tracked, head' \in 0..upstream,
           running' \in (0..upstream) \cup {Down}, excuse' = excuse,
           excuse = {} => Sound(u)'
    PROVE  DeployInv'
<1>1. DeployTypeInv'
  BY DEF DeployInv, DeployTypeInv, DeployTypeOK, Record, Commits, Down
<1>2. excuse = {} => \A v \in Updaters \ {u} : update'[v].pc = "idle"
  BY Alone DEF Busy
<1>3. ~Settled'
  BY DEF Settled
<1> QED
  BY <1>1, <1>2, <1>3 DEF DeployInv, Sound, Busy

\* What is excused needs only its type.
LEMMA ExcusedInv ==
    ASSUME DeployInv, NEW u \in Updaters, NEW r \in Results, Return(u, r),
           upstream' = upstream, tracked' = tracked, head' \in 0..upstream,
           running' \in (0..upstream) \cup {Down},
           NEW why \in {"ungated", "restart", "rollback"}, excuse' = excuse \cup {why}
    PROVE  DeployInv'
<1>1. /\ update' \in [Updaters -> Record]
      /\ \A v \in Updaters : update'[v].old <= upstream'
  BY ReturnTyped DEF DeployInv
<1>2. DeployTypeInv'
  BY <1>1 DEF DeployInv, DeployTypeInv, DeployTypeOK, Record, Commits, Down
<1> QED
  BY <1>2 DEF DeployInv

\* Nothing begins while another is at work, unless that is excused.
LEMMA BeginsInv ==
    ASSUME DeployInv, NEW u \in Updaters, update[u].pc = "idle",
           NEW pc \in {"merge", "unit"}, NEW old \in 0..upstream,
           NEW o, o = [pc |-> pc, old |-> old, tries |-> 0, result |-> "none"],
           update' = [update EXCEPT ![u] = o],
           upstream' = upstream, tracked' = upstream, head' \in 0..upstream, running' = running,
           NEW why \in SUBSET {"redeploy"}, excuse' = excuse \cup Overlap(u) \cup why,
           why = {} => head' = head,
           pc = "merge" => old = head
    PROVE  DeployInv'
<1>1. old \in Commits /\ old <= upstream /\ 0 \in 0..(Attempts - 1)
  BY CommitAssumption, AttemptsAssumption DEF DeployInv, DeployTypeInv, DeployTypeOK, Commits
<1>2. o \in Record /\ o.old = old /\ o.pc = pc
  BY <1>1 DEF Record, Steps, Results
<1>3. /\ update' \in [Updaters -> Record]
      /\ \A v \in Updaters : update'[v].old <= upstream'
      /\ \A v \in Updaters : update'[v] = IF v = u THEN o ELSE update[v]
  <2>1. update \in [Updaters -> Record] /\ \A v \in Updaters : update[v].old <= upstream
    BY DEF DeployInv, DeployTypeInv, DeployTypeOK, Record
  <2>2. update' \in [Updaters -> Record] /\ \A v \in Updaters : update'[v] = IF v = u THEN o ELSE update[v]
    BY <1>2, <2>1
  <2>3. o.old <= upstream
    BY <1>1, <1>2
  <2> QED
    BY <2>1, <2>2, <2>3
<1>4. DeployTypeInv'
  <2>1. excuse' \subseteq {"overlap", "ungated", "restart", "rollback", "redeploy", "death"}
    BY DEF Overlap, DeployInv, DeployTypeInv, DeployTypeOK
  <2> QED
    BY <1>3, <2>1 DEF DeployInv, DeployTypeInv, DeployTypeOK, Record, Commits, Down
<1>5. ASSUME excuse' = {}
      PROVE  /\ \A v \in Updaters \ {u} : update'[v].pc = "idle"
             /\ excuse = {} /\ Settled /\ head' = head
  BY <1>3, <1>5 DEF Overlap, Others, Settled
<1>6. ASSUME excuse' = {} PROVE \A v \in Updaters : Sound(v)'
  <2>1. head \notin Bad /\ running = head
    BY <1>5, <1>6 DEF DeployInv
  <2> QED
    BY <1>2, <1>3, <1>5, <1>6, <2>1 DEF Sound
<1>7. ~Settled'
  BY <1>2, <1>3 DEF Settled
<1> QED
  BY <1>4, <1>5, <1>6, <1>7 DEF DeployInv, Busy

LEMMA StepInv == ASSUME DeployInv, NEW u \in Updaters, UpdateStep(u) PROVE DeployInv'
<1> DEFINE o == update[u]
<1>1. /\ upstream \in Nat /\ tracked \in 0..upstream /\ head \in 0..upstream
      /\ running \in (0..upstream) \cup {Down}
      /\ o \in Record /\ o.old \in 0..upstream /\ DeployTypeInv
      /\ excuse = {} /\ Busy(u) => Sound(u)
  BY DEF DeployInv, DeployTypeInv, DeployTypeOK, Record, Commits
<1>2. {"nochange", "changed", "failed", "rolledBack", "stuck", "deployed"} \subseteq Results
  BY DEF Results
<1>3. CASE Fetch(u)
  <2>1. CASE head = upstream
    <3>1. /\ update' \in [Updaters -> Record]
          /\ \A v \in Updaters : update'[v].old <= upstream'
          /\ update'[u].pc = "idle"
          /\ \A v \in Updaters \ {u} : update'[v] = update[v]
      BY <1>1, <1>2, <1>3, <2>1, ReturnTyped DEF Fetch
    <3>2. UNCHANGED <<upstream, head, running, excuse>> /\ tracked' = upstream /\ update[u].pc = "idle"
      BY <1>3, <2>1 DEF Fetch
    <3>3. DeployTypeInv'
      BY <1>1, <3>1, <3>2 DEF DeployTypeInv, DeployTypeOK, Record, Commits, Down
    <3>4. \A v \in Updaters : update'[v].pc = "idle" <=> update[v].pc = "idle"
      BY <3>1, <3>2
    <3> QED
      BY <3>1, <3>2, <3>3, <3>4 DEF DeployInv, Sound, Busy, Settled
  <2>2. CASE head # upstream
    <3> DEFINE next == [pc |-> "merge", old |-> head, tries |-> 0, result |-> "none"]
    <3>1. next = [Idle EXCEPT !.pc = "merge", !.old = head]
      <4> DEFINE begun == [Idle EXCEPT !.pc = "merge", !.old = head]
      <4>1. DOMAIN begun = {"pc", "old", "tries", "result"}
        BY DEF Idle
      <4>2. begun.pc = "merge" /\ begun.old = head /\ begun.tries = 0 /\ begun.result = "none"
        BY DEF Idle
      <4>3. begun = [f \in {"pc", "old", "tries", "result"} |-> begun[f]]
        BY <4>1 DEF Idle
      <4> HIDE DEF begun
      <4>4. begun = next
        BY <4>2, <4>3
      <4> QED
        BY <4>4 DEF begun
    <3>2. next = [pc |-> "merge", old |-> head, tries |-> 0, result |-> "none"]
      OBVIOUS
    <3> HIDE DEF next
    <3>3. update' = [update EXCEPT ![u] = next] /\ excuse' = excuse \cup Overlap(u) \cup {}
      BY <1>3, <2>2, <3>1 DEF Fetch
    <3>4. update[u].pc = "idle" /\ UNCHANGED <<upstream, head, running>> /\ tracked' = upstream
      BY <1>3 DEF Fetch
    <3>5. {} \in SUBSET {"redeploy"} /\ head' \in 0..upstream /\ head' = head
      BY <1>1, <3>4
    <3> QED
      BY <1>1, <3>2, <3>3, <3>4, <3>5, BeginsInv
  <2> QED
    BY <2>1, <2>2
<1>4. CASE FetchFails(u)
  <2>1. /\ update' \in [Updaters -> Record]
        /\ \A v \in Updaters : update'[v].old <= upstream'
        /\ update'[u].pc = "idle"
        /\ \A v \in Updaters \ {u} : update'[v] = update[v]
    BY <1>1, <1>2, <1>4, ReturnTyped DEF FetchFails
  <2>2. UNCHANGED <<upstream, tracked, head, running, excuse>> /\ update[u].pc = "idle"
    BY <1>4 DEF FetchFails
  <2>3. DeployTypeInv'
    BY <1>1, <2>1, <2>2 DEF DeployTypeInv, DeployTypeOK, Record, Commits, Down
  <2>4. \A v \in Updaters : update'[v].pc = "idle" <=> update[v].pc = "idle"
    BY <2>1, <2>2
  <2> QED
    BY <2>1, <2>2, <2>3, <2>4 DEF DeployInv, Sound, Busy, Settled
<1>5. CASE Merge(u)
  <2>1. To(u, "restart") /\ Busy(u) /\ head' \in 0..upstream /\ UNCHANGED <<upstream, tracked, running, excuse>>
    BY <1>1, <1>5 DEF Merge, Busy
  <2>2. excuse = {} => o.old \notin Bad
    BY <1>1, <1>5, <2>1 DEF Merge, Sound
  <2>3. "restart" \in Steps \ {"idle"}
    BY DEF Steps
  <2> QED
    BY <1>1, <2>1, <2>2, <2>3, ToTyped, GoesOnInv DEF Sound
<1>6. CASE MergeFails(u)
  BY <1>1, <1>2, <1>6, EndsInv DEF MergeFails, Busy, Sound
<1>7. CASE Restart(u)
  <2>1. CASE HealthGate
    <3>1. To(u, "check") /\ Busy(u) /\ running' = head /\ UNCHANGED <<upstream, tracked, head, excuse>>
      BY <1>7, <2>1 DEF Restart, Busy
    <3>2. excuse = {} => o.old \notin Bad
      BY <1>1, <1>7, <3>1 DEF Restart, Sound
    <3>3. "check" \in Steps \ {"idle"}
      BY DEF Steps
    <3> QED
      BY <1>1, <3>1, <3>2, <3>3, ToTyped, GoesOnInv DEF Sound
  <2>2. CASE ~HealthGate
    BY <1>1, <1>2, <1>7, <2>2, ExcusedInv DEF Restart
  <2> QED
    BY <2>1, <2>2
<1>8. CASE Ungated(u)
  BY <1>1, <1>2, <1>8, ExcusedInv DEF Ungated
<1>9. CASE RestartFails(u)
  BY <1>1, <1>2, <1>9, ExcusedInv DEF RestartFails
<1>10. CASE Healthy(u)
  BY <1>1, <1>2, <1>10, EndsInv DEF Healthy, Busy, Sound
<1>11. CASE Unhealthy(u)
  <2>1. Busy(u) /\ UNCHANGED <<upstream, tracked, head, running, excuse>> /\ o.pc = "check"
    BY <1>11 DEF Unhealthy, Busy
  <2>2. CASE o.tries + 1 = Attempts
    <3>1. To(u, "reset") /\ "reset" \in Steps \ {"idle"}
      BY <1>11, <2>2 DEF Unhealthy, Steps
    <3> QED
      BY <1>1, <2>1, <3>1, ToTyped, GoesOnInv DEF Sound
  <2>3. CASE o.tries + 1 # Attempts
    <3> DEFINE next == [o EXCEPT !.tries = @ + 1]
    <3>1. update' = [update EXCEPT ![u] = next]
      BY <1>11, <2>3 DEF Unhealthy
    <3>2. o.tries + 1 \in 0..(Attempts - 1)
      BY <1>1, <2>3, AttemptsAssumption DEF Record
    <3>3. next \in Record /\ next.old = o.old /\ next.pc = "check"
      BY <1>1, <2>1, <3>2 DEF Record
    <3> HIDE DEF next
    <3>4. next.old <= upstream /\ "check" \in Steps \ {"idle"}
      BY <1>1, <3>3 DEF Steps
    <3>5. /\ update' \in [Updaters -> Record]
          /\ \A v \in Updaters : update'[v].old <= upstream'
          /\ \A v \in Updaters : update'[v] = IF v = u THEN next ELSE update[v]
      BY <1>1, <2>1, <3>1, <3>3, <3>4, UpdateTyped
    <3>6. excuse = {} => Sound(u)'
      BY <1>1, <2>1, <3>3, <3>5 DEF Sound
    <3> QED
      BY <1>1, <2>1, <3>3, <3>4, <3>5, <3>6, GoesOnInv
  <2> QED
    BY <2>2, <2>3
<1>12. CASE Reset(u)
  <2>1. To(u, "restartOld") /\ Busy(u) /\ head' = o.old /\ UNCHANGED <<upstream, tracked, running, excuse>>
    BY <1>12 DEF Reset, Busy
  <2>2. excuse = {} => o.old \notin Bad
    BY <1>1, <1>12, <2>1 DEF Reset, Sound
  <2>3. "restartOld" \in Steps \ {"idle"}
    BY DEF Steps
  <2> QED
    BY <1>1, <2>1, <2>2, <2>3, ToTyped, GoesOnInv DEF Sound
<1>13. CASE RestartOld(u)
  BY <1>1, <1>2, <1>13, EndsInv DEF RestartOld, Busy, Sound
<1>14. CASE RollbackFails(u)
  BY <1>1, <1>2, <1>14, ExcusedInv DEF RollbackFails
<1>15. CASE Redeploy(u)
  <2> DEFINE next == [pc |-> "unit", old |-> 0, tries |-> 0, result |-> "none"]
             why == IF head = upstream THEN {} ELSE {"redeploy"}
  <2>5. next = [Idle EXCEPT !.pc = "unit"]
    BY DEF Idle
  <2>6. next = [pc |-> "unit", old |-> 0, tries |-> 0, result |-> "none"]
    OBVIOUS
  <2> HIDE DEF next
  <2>1. update' = [update EXCEPT ![u] = next] /\ excuse' = excuse \cup Overlap(u) \cup why
    BY <1>15, <2>5 DEF Redeploy
  <2>2. update[u].pc = "idle" /\ UNCHANGED <<upstream, running>> /\ tracked' = upstream /\ head' = upstream
    BY <1>15 DEF Redeploy
  <2>3. why \in SUBSET {"redeploy"} /\ (why = {} => head' = head)
    BY <2>2
  <2>4. 0 \in 0..upstream /\ head' \in 0..upstream
    BY <1>1, <2>2
  <2> HIDE DEF why
  <2> QED
    BY <2>1, <2>2, <2>3, <2>4, <2>6, BeginsInv
<1>16. CASE EnableNow(u)
  BY <1>1, <1>2, <1>16, EndsInv DEF EnableNow, Busy, Sound
<1>17. CASE DeployFails(u)
  BY <1>1, <1>2, <1>17, EndsInv DEF DeployFails, Busy, Sound
<1> QED
  BY <1>3, <1>4, <1>5, <1>6, <1>7, <1>8, <1>9, <1>10, <1>11, <1>12, <1>13, <1>14, <1>15, <1>16, <1>17
  DEF UpdateStep

\* Pushes, restarts of the unit, a death of the server and the steps of the updates preserve it.
THEOREM DeployNextInv == DeployInv /\ [DeployNext]_dvars => DeployInv'
<1> SUFFICES ASSUME DeployInv, [DeployNext]_dvars PROVE DeployInv'
  OBVIOUS
<1>1. CASE UNCHANGED dvars
  BY <1>1 DEF dvars, DeployInv, DeployTypeInv, DeployTypeOK, Sound, Busy, Settled
<1>2. CASE Push
  <2>1. DeployTypeInv'
    BY <1>2, CommitAssumption DEF Push, DeployInv, DeployTypeInv, DeployTypeOK, Commits, Down
  <2> QED
    BY <1>2, <2>1 DEF Push, DeployInv, Sound, Busy, Settled
<1>3. CASE UnitRestarts
  <2>1. DeployTypeInv'
    BY <1>3 DEF UnitRestarts, DeployInv, DeployTypeInv, DeployTypeOK
  <2> QED
    BY <1>3, <2>1 DEF UnitRestarts, DeployInv, Sound, Busy, Settled
<1>4. CASE ServerDies
  <2>1. update' = [u \in Updaters |-> Idle] /\ Idle \in Record /\ Idle.old = 0
    BY <1>4, IdleRecord DEF ServerDies, Idle
  <2>2. DeployTypeInv'
    BY <1>4, <2>1 DEF ServerDies, DeployInv, DeployTypeInv, DeployTypeOK, Record, Commits, Down
  <2> QED
    BY <1>4, <2>2 DEF ServerDies, DeployInv
<1> QED
  BY <1>1, <1>2, <1>3, <1>4, StepInv DEF DeployNext

\* For any updaters, commits and attempts: BadExcused.
THEOREM DeployExcused == DeploySpec => []BadExcused
<1>1. DeployInv => BadExcused
  BY DEF DeployInv, BadExcused
<1> QED
  BY <1>1, DeployInitInv, DeployNextInv, PTL DEF DeploySpec

-----------------------------------------------------------------------------
(* TgBot: the types of its variables. *)

Program == [pc : {"dead", "boot", "poll", "hooked", "asleep"}, last : Nat, wake : BOOLEAN]

LEMMA DeadProgram ==
    /\ Dead \in Program /\ Dead.last = 0
    /\ [Dead EXCEPT !.pc = "boot"] \in Program /\ [Dead EXCEPT !.pc = "boot"].last = 0
  BY DEF Dead, Program

LEMMA BotTyped ==
    ASSUME sent \in 0..MaxUpdates, confirmed \subseteq 1..sent, hook \in BOOLEAN,
           bot \in Program, bot.last \in 0..sent, handled \subseteq Ids, faults \in 0..MaxFaults
    PROVE  BotTypeOK
  BY DEF BotTypeOK, Program

\* At start nothing was sent.
THEOREM BotInitInv == BotInit => BotTypeOK
<1> SUFFICES ASSUME BotInit PROVE BotTypeOK
  OBVIOUS
<1>1. sent \in 0..MaxUpdates /\ confirmed \subseteq 1..sent /\ faults \in 0..MaxFaults /\ bot.last \in 0..sent
  BY UpdatesAssumption, DeadProgram DEF BotInit
<1>2. hook \in BOOLEAN /\ bot \in Program /\ handled \subseteq Ids
  BY DeadProgram DEF BotInit
<1> QED
  BY <1>1, <1>2, BotTyped

\* The newest of what waits, and of zero, was sent.
LEMMA NewestPending == ASSUME BotTypeOK PROVE Newest(Pending(1) \cup {0}) \in 0..sent
<1> DEFINE S == Pending(1) \cup {0}
<1>1. sent \in Nat /\ S \in SUBSET (0..sent) /\ S # {}
  BY DEF BotTypeOK, Pending
<1>2. \E i \in S : \A j \in S : j <= i
  BY <1>1, LargestOf
<1>3. Newest(S) \in S
  BY <1>2 DEF Newest
<1> QED
  BY <1>1, <1>3

\* Among one number it is the newest itself.
LEMMA NewestOfOne == ASSUME NEW n \in Nat PROVE Newest({n}) = n
  BY DEF Newest

LEMMA CallTyped ==
    ASSUME faults \in 0..MaxFaults, NEW works \in BOOLEAN, Call(works)
    PROVE  faults' \in 0..MaxFaults
  BY UpdatesAssumption DEF Call

\* A step after which the bot is somewhere else, with the same lastUpdateID.
LEMMA BotMoves ==
    ASSUME BotTypeOK, sent' = sent, confirmed' \subseteq 1..sent, hook' \in BOOLEAN,
           bot' \in Program, bot'.last \in 0..sent, handled' = handled, faults' \in 0..MaxFaults
    PROVE  BotTypeOK'
  BY DEF BotTypeOK, Program

\* Every message, post, step of the bot and death keeps the types.
THEOREM BotNextInv == BotTypeOK /\ [BotNext]_bvars => BotTypeOK'
<1> SUFFICES ASSUME BotTypeOK, [BotNext]_bvars PROVE BotTypeOK'
  OBVIOUS
<1>0. /\ sent \in Nat /\ confirmed \subseteq 1..sent /\ hook \in BOOLEAN /\ bot \in Program
      /\ faults \in 0..MaxFaults /\ bot.last \in 0..sent /\ bot.last \in Nat /\ handled \subseteq Ids
      /\ MaxUpdates \in Nat /\ MaxFaults \in Nat /\ sent <= MaxUpdates
  BY UpdatesAssumption DEF BotTypeOK, Program
<1>1. CASE UNCHANGED bvars
  BY <1>1 DEF bvars, BotTypeOK
<1>2. CASE Send
  BY <1>0, <1>2 DEF Send, BotTypeOK
<1>3. CASE Post
  <2>1. confirmed' \subseteq 1..sent
    BY <1>0, <1>3 DEF Post, Pending
  <2>2. bot' \in Program /\ bot'.last = bot.last
    BY <1>0, <1>3 DEF Post, Program
  <2> QED
    BY <1>0, <1>3, <2>1, <2>2, BotMoves DEF Post
<1>4. CASE Boot
  <2>1. faults' \in 0..MaxFaults /\ hook' \in BOOLEAN
    BY <1>0, <1>4, CallTyped DEF Boot
  <2> QED
    BY <1>0, <1>4, <2>1, DeadProgram, BotMoves DEF Boot
<1>5. CASE SkipOld
  <2>1. confirmed' \subseteq 1..sent
    BY <1>0, <1>5, NewestPending DEF SkipOld
  <2>2. bot' = [bot EXCEPT !.pc = "poll", !.last = 0]
    BY <1>5, NewestOfOne DEF SkipOld, Decoded
  <2>3. bot' \in Program /\ bot'.last = 0
    BY <1>0, <2>2 DEF Program
  <2> QED
    BY <1>0, <1>5, <2>1, <2>3, BotMoves DEF SkipOld
<1>6. CASE SkipFails
  <2>1. faults' \in 0..MaxFaults
    BY <1>0, <1>6, CallTyped DEF SkipFails
  <2>2. bot' \in Program /\ bot'.last = bot.last
    BY <1>0, <1>6 DEF SkipFails, Program
  <2> QED
    BY <1>0, <1>6, <2>1, <2>2, BotMoves DEF SkipFails
<1>7. CASE Poll
  <2>1. handled' = handled /\ confirmed' \subseteq 1..sent /\ sent' = sent
    BY <1>0, <1>7 DEF Poll, Decoded
  <2>2. CASE bot' = [bot EXCEPT !.last = Newest({} \cup {bot.last})] /\ UNCHANGED <<hook, faults>>
    <3>1. Newest({} \cup {bot.last}) = bot.last
      BY <1>0, NewestOfOne
    <3>2. bot' \in Program /\ bot'.last = bot.last
      BY <1>0, <2>2, <3>1 DEF Program
    <3> QED
      BY <1>0, <2>1, <2>2, <3>2, BotMoves
  <2>3. CASE /\ bot' = [bot EXCEPT !.pc = "hooked"]
             /\ \E works \in BOOLEAN : Call(works) /\ hook' = works
    <3>1. faults' \in 0..MaxFaults /\ hook' \in BOOLEAN
      BY <1>0, <2>3, CallTyped
    <3>2. bot' \in Program /\ bot'.last = bot.last
      BY <1>0, <2>3 DEF Program
    <3> QED
      BY <1>0, <2>1, <3>1, <3>2, BotMoves
  <2> QED
    BY <1>7, <2>2, <2>3 DEF Poll, Decoded
<1>8. CASE Wait
  <2>1. bot' \in Program /\ bot'.last = bot.last
    BY <1>0, <1>8 DEF Wait, Program
  <2> QED
    BY <1>0, <1>8, <2>1, BotMoves DEF Wait
<1>9. CASE Wake
  <2>1. faults' \in 0..MaxFaults /\ hook' \in BOOLEAN
    BY <1>0, <1>9, CallTyped DEF Wake
  <2>2. bot' \in Program /\ bot'.last = bot.last
    BY <1>0, <1>9 DEF Wake, Program
  <2> QED
    BY <1>0, <1>9, <2>1, <2>2, BotMoves DEF Wake
<1>10. CASE Die
  <2>1. faults' \in 0..MaxFaults
    BY <1>0, <1>10 DEF Die
  <2>2. hook' \in BOOLEAN
    <3>1. hook' = hook \/ hook' = TRUE
      BY <1>10 DEF Die
    <3> QED
      BY <1>0, <3>1
  <2> QED
    BY <1>0, <1>10, <2>1, <2>2, DeadProgram, BotMoves DEF Die
<1> QED
  BY <1>1, <1>2, <1>3, <1>4, <1>5, <1>6, <1>7, <1>8, <1>9, <1>10 DEF BotNext, BotStep

-----------------------------------------------------------------------------
(* CronParse: the scan finds the first minute that the expression means. *)

\* Division with remainder, in the form the steps below use.
LEMMA Divided ==
    ASSUME NEW a \in Nat, NEW b \in Nat \ {0}
    PROVE  a = ((a \div b) * b) + (a % b) /\ a % b \in 0..(b - 1) /\ a \div b \in Nat
  OBVIOUS

\* What the parts of a field stand for, read off the rest of a division, is what
\* one reaches from the low end in steps.
LEMMA StepsReach ==
    ASSUME NEW v \in Nat, NEW low \in Nat, NEW s \in Nat \ {0}, low <= v
    PROVE  (v - low) % s = 0 <=> \E k \in 0..v : v = low + (k * s)
<1> DEFINE d == v - low
<1>0. d \in Nat
  OBVIOUS
<1>1. ASSUME d % s = 0
      PROVE  \E k \in 0..v : v = low + (k * s)
  <2> DEFINE k == d \div s
  <2>1. k \in Nat /\ d = k * s
    BY <1>0, <1>1, Divided
  <2> HIDE DEF k
  <2>2. k <= k * s
    BY <2>1
  <2>3. k \in 0..v /\ v = low + (k * s)
    BY <2>1, <2>2
  <2> QED
    BY <2>3
<1>2. ASSUME NEW k \in 0..v, v = low + (k * s)
      PROVE  d % s = 0
  <2>1. (k * s) % s = 0 /\ k * s \in Nat
    OBVIOUS
  <2>2. d = k * s
    BY <1>2, <2>1
  <2> QED
    BY <2>1, <2>2
<1> QED
  BY <1>1, <1>2

-----------------------------------------------------------------------------
(* The calendar. *)

\* g counts the days before each of the first n months.
DaysUpTo(n, g) == g = [m \in 1..n |-> IF m = 1 THEN 0 ELSE g[m - 1] + MonthDays[m - 1]]
YearEnd == Len(MonthDays) + 1

\* Months are numbered from 1, have days, and there is at least one.
LEMMA CalendarShape ==
    /\ YearEnd \in Nat /\ 1 < YearEnd
    /\ \A m \in 1..(YearEnd - 1) : m \in DOMAIN MonthDays /\ MonthDays[m] \in Nat \ {0}
    /\ DOMAIN MonthDays = 1..(YearEnd - 1)
  BY CalendarAssumption DEF YearEnd

\* Functions that count the days before a month exist for as many months as one
\* likes: there is no least number of months without one.
LEMMA DaysExist == ASSUME NEW n \in 1..YearEnd PROVE \E g \in [1..n -> Nat] : DaysUpTo(n, g)
<1> DEFINE Good(i) == \E g \in [1..i -> Nat] : DaysUpTo(i, g)
           fails == {i \in 1..YearEnd : ~Good(i)}
<1>1. Good(1)
  <2> DEFINE g == [m \in 1..1 |-> 0]
  <2>1. g \in [1..1 -> Nat] /\ g = [m \in 1..1 |-> IF m = 1 THEN 0 ELSE g[m - 1] + MonthDays[m - 1]]
    OBVIOUS
  <2> QED
    BY <2>1 DEF DaysUpTo
<1>2. ASSUME NEW i \in 1..YearEnd, i # 1, Good(i - 1)
      PROVE  Good(i)
  <2>1. PICK g \in [1..(i - 1) -> Nat] : DaysUpTo(i - 1, g)
    BY <1>2
  <2> DEFINE h == [m \in 1..i |-> IF m = i THEN g[i - 1] + MonthDays[i - 1] ELSE g[m]]
  <2>2. i - 1 \in 1..(YearEnd - 1) /\ MonthDays[i - 1] \in Nat /\ g[i - 1] \in Nat
    BY <1>2, CalendarShape
  <2>3. \A m \in 1..(i - 1) : g[m] = IF m = 1 THEN 0 ELSE g[m - 1] + MonthDays[m - 1]
    BY <2>1 DEF DaysUpTo
  <2>4. \A m \in 1..i : h[m] = IF m = 1 THEN 0 ELSE h[m - 1] + MonthDays[m - 1]
    <3>1. SUFFICES ASSUME NEW m \in 1..i
                   PROVE  h[m] = IF m = 1 THEN 0 ELSE h[m - 1] + MonthDays[m - 1]
      OBVIOUS
    <3>2. CASE m = i
      <4>1. h[m] = g[i - 1] + MonthDays[i - 1] /\ h[m - 1] = g[i - 1] /\ m # 1
        BY <3>2, <1>2, <2>2, CalendarShape
      <4> HIDE DEF h
      <4> QED
        BY <4>1, <3>2
    <3>3. CASE m # i /\ m = 1
      BY <3>3, <2>3, <1>2
    <3>4. CASE m # i /\ m # 1
      <4>1. m \in 1..(i - 1) /\ m - 1 \in 1..(i - 1) /\ m - 1 \in 1..i /\ m - 1 # i
        BY <3>4, <1>2, CalendarShape
      <4>2. h[m] = g[m] /\ h[m - 1] = g[m - 1]
        BY <3>4, <4>1
      <4> HIDE DEF h
      <4> QED
        BY <4>1, <4>2, <2>3, <3>4
    <3> QED
      BY <3>2, <3>3, <3>4
  <2>5. h \in [1..i -> Nat]
    BY <2>1, <2>2, <1>2, CalendarShape
  <2>6. h = [m \in 1..i |-> IF m = 1 THEN 0 ELSE h[m - 1] + MonthDays[m - 1]]
    <3> HIDE DEF h
    <3> QED
      BY <2>4, <2>5
  <2> HIDE DEF h
  <2> QED
    BY <2>5, <2>6 DEF DaysUpTo
<1> HIDE DEF Good
<1>3. fails = {}
  <2>1. SUFFICES ASSUME fails # {} PROVE FALSE
    OBVIOUS
  <2>2. fails \in SUBSET Nat
    BY CalendarShape
  <2>3. PICK i \in fails : \A j \in fails : i <= j
    BY <2>1, <2>2, LeastOf
  <2>4. i # 1 /\ i - 1 \in 1..YearEnd /\ i - 1 \notin fails
    BY <2>3, <1>1, CalendarShape
  <2> QED
    BY <2>3, <2>4, <1>2
<1>4. Good(n)
  BY <1>3
<1> QED
  BY <1>4 DEF Good

\* DaysBefore is such a function ...
LEMMA DaysUnfold == DaysUpTo(YearEnd, DaysBefore)
<1>0. YearEnd \in 1..YearEnd
  BY CalendarShape
<1>1. PICK g \in [1..YearEnd -> Nat] : DaysUpTo(YearEnd, g)
  BY <1>0, DaysExist
<1>2. g = [m \in 1..(Len(MonthDays) + 1) |-> IF m = 1 THEN 0 ELSE g[m - 1] + MonthDays[m - 1]]
  BY <1>1 DEF DaysUpTo, YearEnd
<1>3. DaysBefore = [m \in 1..(Len(MonthDays) + 1) |->
                       IF m = 1 THEN 0 ELSE DaysBefore[m - 1] + MonthDays[m - 1]]
  BY <1>2 DEF DaysBefore
<1> QED
  BY <1>3 DEF DaysUpTo, YearEnd

\* ... whose values are numbers, ...
LEMMA DaysNumbers == DaysBefore \in [1..YearEnd -> Nat]
<1> DEFINE fails == {i \in 1..YearEnd : DaysBefore[i] \notin Nat}
<1>1. DaysBefore = [m \in 1..YearEnd |-> IF m = 1 THEN 0 ELSE DaysBefore[m - 1] + MonthDays[m - 1]]
  BY DaysUnfold DEF DaysUpTo
<1>2. fails = {}
  <2>1. SUFFICES ASSUME fails # {} PROVE FALSE
    OBVIOUS
  <2>2. fails \in SUBSET Nat
    BY CalendarShape
  <2>3. PICK i \in fails : \A j \in fails : i <= j
    BY <2>1, <2>2, LeastOf
  <2>4. i # 1
    BY <1>1, <2>3
  <2>5. i - 1 \in 1..(YearEnd - 1) /\ i - 1 \in 1..YearEnd /\ i - 1 \notin fails
    BY <2>3, <2>4, CalendarShape
  <2>6. DaysBefore[i] = DaysBefore[i - 1] + MonthDays[i - 1]
    BY <1>1, <2>3, <2>4
  <2> QED
    BY <2>3, <2>5, <2>6, CalendarShape
<1> QED
  BY <1>1, <1>2

\* ... from none to the length of a year.
LEMMA YearHasDays == DaysBefore[1] = 0 /\ DaysBefore[YearEnd] \in Nat \ {0}
<1>1. DaysBefore = [m \in 1..YearEnd |-> IF m = 1 THEN 0 ELSE DaysBefore[m - 1] + MonthDays[m - 1]]
  BY DaysUnfold DEF DaysUpTo
<1>2. DaysBefore[1] = 0 /\ DaysBefore[YearEnd] = DaysBefore[YearEnd - 1] + MonthDays[YearEnd - 1]
  BY <1>1, CalendarShape
<1> QED
  BY <1>2, DaysNumbers, CalendarShape

\* Every day is in a month.
LEMMA MonthFound ==
    ASSUME NEW day \in Nat
    PROVE  /\ DayOfYear(day) \in Nat
           /\ MonthOf(day) \in DOMAIN MonthDays
           /\ DaysBefore[MonthOf(day)] \in Nat
<1> DEFINE d == DayOfYear(day)
           later == {m \in 1..(YearEnd - 1) : d < DaysBefore[m + 1]}
<1>1. d \in Nat /\ d < DaysBefore[YearEnd]
  <2>1. d = day % DaysBefore[YearEnd]
    BY DEF DayOfYear, YearEnd
  <2> DEFINE b == DaysBefore[YearEnd]
  <2>2. b \in Nat \ {0}
    BY YearHasDays
  <2> HIDE DEF b
  <2>3. day % b \in 0..(b - 1)
    BY <2>2, Divided
  <2>4. day % b \in Nat /\ day % b < b
    BY <2>2, <2>3
  <2> QED
    BY <2>1, <2>4 DEF b
<1> HIDE DEF d
<1>2. YearEnd - 1 \in later /\ later \in SUBSET Nat
  BY <1>1, CalendarShape
<1>3. PICK m \in later : \A j \in later : m <= j
  BY <1>2, LeastOf
<1>4. DaysBefore[m] <= d
  <2>1. CASE m = 1
    BY <2>1, <1>1, YearHasDays
  <2>2. CASE m # 1
    <3>1. m - 1 \in 1..(YearEnd - 1) /\ m - 1 \notin later /\ (m - 1) + 1 = m
      BY <2>2, <1>3, CalendarShape
    <3>2. ~(d < DaysBefore[m])
      BY <3>1
    <3>3. DaysBefore[m] \in Nat
      BY <1>3, DaysNumbers, CalendarShape
    <3> QED
      BY <3>2, <3>3, <1>1
  <2> QED
    BY <2>1, <2>2
<1>5. m \in DOMAIN MonthDays /\ DaysBefore[m] <= d /\ d < DaysBefore[m + 1]
  BY <1>3, <1>4, CalendarShape
<1>6. MonthOf(day) \in DOMAIN MonthDays
  BY <1>5 DEF MonthOf, d
<1>7. DaysBefore[MonthOf(day)] \in Nat
  BY <1>6, DaysNumbers, CalendarShape
<1> QED
  BY <1>1, <1>6, <1>7 DEF d

-----------------------------------------------------------------------------
(* What the code takes an expression for, and what it means. *)

\* The fields of a time are in the ranges of the fields of an expression.
LEMMA ClockFields ==
    ASSUME NEW t \in Nat
    PROVE  /\ Clock(t).minute \in 0..(Minutes - 1) /\ Clock(t).hour \in 0..(Hours - 1)
           /\ Clock(t).month \in 1..Len(MonthDays) /\ Clock(t).dow \in 0..(WeekDays - 1)
           /\ Clock(t).dom \in Int
<1> DEFINE d == t \div DayLength
<1>1. {Minutes, Hours, WeekDays, DayLength} \subseteq Nat \ {0}
  BY CalendarAssumption DEF DayLength
<1>2. d \in Nat /\ t \div Minutes \in Nat
  BY <1>1, Divided
<1> HIDE DEF d
<1>3. t % Minutes \in 0..(Minutes - 1) /\ (t \div Minutes) % Hours \in 0..(Hours - 1)
      /\ d % WeekDays \in 0..(WeekDays - 1)
  BY <1>1, <1>2, Divided
<1>4. MonthOf(d) \in 1..Len(MonthDays) /\ DayOfYear(d) - DaysBefore[MonthOf(d)] + 1 \in Int
  <2>1. DayOfYear(d) \in Nat /\ MonthOf(d) \in DOMAIN MonthDays /\ DaysBefore[MonthOf(d)] \in Nat
    BY <1>2, MonthFound
  <2>2. MonthOf(d) \in 1..Len(MonthDays)
    BY <2>1, CalendarShape DEF YearEnd
  <2> QED
    BY <2>1, <2>2
<1>5. Clock(t) = [minute |-> t % Minutes, hour |-> (t \div Minutes) % Hours,
         dom |-> DayOfYear(d) - DaysBefore[MonthOf(d)] + 1,
         month |-> MonthOf(d), dow |-> d % WeekDays]
  BY DEF Clock, d
<1> QED
  BY <1>3, <1>4, <1>5

\* The parts of a field that parseCronField accepted.
Parsed(f) ==
    /\ FieldMin[f] \in Nat
    /\ \A p \in expr[f] : p.base \in {"*", "N", "a-b"} /\ {p.lo, p.hi, p.step} \subseteq Int
                           /\ PartOK(p, f)

Meant(p, f, v) ==
    IF p.base = "*" THEN (v - FieldMin[f]) % p.step = 0
                    ELSE \E k \in 0..v : v = p.lo + k * p.step /\ v <= p.hi
Stored(p, f, v) == v \in {x \in Lo(p, f)..Hi(p, f) : (x - Lo(p, f)) % p.step = 0}

\* A part without a star stands for the values it stores.
LEMMA PartCovered ==
    ASSUME NEW f \in FieldNames, NEW v \in Int, Parsed(f), NEW p \in expr[f], p.base # "*"
    PROVE  Meant(p, f, v) <=> Stored(p, f, v)
<1>1. Lo(p, f) = p.lo /\ Hi(p, f) = p.hi
  BY DEF Lo, Hi
<1>2. p.lo \in Nat /\ p.hi \in Int /\ p.step \in Nat \ {0}
  BY <1>1 DEF Parsed, PartOK
<1>3. CASE p.lo <= v
  <2>1. v \in Nat
    BY <1>2, <1>3
  <2>2. (v - p.lo) % p.step = 0 <=> \E k \in 0..v : v = p.lo + (k * p.step)
    BY <2>1, <1>2, <1>3, StepsReach
  <2> QED
    BY <2>2, <1>1, <1>2, <1>3 DEF Meant, Stored
<1>4. CASE ~(p.lo <= v)
  <2>1. \A k \in 0..v : k \in Nat /\ k * p.step \in Nat
    BY <1>2
  <2>2. \A k \in 0..v : v # p.lo + k * p.step
    BY <2>1, <1>2, <1>4
  <2> QED
    BY <2>2, <1>1, <1>2, <1>4 DEF Meant, Stored
<1> QED
  BY <1>3, <1>4

\* So does a field without a star, ...
LEMMA NumbersCovered ==
    ASSUME NEW f \in FieldNames, NEW v \in Int, Parsed(f), Restricted(f)
    PROVE  Covers(f, v) <=> v \in Values(f)
<1>1. \A p \in expr[f] : Meant(p, f, v) <=> Stored(p, f, v)
  BY PartCovered DEF Restricted
<1> QED
  BY <1>1 DEF Covers, Values, Meant, Stored

\* ... and any field for a number in its range.
LEMMA RangeCovered ==
    ASSUME NEW f \in FieldNames, Parsed(f), FieldMax[f] \in Int, NEW v \in FieldMin[f]..FieldMax[f]
    PROVE  Covers(f, v) <=> v \in Values(f)
<1>0. v \in Int
  BY DEF Parsed
<1>1. ASSUME NEW p \in expr[f]
      PROVE  Meant(p, f, v) <=> Stored(p, f, v)
  <2>1. CASE p.base = "*"
    BY <2>1 DEF Lo, Hi, Meant, Stored
  <2> QED
    BY <2>1, <1>0, PartCovered
<1> QED
  BY <1>1 DEF Covers, Values, Meant, Stored

\* What parseCron returned without an error.
Accepted ==
    expr \in Expressions /\ \A f \in FieldNames : \A p \in expr[f] : PartOK(p, f)

\* The code fires at a minute just when the expression means it.
LEMMA MatchesMeans ==
    ASSUME Accepted, ~StarStep("dom"), ~StarStep("dow"), NEW t \in Nat
    PROVE  Matches(t) <=> Means(t)
<1> DEFINE c == Clock(t)
<1>1. \A f \in FieldNames : Parsed(f)
  <2>1. \A f \in FieldNames : FieldMin[f] \in Nat
    BY DEF FieldMin, FieldNames
  <2> QED
    BY <2>1, ExpressionsAssumption DEF Accepted, Parsed
<1>2. {"minute", "hour", "dom", "month", "dow"} \subseteq FieldNames
  BY DEF FieldNames
<1>3. /\ FieldMin["minute"] = 0 /\ FieldMin["hour"] = 0 /\ FieldMin["month"] = 1 /\ FieldMin["dow"] = 0
      /\ FieldMin["dom"] = 1
  BY DEF FieldMin, FieldNames
<1>4. /\ FieldMax["minute"] = Minutes - 1 /\ FieldMax["hour"] = Hours - 1
      /\ FieldMax["month"] = Len(MonthDays) /\ FieldMax["dow"] = WeekDays - 1
  BY DEF FieldMax
<1>5. {Minutes - 1, Hours - 1, WeekDays - 1, Len(MonthDays)} \subseteq Int
  BY CalendarAssumption
<1>6. /\ c.minute \in 0..(Minutes - 1) /\ c.hour \in 0..(Hours - 1)
      /\ c.month \in 1..Len(MonthDays) /\ c.dow \in 0..(WeekDays - 1) /\ c.dom \in Int
  BY ClockFields
<1> HIDE DEF c
<1>7. /\ Covers("minute", c.minute) <=> c.minute \in Values("minute")
      /\ Covers("hour", c.hour) <=> c.hour \in Values("hour")
      /\ Covers("month", c.month) <=> c.month \in Values("month")
  BY <1>1, <1>2, <1>3, <1>4, <1>5, <1>6, RangeCovered
<1>8. \A f \in {"dom", "dow"} : c[f] \in Int
  BY <1>5, <1>6
<1>9. ASSUME NEW f \in {"dom", "dow"}
      PROVE  /\ Plain(f) <=> ~Restricted(f)
             /\ Restricted(f) => (Covers(f, c[f]) <=> c[f] \in Values(f))
             /\ ~Restricted(f) => Covers(f, c[f])
  <2>1. f \in FieldNames /\ Parsed(f) /\ ~StarStep(f)
    BY <1>1, <1>2
  <2>2. \A p \in expr[f] : p.base = "*" => p.step = 1
    BY <2>1 DEF Parsed, PartOK, StarStep
  <2>3. Plain(f) <=> ~Restricted(f)
    BY <2>2 DEF Plain, Restricted
  <2>4. Restricted(f) => (Covers(f, c[f]) <=> c[f] \in Values(f))
    BY <2>1, <1>8, NumbersCovered
  <2>5. ~Restricted(f) => Covers(f, c[f])
    <3>1. (c[f] - FieldMin[f]) % 1 = 0
      BY <1>8, <2>1 DEF Parsed
    <3> QED
      BY <3>1, <2>2 DEF Restricted, Covers
  <2> QED
    BY <2>3, <2>4, <2>5
<1>10. (\A f \in {"minute", "hour", "month"} : Covers(f, c[f])) <=>
          /\ Covers("minute", c.minute) /\ Covers("hour", c.hour) /\ Covers("month", c.month)
  OBVIOUS
<1>11. /\ Matches(t) <=>
             /\ c.minute \in Values("minute") /\ c.hour \in Values("hour")
             /\ c.month \in Values("month")
             /\ (Restricted("dom") \/ Restricted("dow")) =>
                    \/ Restricted("dom") /\ c.dom \in Values("dom")
                    \/ Restricted("dow") /\ c.dow \in Values("dow")
       /\ Means(t) <=>
             /\ \A f \in {"minute", "hour", "month"} : Covers(f, c[f])
             /\ IF Plain("dom") \/ Plain("dow") THEN Covers("dom", c.dom) /\ Covers("dow", c.dow)
                                              ELSE Covers("dom", c.dom) \/ Covers("dow", c.dow)
  BY DEF Matches, Means, c
<1> QED
  BY <1>7, <1>9, <1>10, <1>11

-----------------------------------------------------------------------------
(* The scan. *)

\* Nothing that the code would have fired at lies between the minute asked about
\* and the one the scan is at.
Passed == from < Candidate /\ \A t \in (from + 1)..(Candidate - 1) : ~Matches(t)

ScanInv ==
    /\ expr \in Expressions /\ from \in Nat
    /\ scan \in [pc : {"parse", "rejected", "scan", "found", "never"},
                 day : Nat, minute : 0..DayLength, days : Nat]
    /\ scan.pc \in {"scan", "found", "never"} =>
          Accepted /\ Passed /\ scan.day = (from \div DayLength) + scan.days
    /\ scan.pc = "found" => Matches(Candidate)
    /\ scan.pc = "never" => scan.days = ScanDays /\ scan.minute = 0

LEMMA DayLengthNat == DayLength \in Nat \ {0} /\ DayLength \in Nat /\ 0 < DayLength
  BY CalendarAssumption DEF DayLength

\* A time is its day and its minute of the day.
LEMMA DaySplit ==
    ASSUME NEW t \in Nat
    PROVE  /\ t = ((t \div DayLength) * DayLength) + (t % DayLength)
           /\ t % DayLength \in 0..(DayLength - 1) /\ t \div DayLength \in Nat
<1> DEFINE b == DayLength
<1>1. b \in Nat \ {0}
  BY DayLengthNat
<1> HIDE DEF b
<1>2. t = ((t \div b) * b) + (t % b) /\ t % b \in 0..(b - 1) /\ t \div b \in Nat
  BY <1>1, Divided
<1> QED
  BY <1>2 DEF b

\* The steps of the scan leave the expression alone.
LEMMA ExpressionStays ==
    ASSUME expr' = expr
    PROVE  (\A t : Matches(t)' <=> Matches(t)) /\ (Accepted' <=> Accepted)
  BY DEF Matches, Values, Restricted, Clock, Lo, Hi, FieldMin, FieldMax, DayLength, DayOfYear, MonthOf,
         Accepted, PartOK

LEMMA MinuteNat ==
    ASSUME NEW d \in Nat, NEW m \in Nat PROVE (d * DayLength) + m \in Nat
<1>1. \A b \in Nat : d * b \in Nat
  OBVIOUS
<1> QED
  BY <1>1, DayLengthNat

\* Before the parse nothing has been looked at.
THEOREM CronInitInv == CronInit => ScanInv
  BY ExpressionsAssumption, DayLengthNat DEF CronInit, ScanInv

\* Each minute that is looked at is passed or found, and the next day begins where
\* the last one ended.
THEOREM CronNextInv == ScanInv /\ [CronNext]_cvars => ScanInv'
<1>0. SUFFICES ASSUME ScanInv, [CronNext]_cvars PROVE ScanInv'
  OBVIOUS
<1>1. CASE Reject
  <2>1. scan' = [scan EXCEPT !.pc = "rejected"] /\ expr' = expr /\ from' = from
    BY <1>1 DEF Reject
  <2>2. /\ scan' \in [pc : {"parse", "rejected", "scan", "found", "never"},
                      day : Nat, minute : 0..DayLength, days : Nat]
        /\ scan'.pc = "rejected"
    BY <2>1, <1>0 DEF ScanInv
  <2> QED
    BY <2>1, <2>2, <1>0 DEF ScanInv, DayLength
<1>2. CASE Accept
  <2>1. /\ ParseOK /\ expr' = expr /\ from' = from
        /\ scan' = [pc |-> "scan", day |-> from \div DayLength,
                    minute |-> (from % DayLength) + 1, days |-> 0]
    BY <1>2 DEF Accept
  <2>2. from = ((from \div DayLength) * DayLength) + (from % DayLength)
        /\ from % DayLength \in 0..(DayLength - 1) /\ from \div DayLength \in Nat
    BY <1>0, DaySplit DEF ScanInv
  <2>3. Candidate' = ((from \div DayLength) * DayLength) + ((from % DayLength) + 1)
    BY <2>1 DEF Candidate, DayLength
  <2>4. Candidate' = from + 1
    <3> DEFINE x == (from \div DayLength) * DayLength
    <3>1. x \in Nat
      <4>1. \A a, b \in Nat : a * b \in Nat
        OBVIOUS
      <4> QED
        BY <4>1, <2>2, DayLengthNat
    <3>2. from % DayLength \in Nat
      BY <2>2, DayLengthNat
    <3>3. from = x + (from % DayLength) /\ Candidate' = x + ((from % DayLength) + 1)
      BY <2>2, <2>3
    <3> HIDE DEF x
    <3> QED
      BY <3>1, <3>2, <3>3
  <2>5. Passed'
    BY <2>1, <2>4, <1>0 DEF Passed, ScanInv
  <2>6. Accepted'
    BY <2>1, <1>0 DEF Accepted, ParseOK, ScanInv, PartOK, Lo, Hi
  <2>7. scan' \in [pc : {"parse", "rejected", "scan", "found", "never"},
                   day : Nat, minute : 0..DayLength, days : Nat]
    BY <2>1, <2>2, DayLengthNat
  <2>8. /\ scan'.pc = "scan" /\ scan'.day = from \div DayLength /\ scan'.days = 0
    BY <2>1
  <2>9. scan'.day = (from \div DayLength) + scan'.days
    BY <2>2, <2>8
  <2> QED
    BY <2>1, <2>5, <2>6, <2>7, <2>8, <2>9, <1>0 DEF ScanInv, DayLength
<1>3. CASE Look
  <2>1. /\ scan.pc = "scan" /\ scan.minute < DayLength /\ expr' = expr /\ from' = from
        /\ scan' = IF Matches(Candidate) THEN [scan EXCEPT !.pc = "found"]
                                        ELSE [scan EXCEPT !.minute = scan.minute + 1]
    BY <1>3 DEF Look
  <2>2. /\ scan.day \in Nat /\ scan.minute \in Nat /\ Candidate \in Nat /\ scan.days \in Nat
        /\ Accepted /\ Passed /\ scan.day = (from \div DayLength) + scan.days
    <3>1. /\ scan.day \in Nat /\ scan.minute \in Nat /\ scan.days \in Nat
      BY <1>0, DayLengthNat DEF ScanInv
    <3> QED
      BY <3>1, <1>0, <2>1, MinuteNat DEF ScanInv, Candidate
  <2>3. CASE Matches(Candidate)
    <3>1. /\ scan'.pc = "found" /\ scan'.day = scan.day /\ scan'.minute = scan.minute
          /\ scan'.days = scan.days
          /\ scan' \in [pc : {"parse", "rejected", "scan", "found", "never"},
                        day : Nat, minute : 0..DayLength, days : Nat]
      BY <2>1, <2>3, <1>0 DEF ScanInv
    <3>2. Candidate' = Candidate
      BY <3>1 DEF Candidate, DayLength
    <3>3. \A t : Matches(t)' <=> Matches(t)
      BY <2>1, ExpressionStays
    <3>4. Passed' /\ Matches(Candidate)'
      BY <3>2, <3>3, <2>1, <2>2, <2>3 DEF Passed
    <3>5. Accepted'
      BY <2>1, <2>2, ExpressionStays
    <3> QED
      BY <3>1, <3>4, <3>5, <2>1, <2>2, <1>0 DEF ScanInv, DayLength
  <2>4. CASE ~Matches(Candidate)
    <3>1. /\ scan'.pc = "scan" /\ scan'.day = scan.day /\ scan'.minute = scan.minute + 1
          /\ scan'.days = scan.days
          /\ scan' \in [pc : {"parse", "rejected", "scan", "found", "never"},
                        day : Nat, minute : 0..DayLength, days : Nat]
      BY <2>1, <2>2, <2>4, <1>0, DayLengthNat DEF ScanInv
    <3>2. Candidate' = Candidate + 1
      <4> DEFINE x == scan.day * DayLength
      <4>1. x \in Nat
        <5>1. \A a, b \in Nat : a * b \in Nat
          OBVIOUS
        <5> QED
          BY <5>1, <2>2, DayLengthNat
      <4>2. Candidate = x + scan.minute /\ Candidate' = x + (scan.minute + 1)
        BY <3>1 DEF Candidate, DayLength
      <4> HIDE DEF x
      <4> QED
        BY <4>1, <4>2, <2>2
    <3>3. \A t : Matches(t)' <=> Matches(t)
      BY <2>1, ExpressionStays
    <3>4. Passed'
      <4>1. from < Candidate + 1
        BY <2>2, <1>0 DEF Passed, ScanInv
      <4>2. ASSUME NEW t \in (from + 1)..((Candidate + 1) - 1)
            PROVE  ~Matches(t)
        <5>1. t \in (from + 1)..(Candidate - 1) \/ t = Candidate
          BY <2>2, <1>0 DEF ScanInv
        <5> QED
          BY <5>1, <2>2, <2>4 DEF Passed
      <4> QED
        BY <4>1, <4>2, <3>2, <3>3, <2>1 DEF Passed
    <3>5. Accepted'
      BY <2>1, <2>2, ExpressionStays
    <3> QED
      BY <3>1, <3>4, <3>5, <2>1, <2>2, <1>0 DEF ScanInv, DayLength
  <2> QED
    BY <2>3, <2>4
<1>4. CASE NextDay
  <2>1. /\ scan.pc = "scan" /\ scan.minute = DayLength /\ expr' = expr /\ from' = from
        /\ scan' = [pc |-> IF scan.days + 1 = ScanDays THEN "never" ELSE "scan",
                    day |-> scan.day + 1, minute |-> 0, days |-> scan.days + 1]
    BY <1>4 DEF NextDay
  <2>2. /\ scan.day \in Nat /\ scan.days \in Nat /\ from \div DayLength \in Nat
        /\ Accepted /\ Passed /\ scan.day = (from \div DayLength) + scan.days
    BY <1>0, <2>1, DaySplit DEF ScanInv
  <2>3. Candidate' = Candidate
    <3>1. \A a, b \in Nat : (a + 1) * b + 0 = a * b + b
      OBVIOUS
    <3>2. (scan.day + 1) * DayLength + 0 = scan.day * DayLength + DayLength
      BY <3>1, <2>2, DayLengthNat
    <3>3. scan'.day = scan.day + 1 /\ scan'.minute = 0
      BY <2>1
    <3> QED
      BY <3>2, <3>3, <2>1 DEF Candidate, DayLength
  <2>4. \A t : Matches(t)' <=> Matches(t)
    BY <2>1, ExpressionStays
  <2>5. Passed' /\ Accepted'
    BY <2>1, <2>2, <2>3, <2>4, ExpressionStays DEF Passed
  <2>6. /\ scan'.pc = IF scan.days + 1 = ScanDays THEN "never" ELSE "scan"
        /\ scan'.day = scan.day + 1 /\ scan'.minute = 0 /\ scan'.days = scan.days + 1
        /\ scan' \in [pc : {"parse", "rejected", "scan", "found", "never"},
                      day : Nat, minute : 0..DayLength, days : Nat]
    BY <2>1, <2>2, DayLengthNat
  <2>7. scan'.day = (from \div DayLength) + scan'.days
    BY <2>2, <2>6
  <2> QED
    BY <2>1, <2>5, <2>6, <2>7, <1>0 DEF ScanInv, DayLength
<1>5. CASE UNCHANGED cvars
  <2>1. expr' = expr /\ from' = from /\ scan' = scan /\ Candidate' = Candidate /\ DayLength' = DayLength
    BY <1>5 DEF cvars, Candidate, DayLength
  <2>2. (\A t : Matches(t)' <=> Matches(t)) /\ (Accepted' <=> Accepted)
    BY <2>1, ExpressionStays
  <2>3. Passed' <=> Passed
    BY <2>1, <2>2 DEF Passed
  <2> QED
    BY <1>0, <2>1, <2>2, <2>3 DEF ScanInv
<1> QED
  BY <1>0, <1>1, <1>2, <1>3, <1>4, <1>5 DEF CronNext

\* nextAfter's answer is the first minute after the one asked about that the
\* expression means, and it gives up only when the days it looks at have none.
THEOREM CronLeast == CronSpec => []NextIsLeast
<1>1. CronSpec => []ScanInv
  BY CronInitInv, CronNextInv, PTL DEF CronSpec
<1>2. ScanInv => NextIsLeast
  <2>1. SUFFICES ASSUME ScanInv, ~StarStep("dom"), ~StarStep("dow") PROVE
            /\ scan.pc = "found" =>
                  /\ from < Candidate /\ Means(Candidate)
                  /\ \A t \in (from + 1)..(Candidate - 1) : ~Means(t)
            /\ scan.pc = "never" =>
                  \A t \in (from + 1)..(((from \div DayLength) + ScanDays) * DayLength - 1) : ~Means(t)
    BY DEF NextIsLeast
  <2>2. from \in Nat /\ Candidate \in Nat
    <3>1. scan.day \in Nat /\ scan.minute \in Nat /\ from \in Nat
      BY <2>1, DayLengthNat DEF ScanInv
    <3> QED
      BY <3>1, MinuteNat DEF Candidate
  <2>3. ASSUME scan.pc \in {"scan", "found", "never"}
        PROVE  from < Candidate /\ \A t \in (from + 1)..(Candidate - 1) : ~Means(t)
    <3>1. Accepted /\ Passed
      BY <2>1, <2>3 DEF ScanInv
    <3>2. \A t \in (from + 1)..(Candidate - 1) : t \in Nat
      BY <2>2
    <3> QED
      BY <3>1, <3>2, <2>1, MatchesMeans DEF Passed
  <2>4. ASSUME scan.pc = "found" PROVE Means(Candidate)
    BY <2>1, <2>2, <2>4, MatchesMeans DEF ScanInv
  <2>5. ASSUME scan.pc = "never"
        PROVE  Candidate = ((from \div DayLength) + ScanDays) * DayLength
    <3>1. /\ scan.minute = 0 /\ scan.day = (from \div DayLength) + ScanDays
      BY <2>1, <2>5 DEF ScanInv
    <3>2. \A a, b \in Nat : a * b + 0 = a * b
      OBVIOUS
    <3>3. scan.day \in Nat
      BY <2>1 DEF ScanInv
    <3>4. Candidate = scan.day * DayLength + 0
      BY <3>1 DEF Candidate
    <3>5. Candidate = scan.day * DayLength
      BY <3>2, <3>3, <3>4, DayLengthNat
    <3> QED
      BY <3>1, <3>5
  <2> QED
    BY <2>3, <2>4, <2>5
<1> QED
  BY <1>1, <1>2, PTL

-----------------------------------------------------------------------------
(* The composition. *)

BackgroundInv == DeployInv /\ BotTypeOK /\ LimitInv /\ NestingInv /\ PoolTypeOK /\ BackupsInv

\* At start every component is as its own module says.
THEOREM BackgroundInitInv == Init => BackgroundInv
<1> SUFFICES ASSUME Init PROVE BackgroundInv
  OBVIOUS
<1>1. DeployInit /\ BotInit /\ LimitInit /\ PoolInit /\ BackupsInit
  BY DEF Init
<1>2. PoolTypeOK
  <2>1. In({"wantSecond", "second"}) = {} /\ In({"first", "wantSecond"}) = {} /\ In({"second"}) = {}
    BY <1>1 DEF PoolInit, In
  <2>2. InUse = 0
    BY <2>1, FS_EmptySet DEF InUse
  <2> QED
    BY <1>1, <2>1, <2>2, PoolAssumption DEF PoolTypeOK, PoolInit, Places
<1> QED
  BY <1>1, <1>2, DeployInitInv, BotInitInv, InitLimitInv, InitNestingInv, BackupsInitInv DEF BackgroundInv

\* A step of the composition is a step or a stutter of each component.
LEMMA ComponentSteps ==
    [Next]_allvars => /\ [DeployNext]_dvars /\ [BotNext]_bvars /\ [LimitNext]_lvars
                      /\ [PoolNext]_pvars /\ [BackupsNext]_kvars
<1>1. UNCHANGED allvars => UNCHANGED <<dvars, bvars, lvars, pvars, kvars>>
  BY DEF allvars
<1> QED
  BY <1>1 DEF Next

\* Every step of every component preserves the invariants of all.
THEOREM BackgroundNextInv == BackgroundInv /\ [Next]_allvars => BackgroundInv'
  BY ComponentSteps, DeployNextInv, BotNextInv, NextLimitInv, NextNestingInv, PoolTypeInv, BackupsNextInv
  DEF BackgroundInv

\* Type correctness of the components and their composition.
THEOREM BackgroundTypeCorrect == Spec => []BackgroundTypeOK
<1>1. BackgroundInv => BackgroundTypeOK
  BY DEF BackgroundInv, BackgroundTypeOK, DeployInv, DeployTypeInv, LimitInv, BackupsInv
<1> QED
  BY <1>1, BackgroundInitInv, BackgroundNextInv, PTL DEF Spec

\* Each component alone behaves as its own module says, whatever stands beside it.
THEOREM BackgroundComponents ==
    Spec => DeploySpec /\ BotSpec /\ LimitSpec /\ PoolSpec /\ BackupsSpec /\ CronSpec
<1>1. Init => DeployInit /\ BotInit /\ LimitInit /\ PoolInit /\ BackupsInit /\ CronInit
  BY DEF Init
<1>2. [Next]_allvars => [CronNext]_cvars
  BY DEF Next, allvars
<1> QED
  BY <1>1, <1>2, ComponentSteps, PTL
  DEF Spec, DeploySpec, BotSpec, LimitSpec, PoolSpec, BackupsSpec, CronSpec

\* So what is proved of the components holds of the system that is model-checked.
THEOREM BackgroundSafe ==
    Spec => [](BadExcused /\ WindowBound /\ FreshBackup /\ NextIsLeast)
  BY BackgroundComponents, DeployExcused, WindowBoundHolds, BackupsFresh, CronLeast, PTL

=============================================================================
