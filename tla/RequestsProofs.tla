---------------------------- MODULE RequestsProofs ----------------------------
(* Theorems about the components that MCRequests puts side by side, for any    *)
(* people, sessions, codes, projects, ports, requests and tables: who may act  *)
(* on what, which password opens an account, how often a code can be guessed,  *)
(* that ports are unique and edits are not undone, that what nginx runs is     *)
(* what rows said, and that a snapshot is what a table held first.             *)
EXTENDS MCRequests, Extremes, FiniteSetTheorems, SequenceTheorems

-----------------------------------------------------------------------------
(* Access *)

\* A request in flight, as RequireAuth and the handlers build it.
Entered == [kind : Kinds \cup {"register"}, pc : {"check", "mine", "theirs", "act"},
            by : People, of : People, role : Roles,
            may : SUBSET (Apps \cup {Global}), list : SUBSET (Apps \cup {All}),
            seen : SUBSET Account, seenOf : SUBSET Account, empty : BOOLEAN, blind : BOOLEAN]

\* Of a reset by a project administrator: the target was no administrator for a
\* row it had, or its role was not found.
Lesser(k) == k.role = "project_admin" /\ (k.blind \/ \E t \in k.seenOf : t.role # "super_admin")

\* What is known of a request: it remembers the rows its caller and its target
\* have now, it got its role from a row it remembers, or from a count of nobody,
\* and what it may touch, or whose password it may reset, follows from what it
\* remembers.
StillKnows(k) == RowOf(k.by, people) \subseteq k.seen /\ RowOf(k.of, people) \subseteq k.seenOf
Entitled(k) ==
    /\ k.kind \in Kinds => \E r \in k.seen : r.role = k.role
    /\ k.kind = "manage" => k.role = "super_admin"
    /\ k.kind = "register" /\ k.role = "super_admin" => k.empty \/ k.blind
    /\ k.kind = "reset" /\ k.pc \in {"mine", "theirs"} => Lesser(k)
    /\ k.kind = "reset" /\ k.pc = "theirs" => k.list = {} \/ \E s \in k.seen : k.list \subseteq s.list
    /\ k.kind = "reset" /\ k.pc = "act" =>
          \/ k.role = "super_admin"
          \/ Lesser(k) /\ \E s \in k.seen, t \in k.seenOf : s.list \cap t.list # {}
    /\ k.kind \in {"view", "edit"} => k.may \subseteq UNION {Allowed(k.kind, k.role, s.list) : s \in k.seen}
    /\ k.kind = "clear" => k.may \subseteq UNION {Allowed("clear", k.role, s.list) : s \in k.seen}

AccessInv ==
    /\ Known \subseteq People /\ IsFiniteSet(Known)
    /\ \A u \in Known : people[u] \in Account
    /\ notes \subseteq Apps \cup {Global} /\ made \in 0..MaxCalls
    /\ DOMAIN call = Calls
    /\ \A c \in Calls : call[c] = NoCall \/
          (call[c] \in Entered /\ StillKnows(call[c]) /\ Entitled(call[c]))

\* At start nobody is on the list and no call is running.
THEOREM AccessInitInv == AccessInit => AccessInv
<1> SUFFICES ASSUME AccessInit PROVE AccessInv
  OBVIOUS
<1>1. Known \subseteq People /\ IsFiniteSet(Known) /\ \A u \in Known : people[u] \in Account
  <2>1. CASE people = <<>>
    <3>1. Known = {}
      BY <2>1 DEF Known
    <3> QED
      BY <3>1, FS_EmptySet
  <2>2. ASSUME NEW a \in People, NEW u \in People, NEW r \in Account, a # u,
               people = [v \in {a, u} |-> IF v = u THEN r
                            ELSE [role |-> "super_admin", active |-> TRUE, list |-> {All}]]
        PROVE  Known \subseteq People /\ IsFiniteSet(Known) /\ \A v \in Known : people[v] \in Account
    <3>1. Known = {a} \cup {u}
      BY <2>2 DEF Known
    <3>2. IsFiniteSet(Known)
      BY <3>1, FS_Singleton, FS_AddElement
    <3>3. [role |-> "super_admin", active |-> TRUE, list |-> {All}] \in Account
      BY DEF Account, Roles
    <3> QED
      BY <2>2, <3>1, <3>2, <3>3
  <2> QED
    BY <2>1, <2>2 DEF AccessInit
<1> QED
  BY <1>1, AccessAssumption DEF AccessInit, AccessInv, NoCall

\* A request goes on being entitled when it remembers more.
LEMMA WatchedEntitled ==
    ASSUME NEW k \in Entered, Entitled(k),
           NEW table, \A u : RowOf(u, table) \subseteq Account
    PROVE  /\ Watched(k, table) \in Entered /\ Entitled(Watched(k, table))
           /\ RowOf(Watched(k, table).by, table) \subseteq Watched(k, table).seen
           /\ RowOf(Watched(k, table).of, table) \subseteq Watched(k, table).seenOf
<1> DEFINE w == Watched(k, table)
<1>1. k.kind # "none"
  BY DEF Entered, Kinds
<1>2. w = [k EXCEPT !.seen = @ \cup RowOf(k.by, table), !.seenOf = @ \cup RowOf(k.of, table),
                    !.empty = @ \/ DOMAIN table = {}]
  BY <1>1 DEF Watched
<1>3. /\ w.kind = k.kind /\ w.role = k.role /\ w.may = k.may /\ w.by = k.by /\ w.of = k.of
      /\ w.pc = k.pc /\ w.list = k.list /\ w.blind = k.blind /\ (k.empty => w.empty)
      /\ w.seen = k.seen \cup RowOf(k.by, table) /\ w.seenOf = k.seenOf \cup RowOf(k.of, table)
  BY <1>2 DEF Entered
<1>4. w \in Entered
  BY <1>2 DEF Entered
<1> HIDE DEF w
<1>5. Lesser(k) => Lesser(w)
  BY <1>3 DEF Lesser
<1>6. Entitled(w)
  BY <1>3, <1>5 DEF Entitled
<1> QED
  BY <1>3, <1>4, <1>6 DEF w

LEMMA NoneWatched == \A table : Watched(NoCall, table) = NoCall
  BY DEF Watched, NoCall

\* The end of a request, over the table it leaves behind.
LEMMA ReturnInv ==
    ASSUME AccessInv, NEW c \in Calls, Return(c, people'), notes' \subseteq notes,
           made' = made, Known' \subseteq People, IsFiniteSet(Known'),
           \A u \in Known' : people'[u] \in Account
    PROVE  AccessInv'
<1>1. \A u : RowOf(u, people') \subseteq Account
  BY DEF RowOf, Known
<1>2. DOMAIN call' = Calls
  BY DEF Return
<1>3. \A d \in Calls : call'[d] = NoCall \/
          (/\ call'[d] \in Entered /\ Entitled(call'[d])
           /\ RowOf(call'[d].by, people') \subseteq call'[d].seen
           /\ RowOf(call'[d].of, people') \subseteq call'[d].seenOf)
  <2> SUFFICES ASSUME NEW d \in Calls, d # c
               PROVE  call'[d] = NoCall \/
          (/\ call'[d] \in Entered /\ Entitled(call'[d])
           /\ RowOf(call'[d].by, people') \subseteq call'[d].seen
           /\ RowOf(call'[d].of, people') \subseteq call'[d].seenOf)
    BY DEF Return
  <2>1. call'[d] = Watched(call[d], people')
    BY DEF Return
  <2>2. CASE call[d] = NoCall
    BY <2>1, <2>2, NoneWatched
  <2>3. CASE call[d] \in Entered /\ Entitled(call[d])
    BY <2>1, <2>3, <1>1, WatchedEntitled
  <2> QED
    BY <2>2, <2>3 DEF AccessInv
<1>4. ((\A d \in Calls : call[d] = NoCall \/
          (call[d] \in Entered /\ StillKnows(call[d]) /\ Entitled(call[d]))))'
  BY <1>3 DEF RowOf, Entitled, Lesser, StillKnows
<1>5. (\A u \in Known : people[u] \in Account)'
  OBVIOUS
<1> QED
  BY <1>2, <1>4, <1>5 DEF AccessInv

\* The new request of Enter and Count.
LEMMA CallInv ==
    ASSUME AccessInv, NEW c \in Calls, NEW kind \in Kinds \cup {"register"}, NEW pc \in {"check", "act"},
           NEW u \in People, NEW t \in People, NEW role \in Roles, NEW blind \in BOOLEAN,
           Call(c, Request(kind, pc, u, t, role, blind)), UNCHANGED <<people, notes>>,
           kind \in Kinds => u \in Known /\ people[u].role = role /\ pc = "check",
           kind = "manage" => role = "super_admin",
           kind = "register" /\ role = "super_admin" => Known = {} \/ blind
    PROVE  AccessInv'
<1> DEFINE k == Request(kind, pc, u, t, role, blind)
<1>1. call' = [call EXCEPT ![c] = k]
  BY DEF Call
<1>2. RowOf(u, people) \in SUBSET Account /\ RowOf(t, people) \in SUBSET Account
  BY DEF AccessInv, RowOf, Known
<1>3. k \in Entered
  BY <1>2 DEF Entered, Request
<1>4. Entitled(k)
  BY DEF Entitled, RowOf, Known, Kinds, Request
<1>5. k.by = u /\ k.of = t /\ k.seen = RowOf(u, people) /\ k.seenOf = RowOf(t, people)
  BY DEF Request
<1> HIDE DEF k
<1>6. (\A d \in Calls : call[d] = NoCall \/
          (call[d] \in Entered /\ StillKnows(call[d]) /\ Entitled(call[d])))'
  BY <1>1, <1>3, <1>4, <1>5 DEF AccessInv, StillKnows
<1>7. made' \in 0..MaxCalls
  BY AccessAssumption DEF AccessInv, Call
<1> QED
  BY <1>1, <1>6, <1>7 DEF AccessInv, Known

LEMMA EnterInv == ASSUME AccessInv, NEW c \in Calls, NEW u \in People, NEW t \in People,
                         NEW kind \in Kinds, Enter(c, u, kind, t)
                  PROVE  AccessInv'
<1>1. people[u].role \in Roles
  BY DEF Enter, AccessInv, Account
<1>2. kind # "register"
  BY DEF Kinds
<1> QED
  BY <1>1, <1>2, CallInv DEF Enter

LEMMA CountInv == ASSUME AccessInv, NEW c \in Calls, NEW u \in People, Count(c, u)
                  PROVE  AccessInv'
<1>1. PICK fails \in BOOLEAN :
        LET count == IF fails THEN 0 ELSE Cardinality(Known)
        IN  Call(c, Request("register", "act", u, u, FirstRole(count), fails))
  BY DEF Count
<1> DEFINE role == FirstRole(IF fails THEN 0 ELSE Cardinality(Known))
<1>2. role \in Roles /\ (role = "super_admin" => Known = {} \/ fails)
  BY FS_EmptySet DEF FirstRole, Roles, AccessInv
<1>3. Call(c, Request("register", "act", u, u, role, fails)) /\ UNCHANGED <<people, notes>>
  BY <1>1 DEF Count
<1>4. "register" \notin Kinds
  BY DEF Kinds
<1> HIDE DEF role
<1> QED
  BY <1>2, <1>3, <1>4, CallInv

\* What a list allows, whatever the list.
LEMMA AllowedTyped == \A kind, role, list : Allowed(kind, role, list) \subseteq Apps \cup {Global}
  BY DEF Allowed, OnList

LEMMA ConsultInv == ASSUME AccessInv, NEW c \in Calls, Consult(c) PROVE AccessInv'
<1> DEFINE k == call[c]
           list == IF k.kind = "clear" THEN List(k.by) \cap {All} ELSE List(k.by)
           may == Allowed(k.kind, k.role, list)
           moved == [call[c] EXCEPT !.pc = "act", !.may = may]
<1>1. k.kind \in Kinds \ {"reset"} /\ k \in Entered /\ Entitled(k) /\ StillKnows(k)
  BY DEF Consult, AccessInv, NoCall, Kinds
<1>2. call' = [call EXCEPT ![c] = moved]
  BY DEF Consult, AccessInv
<1>3. moved \in Entered /\ moved.kind = k.kind /\ moved.role = k.role /\ moved.by = k.by /\ moved.seen = k.seen
        /\ moved.may = may /\ moved.empty = k.empty
        /\ moved.of = k.of /\ moved.seenOf = k.seenOf /\ moved.blind = k.blind
  BY <1>1, AllowedTyped DEF Entered
<1>4. PICK r \in k.seen : r.role = k.role
  BY <1>1 DEF Entitled
<1>5. \E s \in k.seen : List(k.by) \subseteq s.list
  <2>1. CASE k.by \in Known
    BY <2>1, <1>1 DEF RowOf, List, Known, StillKnows
  <2>2. CASE k.by \notin Known
    BY <2>2, <1>4 DEF List
  <2> QED
    BY <2>1, <2>2
<1>6. PICK s \in k.seen : List(k.by) \subseteq s.list
  BY <1>5
<1>7. k.kind \in {"view", "edit", "clear"} => may \subseteq Allowed(k.kind, k.role, s.list)
  BY <1>6, AccessAssumption DEF Allowed, OnList
<1> HIDE DEF moved, may, list
<1>8. Entitled(moved)
  BY <1>1, <1>3, <1>6, <1>7 DEF Entitled
<1>9. (\A d \in Calls : call[d] = NoCall \/
          (call[d] \in Entered /\ StillKnows(call[d]) /\ Entitled(call[d])))'
  BY <1>1, <1>2, <1>3, <1>8 DEF AccessInv, Consult, StillKnows
<1> QED
  BY <1>2, <1>9 DEF AccessInv, Consult, Known

\* A reset that goes on.
LEMMA GoesOnInv ==
    ASSUME AccessInv, NEW c \in Calls, call[c].kind = "reset", NEW k \in Entered, Entitled(k),
           call' = [call EXCEPT ![c] = k], UNCHANGED <<people, notes, made>>,
           k.by = call[c].by, k.of = call[c].of, k.seen = call[c].seen, k.seenOf = call[c].seenOf
    PROVE  AccessInv'
<1>1. StillKnows(k)
  BY DEF AccessInv, NoCall, StillKnows
<1>2. (\A d \in Calls : call[d] = NoCall \/
          (call[d] \in Entered /\ StillKnows(call[d]) /\ Entitled(call[d])))'
  BY <1>1 DEF AccessInv, StillKnows
<1> QED
  BY <1>2 DEF AccessInv, Known

\* A reset that is refused.
LEMMA RefusedInv ==
    ASSUME AccessInv, NEW c \in Calls, Return(c, people), UNCHANGED <<people, notes, made>>
    PROVE  AccessInv'
  BY ReturnInv DEF AccessInv, Known, Return

LEMMA ConsultRoleInv == ASSUME AccessInv, NEW c \in Calls, ConsultRole(c) PROVE AccessInv'
<1> DEFINE k == call[c]
<1>1. k.kind = "reset" /\ k.pc = "check" /\ k \in Entered /\ Entitled(k) /\ StillKnows(k)
      /\ DOMAIN call = Calls
  BY DEF ConsultRole, AccessInv, NoCall
<1>2. ASSUME NEW pc \in {"mine", "act"}, NEW blind \in BOOLEAN,
             call' = [call EXCEPT ![c].pc = pc, ![c].blind = blind],
             IF pc = "act" THEN k.role = "super_admin"
             ELSE k.role = "project_admin" /\ (blind \/ \E t \in k.seenOf : t.role # "super_admin")
      PROVE  AccessInv'
  <2> DEFINE w == [k EXCEPT !.pc = pc, !.blind = blind]
  <2>1. call' = [call EXCEPT ![c] = w]
    BY <1>1, <1>2
  <2>2. /\ w \in Entered /\ w.kind = k.kind /\ w.role = k.role /\ w.by = k.by /\ w.of = k.of
        /\ w.seen = k.seen /\ w.seenOf = k.seenOf /\ w.pc = pc /\ w.blind = blind
    BY <1>1 DEF Entered
  <2> HIDE DEF w
  <2>3. Entitled(w)
    BY <1>1, <1>2, <2>2 DEF Entitled, Lesser
  <2> QED
    BY <1>1, <2>1, <2>2, <2>3, GoesOnInv DEF ConsultRole
<1>3. ASSUME k.of \in Known, people[k.of].role # "super_admin"
      PROVE  \E t \in k.seenOf : t.role # "super_admin"
  BY <1>1, <1>3 DEF StillKnows, RowOf, Known
<1> QED
  BY <1>2, <1>3, RefusedInv DEF ConsultRole

LEMMA ConsultOwnInv == ASSUME AccessInv, NEW c \in Calls, ConsultOwn(c) PROVE AccessInv'
<1> DEFINE k == call[c]
           w == [k EXCEPT !.pc = "theirs", !.list = List(k.by)]
<1>1. k.kind = "reset" /\ k.pc = "mine" /\ k \in Entered /\ Entitled(k) /\ StillKnows(k)
      /\ DOMAIN call = Calls
  BY DEF ConsultOwn, AccessInv, NoCall
<1>2. call' = [call EXCEPT ![c] = w]
  BY <1>1 DEF ConsultOwn
<1>3. List(k.by) \subseteq Apps \cup {All}
  BY DEF List, AccessInv, Account
<1>4. List(k.by) = {} \/ \E s \in k.seen : List(k.by) \subseteq s.list
  BY <1>1 DEF List, StillKnows, RowOf, Known
<1>5. /\ w \in Entered /\ w.kind = k.kind /\ w.role = k.role /\ w.by = k.by /\ w.of = k.of
      /\ w.seen = k.seen /\ w.seenOf = k.seenOf /\ w.pc = "theirs" /\ w.blind = k.blind
      /\ w.list = List(k.by)
  BY <1>1, <1>3 DEF Entered
<1> HIDE DEF w
<1>6. Entitled(w)
  BY <1>1, <1>4, <1>5 DEF Entitled, Lesser
<1> QED
  BY <1>1, <1>5, <1>6, <1>2, GoesOnInv DEF ConsultOwn

LEMMA ConsultTheirsInv == ASSUME AccessInv, NEW c \in Calls, ConsultTheirs(c) PROVE AccessInv'
<1> DEFINE k == call[c]
           w == [k EXCEPT !.pc = "act"]
<1>1. k.kind = "reset" /\ k.pc = "theirs" /\ k \in Entered /\ Entitled(k) /\ StillKnows(k)
  BY DEF ConsultTheirs, AccessInv, NoCall
<1>2. CASE Return(c, people)
  BY <1>2, RefusedInv DEF ConsultTheirs
<1>3. CASE k.list \cap List(k.of) # {} /\ call' = [call EXCEPT ![c] = w]
  <2>1. PICK s \in k.seen : k.list \subseteq s.list
    BY <1>1, <1>3 DEF Entitled
  <2>2. \E t \in k.seenOf : List(k.of) = t.list
    BY <1>1, <1>3 DEF List, StillKnows, RowOf, Known
  <2>3. \E t \in k.seenOf : s.list \cap t.list # {}
    BY <1>3, <2>1, <2>2
  <2>4. /\ w \in Entered /\ w.kind = k.kind /\ w.role = k.role /\ w.by = k.by /\ w.of = k.of
        /\ w.seen = k.seen /\ w.seenOf = k.seenOf /\ w.pc = "act" /\ w.blind = k.blind
    BY <1>1 DEF Entered
  <2> HIDE DEF w
  <2>5. Entitled(w)
    BY <1>1, <2>1, <2>3, <2>4 DEF Entitled, Lesser
  <2> QED
    BY <1>1, <1>3, <2>4, <2>5, GoesOnInv DEF ConsultTheirs
<1> QED
  BY <1>2, <1>3 DEF ConsultTheirs, AccessInv

LEMMA ActInv == ASSUME AccessInv, NEW c \in Calls, Act(c) \/ ClearNotes(c) PROVE AccessInv'
<1>1. Return(c, people) /\ people' = people /\ made' = made
  BY DEF Act, ClearNotes
<1>2. notes' \subseteq notes
  BY DEF Act, ClearNotes
<1> QED
  BY <1>1, <1>2, ReturnInv DEF AccessInv, Known, Return

LEMMA ManageInv == ASSUME AccessInv, NEW c \in Calls, Manage(c) PROVE AccessInv'
<1> PICK u \in People :
        people' \in {WithRow(u, r) : r \in Account} \cup {[v \in Known \ {u} |-> people[v]]}
  BY DEF Manage
<1>1. Known' \subseteq People /\ IsFiniteSet(Known') /\ \A v \in Known' : people'[v] \in Account
  <2>1. ASSUME NEW r \in Account, people' = WithRow(u, r)
        PROVE  Known' \subseteq People /\ IsFiniteSet(Known') /\ \A v \in Known' : people'[v] \in Account
    <3>1. Known' = Known \cup {u}
      BY <2>1 DEF WithRow, Known
    <3> QED
      BY <2>1, <3>1, FS_AddElement DEF WithRow, AccessInv
  <2>2. ASSUME people' = [v \in Known \ {u} |-> people[v]]
        PROVE  Known' \subseteq People /\ IsFiniteSet(Known') /\ \A v \in Known' : people'[v] \in Account
    <3>1. Known' = Known \ {u}
      BY <2>2 DEF Known
    <3> QED
      BY <2>2, <3>1, FS_RemoveElement DEF AccessInv
  <2> QED
    BY <2>1, <2>2
<1> QED
  BY <1>1, ReturnInv DEF Manage

LEMMA EnrolInv == ASSUME AccessInv, NEW c \in Calls, Enrol(c) PROVE AccessInv'
<1> DEFINE k == call[c]
           r == [role |-> k.role, active |-> TRUE, list |-> IF k.role = "viewer" THEN {} ELSE {All}]
<1>1. k \in Entered
  BY DEF Enrol, AccessInv, NoCall
<1>2. r \in Account /\ k.by \in People
  BY <1>1 DEF Entered, Account
<1>3. people' = IF k.by \in Known THEN people ELSE WithRow(k.by, r)
  BY DEF Enrol
<1> HIDE DEF r
<1>4. CASE k.by \in Known
  BY <1>3, <1>4, ReturnInv DEF Enrol, AccessInv, Known
<1>5. CASE k.by \notin Known
  <2>1. people' = WithRow(k.by, r)
    BY <1>3, <1>5
  <2>2. Known' = Known \cup {k.by}
    BY <2>1 DEF WithRow, Known
  <2>3. Known' \subseteq People /\ IsFiniteSet(Known') /\ \A v \in Known' : people'[v] \in Account
    BY <2>1, <2>2, <1>2, FS_AddElement DEF WithRow, AccessInv
  <2> QED
    BY <2>3, ReturnInv DEF Enrol
<1> QED
  BY <1>4, <1>5

\* Every step of a call, and every change of a membership, preserves it.
THEOREM AccessNextInv == AccessInv /\ [AccessNext]_xvars => AccessInv'
<1> SUFFICES ASSUME AccessInv, [AccessNext]_xvars PROVE AccessInv'
  OBVIOUS
<1>1. CASE UNCHANGED xvars
  BY <1>1 DEF xvars, AccessInv, Known, StillKnows
<1>2. ASSUME NEW c \in Calls, NEW u \in People, NEW t \in People, NEW kind \in Kinds, Enter(c, u, kind, t)
      PROVE  AccessInv'
  BY <1>2, EnterInv
<1>3. ASSUME NEW c \in Calls, NEW u \in People, Count(c, u)
      PROVE  AccessInv'
  BY <1>3, CountInv
<1>4. ASSUME NEW c \in Calls, ConsultRole(c) \/ ConsultOwn(c) \/ ConsultTheirs(c)
      PROVE  AccessInv'
  BY <1>4, ConsultRoleInv, ConsultOwnInv, ConsultTheirsInv
<1>5. ASSUME NEW c \in Calls, Consult(c) \/ Act(c) \/ ClearNotes(c) \/ Manage(c) \/ Enrol(c)
      PROVE  AccessInv'
  BY <1>5, ConsultInv, ActInv, ManageInv, EnrolInv
<1> QED
  BY <1>1, <1>2, <1>3, <1>4, <1>5 DEF AccessNext

\* A list allows no more than the caller's rights, if the caller had it since
\* the request began, and had its role.
LEMMA AllowedRights ==
    ASSUME NEW c \in Calls, call[c].kind \in {"view", "edit", "clear"},
           NEW r \in call[c].seen, r.role = call[c].role, NEW s \in call[c].seen
    PROVE  Allowed(call[c].kind, call[c].role, s.list) \subseteq Rights(c)
  BY DEF Allowed, OnList, Rights

LEMMA InvEntitled == AccessInv => OnlyEntitled
<1> SUFFICES ASSUME AccessInv, NEW c \in Calls, call[c].kind # "none"
             PROVE  /\ call[c].kind \in {"view", "edit", "clear"} /\ call[c].pc = "act" => Touched(c) \subseteq Rights(c)
                    /\ call[c].kind = "manage" => \E r \in call[c].seen : r.role = "super_admin"
                    /\ call[c].kind = "reset" /\ call[c].pc = "act" => MayReset(c)
                    /\ call[c].kind = "register" /\ call[c].role = "super_admin" => call[c].empty \/ call[c].blind
  BY DEF OnlyEntitled
<1>1. call[c] \in Entered /\ StillKnows(call[c]) /\ Entitled(call[c])
  BY DEF AccessInv, NoCall
<1>2. ASSUME call[c].kind \in {"view", "edit", "clear"} PROVE Touched(c) \subseteq Rights(c)
  <2> USE <1>2
  <2> PICK r \in call[c].seen : r.role = call[c].role
    BY <1>1 DEF Entitled, Kinds
  <2>1. \A s \in call[c].seen : Allowed(call[c].kind, call[c].role, s.list) \subseteq Rights(c)
    BY AllowedRights
  <2>2. call[c].may \subseteq Rights(c)
    BY <1>1, <2>1 DEF Entitled
  <2>3. call[c].kind = "clear" => Allowed("clear", call[c].role, List(call[c].by)) \subseteq Rights(c)
    <3>1. CASE call[c].by \in Known
      BY <3>1, <1>1, <2>1 DEF RowOf, List, Known, StillKnows
    <3>2. CASE call[c].by \notin Known
      <4>1. Allowed("clear", call[c].role, {}) \subseteq Allowed("clear", call[c].role, r.list)
        BY DEF Allowed, OnList
      <4> QED
        BY <3>2, <4>1, <2>1 DEF List
    <3> QED
      BY <3>1, <3>2
  <2> QED
    BY <2>2, <2>3 DEF Touched
<1>3. call[c].kind = "manage" => \E r \in call[c].seen : r.role = "super_admin"
  BY <1>1 DEF Entitled, Kinds
<1>4. call[c].kind = "reset" /\ call[c].pc = "act" => MayReset(c)
  BY <1>1 DEF Entitled, Lesser, Kinds, MayReset
<1> QED
  BY <1>1, <1>2, <1>3, <1>4 DEF Entitled

\* The entitlement holds at every moment.
THEOREM AccessSpecInv == AccessSpec => []AccessInv
  BY AccessInitInv, AccessNextInv, PTL DEF AccessSpec

\* For any people, applications and number of calls: a call acts only on what
\* rows that its caller, and whose password it resets, had since it was asked
\* entitle it to, but for the queries OnlyEntitled names that find nothing.
THEOREM AccessEntitled == AccessSpec => []OnlyEntitled
  BY AccessSpecInv, InvEntitled, PTL

-----------------------------------------------------------------------------
(* Accounts *)

\* sha256 of sha256 is no sha256 of a password, and hashing is injective.
LEMMA Hashing ==
    ASSUME NEW a, NEW b, NEW s, NEW t
    PROVE  /\ Append(<<a>>, s) = <<a, s>> /\ (<<a, s>> = <<b, t>> <=> a = b /\ s = t)
           /\ <<a, s>> # <<b>> /\ Append(<<a, s>>, t) # <<b, s>> /\ Append(<<a, s>>, t) # <<b, t>>
           /\ Clear(<<a>>) /\ ~Clear(<<a, s>>)
<1>1. Append(<<a>>, s) = <<a, s>>
  <2>1. <<a>> \in Seq({a, s}) /\ <<a, s>> \in Seq({a, s}) /\ Len(<<a>>) = 1 /\ Len(<<a, s>>) = 2
    OBVIOUS
  <2>2. /\ Append(<<a>>, s) \in Seq({a, s}) /\ Len(Append(<<a>>, s)) = 2
        /\ Append(<<a>>, s)[1] = a /\ Append(<<a>>, s)[2] = s
    BY <2>1, AppendProperties
  <2>3. <<a, s>>[1] = a /\ <<a, s>>[2] = s
    OBVIOUS
  <2>4. \A i \in 1..Len(<<a, s>>) : <<a, s>>[i] = Append(<<a>>, s)[i]
    BY <2>1, <2>2, <2>3
  <2> QED
    BY <2>1, <2>2, <2>4, SeqEqual
<1>2. <<a, s>> = <<b, t>> <=> a = b /\ s = t
  OBVIOUS
<1>3. Len(<<a>>) = 1 /\ Len(<<a, s>>) = 2 /\ Len(<<b, t>>) = 2
  OBVIOUS
<1>4. Len(Append(<<a, s>>, t)) = 3
  <2>1. <<a, s>> \in Seq({a, s, t})
    OBVIOUS
  <2> QED
    BY <1>3, <2>1
<1>5. <<a, s>> # <<b>> /\ Append(<<a, s>>, t) # <<b, s>> /\ Append(<<a, s>>, t) # <<b, t>>
  <2>1. Len(<<b>>) = 1 /\ Len(<<b, s>>) = 2
    OBVIOUS
  <2> QED
    BY <1>3, <1>4, <2>1
<1>6. Clear(<<a>>) /\ ~Clear(<<a, s>>)
  BY <1>3 DEF Clear
<1> QED
  BY <1>1, <1>2, <1>5, <1>6

\* What a client sends for password p.
Sent(p) == {<<p>>} \cup {<<p, s>> : s \in Nat}

Asked(o) ==
    /\ DOMAIN o = {"pc", "old", "new", "salt", "hash", "tv"}
    /\ o.pc \in {"login", "upgrade"} => \E p \in Passwords : o.new = <<p>> /\ o.old \in Sent(p)
    /\ o.pc \in {"change", "reset", "setChange", "setReset"} => \E p \in Passwords : o.new \in Sent(p)
    /\ o.salt \in Nat /\ o.tv \in Nat

\* Unless a mishap happened: the row holds the hash of the secret with its own
\* salt, a token of this version is for the secret, and a login that upgrades
\* has matched the unsalted hash of what it sent.
AccountsInv ==
    /\ row = [hash |-> row.hash, salt |-> row.salt, tv |-> row.tv]
    /\ row.salt \in Nat /\ row.tv \in Nat /\ saltsUsed \in Nat /\ secret \in Passwords
    /\ \A t \in tokens : t.tv \in Nat /\ t.tv <= row.tv
    /\ DOMAIN op = Sessions /\ \A s \in Sessions : Asked(op[s]) /\ op[s].tv <= row.tv
    /\ mishap = {} =>
          /\ row.hash = <<secret, row.salt>>
          /\ \A t \in tokens : t.tv = row.tv => t.pw = secret
          /\ \A s \in Sessions : op[s].pc = "upgrade" =>
                /\ op[s].old = op[s].new
                /\ op[s].hash = <<op[s].new[1], NoSalt>>

\* At start the row holds the hash of the secret.
THEOREM AccountsInitInv == AccountsInit => AccountsInv
<1> SUFFICES ASSUME AccountsInit PROVE AccountsInv
  OBVIOUS
<1>1. row = [hash |-> <<secret, NoSalt>>, salt |-> NoSalt, tv |-> 0]
  BY DEF AccountsInit
<1>2. Asked(NoOp) /\ NoOp.pc = "free" /\ NoOp.tv = 0
  BY DEF Asked, NoOp
<1> QED
  BY <1>1, <1>2 DEF AccountsInit, AccountsInv, NoSalt

\* A matching payload is of the secret.
LEMMA Verified ==
    ASSUME AccountsInv, mishap = {}, NEW p \in Passwords, NEW x \in Sent(p),
           VerifyPassword(row.hash, x, row.salt)
    PROVE  p = secret /\ (row.hash # x => x = <<p>>)
<1>1. row.hash = <<secret, row.salt>>
  BY DEF AccountsInv
<1>2. CASE x = <<p>>
  BY <1>1, <1>2, Hashing DEF VerifyPassword
<1>3. CASE x # <<p>>
  <2> PICK s \in Nat : x = <<p, s>>
    BY <1>3 DEF Sent
  <2> QED
    BY <1>1, Hashing DEF VerifyPassword
<1> QED
  BY <1>2, <1>3

LEMMA AskInv ==
    ASSUME AccountsInv, NEW s \in Sessions, NEW pc \in {"login", "change", "reset"}, NEW old, NEW new,
           Ask(s, pc, old, new), NEW p \in Passwords,
           pc = "login" => new = <<p>> /\ old \in Sent(p), new \in Sent(p)
    PROVE  AccountsInv'
<1> DEFINE o == [NoOp EXCEPT !.pc = pc, !.old = old, !.new = new]
<1>1. op' = [op EXCEPT ![s] = o] /\ UNCHANGED <<row, secret, saltsUsed, tokens, mishap>>
  BY DEF Ask
<1>2. /\ DOMAIN o = {"pc", "old", "new", "salt", "hash", "tv"}
      /\ o.pc = pc /\ o.old = old /\ o.new = new /\ o.salt = 0 /\ o.tv = 0
  BY DEF NoOp
<1>3. Asked(o) /\ o.tv = 0 /\ o.pc # "upgrade"
  <2> HIDE DEF o
  <2> QED
    BY <1>2 DEF Asked
<1> HIDE DEF o
<1>4. \A t \in Sessions : op'[t] = IF t = s THEN o ELSE op[t]
  BY <1>1 DEF AccountsInv
<1>5. DOMAIN op' = Sessions /\ \A t \in Sessions : Asked(op'[t]) /\ op'[t].tv <= row.tv
  BY <1>1, <1>3, <1>4 DEF AccountsInv
<1> QED
  BY <1>1, <1>3, <1>4, <1>5 DEF AccountsInv

\* A request ends; what it leaves in the row, the tokens and the history is
\* given.
LEMMA DoneInv ==
    ASSUME AccountsInv, NEW s \in Sessions, Done(s),
           row' = [hash |-> row'.hash, salt |-> row'.salt, tv |-> row'.tv],
           row'.salt \in Nat, row'.tv \in Nat, row.tv <= row'.tv, saltsUsed' \in Nat, secret' \in Passwords,
           \A t \in tokens' : t.tv \in Nat /\ t.tv <= row'.tv,
           mishap \subseteq mishap',
           mishap' = {} => /\ row'.hash = <<secret', row'.salt>>
                           /\ \A t \in tokens' : t.tv = row'.tv => t.pw = secret'
    PROVE  AccountsInv'
<1>1. Asked(NoOp) /\ NoOp.pc = "free" /\ NoOp.tv = 0
  BY DEF Asked, NoOp
<1>2. DOMAIN op' = Sessions /\ \A t \in Sessions : op'[t] = IF t = s THEN NoOp ELSE op[t]
  BY DEF Done, AccountsInv
<1>3. \A t \in Sessions : Asked(op'[t]) /\ op'[t].tv <= row'.tv
  <2> TAKE t \in Sessions
  <2>1. op[t].tv \in Nat /\ op[t].tv <= row.tv /\ row.tv \in Nat
    BY DEF AccountsInv, Asked
  <2> QED
    BY <1>1, <1>2, <2>1 DEF AccountsInv
<1>4. mishap' = {} => \A t \in Sessions : op'[t].pc = "upgrade" =>
                /\ op'[t].old = op'[t].new
                /\ op'[t].hash = <<op'[t].new[1], NoSalt>>
  BY <1>1, <1>2 DEF AccountsInv
<1> QED
  BY <1>2, <1>3, <1>4 DEF AccountsInv

LEMMA SendInv == ASSUME AccountsInv, NEW s \in Sessions, SendLogin(s) \/ SendChange(s) \/ SendReset(s)
                 PROVE  AccountsInv'
<1>1. \A c \in ClientKinds, p \in Passwords : Payload(c, p) \in Sent(p) /\ <<p>> \in Sent(p)
  BY DEF Payload, Sent, AccountsInv
<1>2. CASE SendLogin(s)
  BY <1>1, <1>2, AskInv DEF SendLogin
<1>3. CASE SendChange(s)
  BY <1>1, <1>3, AskInv DEF SendChange
<1>4. CASE SendReset(s)
  BY <1>1, <1>4, AskInv DEF SendReset
<1> QED
  BY <1>2, <1>3, <1>4

LEMMA DenyInv == ASSUME AccountsInv, NEW s \in Sessions, Deny(s) PROVE AccountsInv'
  BY DoneInv DEF Deny, AccountsInv

LEMMA LoginInv == ASSUME AccountsInv, NEW s \in Sessions, Login(s) PROVE AccountsInv'
<1>1. PICK p \in Passwords : op[s].new = <<p>> /\ op[s].old \in Sent(p)
  BY DEF Login, AccountsInv, Asked
<1>2. tokens' = tokens \cup {[tv |-> row.tv, pw |-> p]}
  BY <1>1 DEF Login, Issue
<1>3. mishap = {} => p = secret
  BY <1>1, Verified DEF Login
<1>4. \A t \in tokens' : t.tv \in Nat /\ t.tv <= row.tv
  BY <1>2 DEF AccountsInv
<1>5. UNCHANGED <<row, secret, saltsUsed, mishap>> /\ Done(s)
  BY DEF Login
<1> QED
  BY <1>2, <1>3, <1>4, <1>5, DoneInv DEF AccountsInv

\* A request goes on; the row, the tokens and the history stay.
LEMMA StepOnInv ==
    ASSUME AccountsInv, NEW s \in Sessions, NEW o, op' = [op EXCEPT ![s] = o], Asked(o), o.tv <= row.tv,
           UNCHANGED <<row, secret, saltsUsed, tokens, mishap>>,
           mishap = {} /\ o.pc = "upgrade" => o.old = o.new /\ o.hash = <<o.new[1], NoSalt>>
    PROVE  AccountsInv'
<1>1. DOMAIN op' = Sessions /\ \A t \in Sessions : op'[t] = IF t = s THEN o ELSE op[t]
  BY DEF AccountsInv
<1>2. \A t \in Sessions : Asked(op'[t]) /\ op'[t].tv <= row.tv
  BY <1>1 DEF AccountsInv
<1>3. mishap = {} => \A t \in Sessions : op'[t].pc = "upgrade" =>
                /\ op'[t].old = op'[t].new
                /\ op'[t].hash = <<op'[t].new[1], NoSalt>>
  BY <1>1 DEF AccountsInv
<1> QED
  BY <1>1, <1>2, <1>3 DEF AccountsInv

LEMMA LoginLegacyInv == ASSUME AccountsInv, NEW s \in Sessions, LoginLegacy(s) PROVE AccountsInv'
<1> DEFINE o == [op[s] EXCEPT !.pc = "upgrade", !.hash = row.hash, !.tv = row.tv]
<1>1. PICK p \in Passwords : op[s].new = <<p>> /\ op[s].old \in Sent(p)
  BY DEF LoginLegacy, AccountsInv, Asked
<1>2. DOMAIN op[s] = {"pc", "old", "new", "salt", "hash", "tv"} /\ op[s].salt \in Nat
  BY DEF AccountsInv, Asked
<1>3. op' = [op EXCEPT ![s] = o] /\ UNCHANGED <<row, secret, saltsUsed, tokens, mishap>>
  BY DEF LoginLegacy, AccountsInv
<1>4. /\ DOMAIN o = {"pc", "old", "new", "salt", "hash", "tv"}
      /\ o.pc = "upgrade" /\ o.old = op[s].old /\ o.new = op[s].new /\ o.salt = op[s].salt
      /\ o.hash = row.hash /\ o.tv = row.tv
  BY <1>2
<1> HIDE DEF o
<1>5. Asked(o) /\ o.tv <= row.tv
  BY <1>1, <1>2, <1>4 DEF Asked, AccountsInv
<1>6. mishap = {} => o.old = o.new /\ o.hash = <<o.new[1], NoSalt>>
  <2> SUFFICES ASSUME mishap = {} PROVE o.old = o.new /\ o.hash = <<o.new[1], NoSalt>>
    OBVIOUS
  <2>1. op[s].old = <<p>> /\ p = secret
    BY <1>1, Verified DEF LoginLegacy
  <2>2. row.hash = <<secret, NoSalt>>
    BY DEF LoginLegacy, AccountsInv
  <2>3. <<p>>[1] = p
    OBVIOUS
  <2> QED
    BY <1>1, <1>4, <2>1, <2>2, <2>3
<1> QED
  BY <1>3, <1>5, <1>6, StepOnInv

LEMMA ReadRowInv == ASSUME AccountsInv, NEW s \in Sessions, ReadRow(s) PROVE AccountsInv'
<1> DEFINE o == [op[s] EXCEPT !.pc = IF @ = "change" THEN "setChange" ELSE "setReset", !.salt = row.salt]
<1>1. PICK p \in Passwords : op[s].new \in Sent(p)
  BY DEF ReadRow, AccountsInv, Asked
<1>2. DOMAIN op[s] = {"pc", "old", "new", "salt", "hash", "tv"} /\ op[s].tv \in Nat /\ op[s].tv <= row.tv
  BY DEF AccountsInv, Asked
<1>3. op' = [op EXCEPT ![s] = o] /\ UNCHANGED <<row, secret, saltsUsed, tokens, mishap>>
  BY DEF ReadRow, AccountsInv
<1>4. /\ DOMAIN o = {"pc", "old", "new", "salt", "hash", "tv"}
      /\ o.pc \in {"setChange", "setReset"} /\ o.new = op[s].new /\ o.salt = row.salt /\ o.tv = op[s].tv
  BY <1>2
<1> HIDE DEF o
<1>5. Asked(o) /\ o.tv <= row.tv /\ o.pc # "upgrade"
  BY <1>1, <1>2, <1>4 DEF Asked, AccountsInv
<1> QED
  BY <1>3, <1>5, StepOnInv

LEMMA UpgradeInv == ASSUME AccountsInv, NEW s \in Sessions, Upgrade(s) PROVE AccountsInv'
<1> DEFINE n == saltsUsed + 1
           o == op[s]
<1>1. PICK p \in Passwords : o.new = <<p>> /\ o.old \in Sent(p)
  BY DEF Upgrade, AccountsInv, Asked
<1>2. o.new[1] = p
  BY <1>1
<1>3. /\ saltsUsed' = n /\ row' = [row EXCEPT !.salt = n, !.hash = Append(o.old, n)]
      /\ mishap' = mishap \cup IF row.hash = o.hash THEN {} ELSE {"upgradeRace"}
      /\ tokens' = tokens \cup {[tv |-> o.tv, pw |-> p]}
      /\ secret' = secret /\ Done(s)
  BY <1>2 DEF Upgrade, Issue
<1>4. n \in Nat /\ o.tv \in Nat /\ o.tv <= row.tv /\ row.tv \in Nat
  BY DEF AccountsInv, Asked
<1>5. /\ row' = [hash |-> row'.hash, salt |-> row'.salt, tv |-> row'.tv]
      /\ row'.salt = n /\ row'.hash = Append(o.old, n) /\ row'.tv = row.tv
  BY <1>3 DEF AccountsInv
<1>6. \A t \in tokens' : t.tv \in Nat /\ t.tv <= row'.tv
  BY <1>3, <1>4, <1>5 DEF AccountsInv
<1>7. ASSUME mishap' = {}
      PROVE  row'.hash = <<secret', row'.salt>> /\ \A t \in tokens' : t.tv = row'.tv => t.pw = secret'
  <2>1. mishap = {} /\ row.hash = o.hash
    BY <1>3, <1>7
  <2>2. o.old = <<p>> /\ o.hash = <<p, NoSalt>> /\ row.hash = <<secret, row.salt>>
    BY <1>1, <1>2, <2>1 DEF Upgrade, AccountsInv
  <2>3. p = secret
    BY <2>1, <2>2, Hashing
  <2>4. row'.hash = <<secret', row'.salt>>
    BY <1>3, <1>5, <2>2, <2>3, Hashing
  <2> QED
    BY <1>3, <1>5, <2>1, <2>3, <2>4 DEF AccountsInv
<1>8. secret \in Passwords /\ mishap \subseteq mishap'
  BY <1>3 DEF AccountsInv
<1>9. row'.salt \in Nat /\ row'.tv \in Nat /\ row.tv <= row'.tv /\ saltsUsed' \in Nat
  BY <1>3, <1>4, <1>5
<1>10. Done(s) /\ secret' \in Passwords
  BY <1>3, <1>8
<1> HIDE DEF n, o
<1> QED
  BY <1>5, <1>6, <1>7, <1>8, <1>9, <1>10, DoneInv

\* The row after a new password.
LEMMA StoredInv ==
    ASSUME AccountsInv, NEW s \in Sessions, Done(s), NEW hash, NEW salt \in Nat, NEW p \in Passwords,
           Store(hash, salt, p), tokens' = tokens, saltsUsed' \in Nat, mishap \subseteq mishap',
           mishap' = {} => hash = <<p, salt>>
    PROVE  AccountsInv'
<1>1. row' = [hash |-> hash, salt |-> salt, tv |-> row.tv + 1] /\ secret' = p
  BY DEF Store
<1>2. row.tv \in Nat /\ row.tv + 1 \in Nat /\ row.tv < row.tv + 1
  BY DEF AccountsInv
<1>3. row'.hash = hash /\ row'.salt = salt /\ row'.tv = row.tv + 1
  BY <1>1
<1>4. \A t \in tokens' : t.tv \in Nat /\ t.tv <= row'.tv /\ t.tv # row'.tv
  BY <1>2, <1>3 DEF AccountsInv
<1>5. row' = [hash |-> row'.hash, salt |-> row'.salt, tv |-> row'.tv]
  BY <1>1, <1>3
<1> QED
  BY <1>1, <1>2, <1>3, <1>4, <1>5, DoneInv

LEMMA SetChangeInv == ASSUME AccountsInv, NEW s \in Sessions, SetChange(s) PROVE AccountsInv'
<1> DEFINE o == op[s]
<1>1. PICK p \in Passwords : o.new \in Sent(p)
  BY DEF SetChange, AccountsInv, Asked
<1>2. o.salt \in Nat /\ saltsUsed \in Nat
  BY DEF AccountsInv, Asked
<1>3. o.new[1] = p
  BY <1>1 DEF Sent
<1>4. CASE o.salt = NoSalt
  <2>1. /\ saltsUsed' = saltsUsed + 1
        /\ Store(Append(o.new, saltsUsed'), saltsUsed', p)
        /\ mishap' = mishap \cup IF Clear(o.new) THEN {} ELSE {"unsaltedChange"}
        /\ tokens' = tokens /\ Done(s)
    BY <1>3, <1>4 DEF SetChange
  <2>2. saltsUsed' \in Nat
    BY <1>2, <2>1
  <2>3. mishap' = {} => Append(o.new, saltsUsed') = <<p, saltsUsed'>>
    <3>1. CASE o.new = <<p>>
      <4>1. Append(<<p>>, saltsUsed') = <<p, saltsUsed'>>
        BY Hashing
      <4> QED
        BY <3>1, <4>1
    <3>2. ASSUME NEW t \in Nat, o.new = <<p, t>> PROVE mishap' # {}
      <4>1. ~Clear(<<p, t>>)
        BY Hashing
      <4>2. ~Clear(o.new)
        BY <3>2, <4>1
      <4> QED
        BY <2>1, <4>2
    <3> QED
      BY <1>1, <3>1, <3>2 DEF Sent
  <2> QED
    BY <2>1, <2>2, <2>3, StoredInv
<1>5. CASE o.salt # NoSalt
  <2> DEFINE hash == IF Clear(o.new) THEN Append(o.new, o.salt) ELSE o.new
  <2>1. /\ Store(hash, o.salt, p)
        /\ mishap' = mishap \cup IF Clear(o.new) \/ o.new[2] = o.salt THEN {} ELSE {"staleSalt"}
        /\ tokens' = tokens /\ Done(s) /\ saltsUsed' = saltsUsed
    BY <1>3, <1>5 DEF SetChange
  <2>2. mishap' = {} => hash = <<p, o.salt>>
    <3>1. CASE o.new = <<p>>
      <4>1. Clear(<<p>>) /\ Append(<<p>>, o.salt) = <<p, o.salt>>
        BY Hashing
      <4> QED
        BY <3>1, <4>1
    <3>2. ASSUME NEW t \in Nat, o.new = <<p, t>> PROVE mishap' = {} => hash = <<p, o.salt>>
      <4>1. ~Clear(<<p, t>>) /\ <<p, t>>[2] = t
        BY Hashing
      <4>2. ~Clear(o.new) /\ o.new[2] = t
        BY <3>2, <4>1
      <4> QED
        BY <2>1, <3>2, <4>2
    <3> QED
      BY <1>1, <3>1, <3>2 DEF Sent
  <2> HIDE DEF hash
  <2> QED
    BY <1>2, <2>1, <2>2, StoredInv
<1> QED
  BY <1>4, <1>5

LEMMA SetResetInv == ASSUME AccountsInv, NEW s \in Sessions, SetReset(s) PROVE AccountsInv'
<1> DEFINE o == op[s]
           hash == IF Clear(o.new) THEN Append(o.new, o.salt) ELSE o.new
<1>1. PICK p \in Passwords : o.new \in Sent(p)
  BY DEF SetReset, AccountsInv, Asked
<1>2. o.new[1] = p
  BY <1>1 DEF Sent
<1>3. /\ Store(hash, row.salt, p)
      /\ mishap' = mishap \cup IF hash[2] = row.salt THEN {} ELSE {"staleSalt"}
      /\ tokens' = tokens /\ Done(s) /\ saltsUsed' = saltsUsed
  BY <1>2 DEF SetReset
<1>4. \E t : hash = <<p, t>>
  <2>1. CASE o.new = <<p>>
    <3>1. Clear(<<p>>) /\ Append(<<p>>, o.salt) = <<p, o.salt>>
      BY Hashing
    <3> QED
      BY <2>1, <3>1
  <2>2. ASSUME NEW t \in Nat, o.new = <<p, t>> PROVE hash = <<p, t>>
    <3>1. ~Clear(<<p, t>>)
      BY Hashing
    <3> QED
      BY <2>2, <3>1
  <2> QED
    BY <1>1, <2>1, <2>2 DEF Sent
<1> HIDE DEF hash
<1>5. mishap' = {} => hash = <<p, row.salt>>
  <2> PICK t : hash = <<p, t>>
    BY <1>4
  <2>1. hash[2] = t
    OBVIOUS
  <2> QED
    BY <1>3, <2>1
<1>6. row.salt \in Nat /\ saltsUsed \in Nat
  BY DEF AccountsInv
<1> QED
  BY <1>3, <1>5, <1>6, StoredInv

\* Every statement of every request preserves it.
THEOREM AccountsNextInv == AccountsInv /\ [AccountsNext]_avars => AccountsInv'
<1> SUFFICES ASSUME AccountsInv, [AccountsNext]_avars PROVE AccountsInv'
  OBVIOUS
<1>1. CASE UNCHANGED avars
  BY <1>1 DEF avars, AccountsInv, Asked
<1>2. CASE Expire
  <2>1. tokens' \subseteq tokens /\ UNCHANGED <<row, secret, saltsUsed, op, mishap>>
    BY <1>2 DEF Expire
  <2> QED
    BY <2>1 DEF AccountsInv, Asked
<1>3. ASSUME NEW s \in Sessions, \/ SendLogin(s) \/ SendChange(s) \/ SendReset(s) \/ Deny(s)
                                 \/ Login(s) \/ LoginLegacy(s) \/ Upgrade(s)
                                 \/ ReadRow(s) \/ SetChange(s) \/ SetReset(s)
      PROVE  AccountsInv'
  BY <1>3, SendInv, DenyInv, LoginInv, LoginLegacyInv, UpgradeInv, ReadRowInv, SetChangeInv, SetResetInv
<1> QED
  BY <1>1, <1>2, <1>3 DEF AccountsNext

LEMMA InvRules == AccountsInv => PasswordRules
<1> SUFFICES ASSUME AccountsInv, mishap = {}
             PROVE  /\ \A p \in Passwords, c \in ClientKinds : Opens(p, c) <=> p = secret
                    /\ \A t \in tokens : t.tv = row.tv => t.pw = secret
  BY DEF PasswordRules
<1>1. row.hash = <<secret, row.salt>> /\ row.salt \in Nat
  BY DEF AccountsInv
<1>2. ASSUME NEW p \in Passwords, NEW c \in ClientKinds PROVE Opens(p, c) <=> p = secret
  <2> DEFINE x == IF c = "new" THEN <<p, row.salt>> ELSE <<p>>
  <2>1. x \in Sent(p)
    BY <1>1 DEF Sent
  <2>2. Opens(p, c) <=> VerifyPassword(row.hash, x, row.salt)
    BY DEF Opens
  <2>3. VerifyPassword(row.hash, x, row.salt) => p = secret
    BY <2>1, Verified
  <2>4. p = secret => VerifyPassword(row.hash, x, row.salt)
    BY <1>1, Hashing DEF VerifyPassword
  <2> QED
    BY <2>2, <2>3, <2>4
<1> QED
  BY <1>2 DEF AccountsInv

\* For any sessions and passwords: without a mishap the password set last, and
\* no other, opens the account, and a valid token was given for it.
THEOREM AccountsRules == AccountsSpec => []PasswordRules
  BY AccountsInitInv, AccountsNextInv, InvRules, PTL DEF AccountsSpec

-----------------------------------------------------------------------------
(* Recovery *)

LEMMA LastUsable == ASSUME RecoveryTypeOK, Usable # {} PROVE LastOf(Usable) \in Usable
<1>1. codes \in Nat /\ Usable \in SUBSET (0..codes)
  BY RecoveryAssumption DEF RecoveryTypeOK, Usable
<1>2. \E x \in Usable : \A y \in Usable : y <= x
  BY <1>1, LargestOf
<1> QED
  BY <1>2 DEF LastOf

LEMMA TriesMember == ASSUME NEW count
                     PROVE  \A z : z \in Tries(count) <=>
                                \E c \in (aged + 1)..codes : \E i \in 1..count[c] : z = <<c, i>>
  BY DEF Tries

LEMMA OneTry ==
    ASSUME RecoveryTypeOK, NEW count \in [Codes -> Nat], NEW c \in (aged + 1)..codes,
           IsFiniteSet(Tries(count))
    PROVE  LET more == [count EXCEPT ![c] = @ + 1]
           IN  IsFiniteSet(Tries(more)) /\ Failures(more) = Failures(count) + 1
<1> DEFINE more == [count EXCEPT ![c] = @ + 1]
           z == <<c, count[c] + 1>>
<1>1. codes \in Nat /\ aged \in Nat /\ (aged + 1)..codes \subseteq Codes /\ count[c] \in Nat
  BY RecoveryAssumption DEF RecoveryTypeOK, Codes
<1>2. \A d \in (aged + 1)..codes : more[d] = IF d = c THEN count[c] + 1 ELSE count[d]
  BY <1>1
<1>3. 1..(count[c] + 1) = (1..count[c]) \cup {count[c] + 1} /\ count[c] + 1 \notin 1..count[c]
  BY <1>1
<1> HIDE DEF more
<1>4. \A y : y \in Tries(more) <=> y \in Tries(count) \cup {z}
  BY <1>2, <1>3, TriesMember
<1>5. Tries(more) = Tries(count) \cup {z}
  BY <1>4
<1>6. z \notin Tries(count)
  BY <1>3, TriesMember
<1>7. IsFiniteSet(Tries(more)) /\ Failures(more) = Failures(count) + 1
  BY <1>5, <1>6, FS_AddElement DEF Failures
<1> QED
  BY <1>7 DEF more

\* Verifications that will count an attempt of the last ten minutes.
Counting == {v \in Verifiers : verifier[v].pc = "wrong" /\ verifier[v].code > aged}

GuessInv ==
    /\ RecoveryTypeOK
    /\ 1..aged \subseteq used
    /\ \A v \in Verifiers : verifier[v].pc # "free" => verifier[v].code # 0
    /\ \A c \in Codes : c > codes => attempts[c] = 0 /\ guessed[c] = 0
    /\ \A c \in Codes : guessed[c] = attempts[c] + Cardinality(Judging(c))
    /\ \A c \in Codes : guessed[c] < MaxAttempts + Cardinality(Verifiers)
    /\ IsFiniteSet(Tries(attempts)) /\ IsFiniteSet(Tries(guessed))
    /\ Failures(guessed) = Failures(attempts) + Cardinality(Counting)
    /\ Failures(guessed) < MaxFails + Cardinality(Verifiers)

LEMMA VerifierSets ==
    ASSUME NEW S \in SUBSET Verifiers
    PROVE  /\ IsFiniteSet(S) /\ Cardinality(S) \in Nat
           /\ Cardinality(Verifiers) \in Nat /\ Cardinality(S) <= Cardinality(Verifiers)
  BY RecoveryAssumption, FS_Subset, FS_CardinalityType

LEMMA NoTries ==
    ASSUME NEW count, \A c \in (aged + 1)..codes : count[c] = 0
    PROVE  IsFiniteSet(Tries(count)) /\ Failures(count) = 0
<1>1. Tries(count) = {}
  BY TriesMember
<1> QED
  BY <1>1, FS_EmptySet DEF Failures

\* At start there are no codes and no wrong guesses.
THEOREM RecoveryInitInv == RecoveryInit => GuessInv
<1> SUFFICES ASSUME RecoveryInit PROVE GuessInv
  OBVIOUS
<1>1. RecoveryTypeOK
  BY RecoveryAssumption DEF RecoveryInit, RecoveryTypeOK, Codes, NotVerifying
<1>2. Counting = {} /\ \A c \in Codes : Judging(c) = {}
  BY DEF Counting, Judging, RecoveryInit, NotVerifying
<1>3. (aged + 1)..codes = {}
  BY DEF RecoveryInit
<1>4. Failures(attempts) = 0 /\ Failures(guessed) = 0 /\ IsFiniteSet(Tries(attempts)) /\ IsFiniteSet(Tries(guessed))
  BY <1>3, NoTries
<1>5. Cardinality({}) = 0 /\ Cardinality(Verifiers) \in Nat
  BY FS_EmptySet, VerifierSets
<1>6. \A c \in Codes : attempts[c] = 0 /\ guessed[c] = 0
  BY DEF RecoveryInit
<1>7. 1..aged \subseteq used /\ \A v \in Verifiers : verifier[v].pc = "free"
  BY DEF RecoveryInit, NotVerifying
<1>8. \A c \in Codes : guessed[c] = attempts[c] + Cardinality(Judging(c)) /\ guessed[c] < MaxAttempts + Cardinality(Verifiers)
  BY <1>2, <1>5, <1>6, RecoveryAssumption
<1>9. /\ Failures(guessed) = Failures(attempts) + Cardinality(Counting)
      /\ Failures(guessed) < MaxFails + Cardinality(Verifiers)
  BY <1>2, <1>4, <1>5, RecoveryAssumption
<1> QED
  BY <1>1, <1>4, <1>6, <1>7, <1>8, <1>9 DEF GuessInv

LEMMA Steady ==
    ASSUME GuessInv, RecoveryTypeOK', UNCHANGED <<codes, attempts, guessed, aged>>, used \subseteq used',
           \A v \in Verifiers : verifier'[v].pc # "free" => verifier'[v].code # 0,
           Counting' = Counting, \A c \in Codes : Judging(c)' = Judging(c)
    PROVE  GuessInv'
<1>1. Tries(attempts)' = Tries(attempts) /\ Tries(guessed)' = Tries(guessed)
  BY DEF Tries
<1>2. Failures(attempts)' = Failures(attempts) /\ Failures(guessed)' = Failures(guessed)
  BY <1>1 DEF Failures
<1> QED
  BY <1>1, <1>2 DEF GuessInv

LEMMA MailInv ==
    ASSUME GuessInv, Cool \/ CodeExpires \/ \E m \in Mailers : AskCode(m) \/ Retire(m)
    PROVE  GuessInv'
<1>1. UNCHANGED <<codes, attempts, guessed, aged, verifier>>
  BY DEF Cool, CodeExpires, AskCode, Retire
<1>2. used \subseteq used' /\ used' \subseteq 1..codes
  BY DEF Cool, CodeExpires, AskCode, Retire, GuessInv, RecoveryTypeOK, Usable
<1>3. cooled' \in BOOLEAN /\ mailer' \in [Mailers -> {"free", "retire", "insert"}]
  BY DEF Cool, CodeExpires, AskCode, Retire, GuessInv, RecoveryTypeOK
<1>4. RecoveryTypeOK'
  BY <1>1, <1>2, <1>3 DEF GuessInv, RecoveryTypeOK
<1>5. Counting' = Counting /\ \A c \in Codes : Judging(c)' = Judging(c)
  BY <1>1 DEF Counting, Judging
<1>6. \A v \in Verifiers : verifier'[v].pc # "free" => verifier'[v].code # 0
  BY <1>1 DEF GuessInv
<1> QED
  BY <1>1, <1>2, <1>4, <1>5, <1>6, Steady

\* A code that was just inserted has been tried by nobody.
LEMMA InsertCodeInv == ASSUME GuessInv, NEW m \in Mailers, InsertCode(m) PROVE GuessInv'
<1>1. codes' = codes + 1 /\ UNCHANGED <<attempts, guessed, aged, used, verifier>> /\ cooled' = FALSE
      /\ mailer' = [mailer EXCEPT ![m] = "free"]
  BY DEF InsertCode
<1>2. codes \in Nat /\ codes + 1 \in 0..MaxCodes /\ aged \in Nat /\ aged <= codes
  BY RecoveryAssumption DEF InsertCode, GuessInv, RecoveryTypeOK
<1>3. RecoveryTypeOK'
  <2>1. aged \in 0..(codes + 1) /\ used \subseteq 1..(codes + 1)
    BY <1>2 DEF GuessInv, RecoveryTypeOK
  <2>2. verifier \in [Verifiers -> [pc : {"free", "wrong", "right"}, code : 0..(codes + 1)]]
    <3>1. 0..codes \subseteq 0..(codes + 1)
      BY <1>2
    <3> QED
      BY <3>1 DEF GuessInv, RecoveryTypeOK
  <2>3. mailer' \in [Mailers -> {"free", "retire", "insert"}]
    BY <1>1 DEF GuessInv, RecoveryTypeOK
  <2> QED
    BY <1>1, <1>2, <2>1, <2>2, <2>3 DEF GuessInv, RecoveryTypeOK
<1>4. Counting' = Counting /\ \A c \in Codes : Judging(c)' = Judging(c)
  BY <1>1 DEF Counting, Judging
<1>5. (aged + 1)..(codes + 1) = ((aged + 1)..codes) \cup {codes + 1}
  BY <1>2
<1>6. codes + 1 \in Codes /\ attempts[codes + 1] = 0 /\ guessed[codes + 1] = 0
  BY <1>2 DEF GuessInv, Codes
<1>7. ASSUME NEW count, count[codes + 1] = 0
      PROVE  UNION {{c} \X (1..count[c]) : c \in (aged + 1)..(codes + 1)} = Tries(count)
  BY <1>5, <1>7 DEF Tries
<1>8. Tries(attempts)' = Tries(attempts) /\ Tries(guessed)' = Tries(guessed)
  BY <1>1, <1>6, <1>7 DEF Tries
<1>9. Failures(attempts)' = Failures(attempts) /\ Failures(guessed)' = Failures(guessed)
  BY <1>8 DEF Failures
<1>10. \A c \in Codes : c > codes' => attempts'[c] = 0 /\ guessed'[c] = 0
  BY <1>1, <1>2 DEF GuessInv, Codes
<1> QED
  BY <1>1, <1>3, <1>4, <1>8, <1>9, <1>10 DEF GuessInv

\* Comparing a guess, which was right ...
LEMMA RightInv ==
    ASSUME GuessInv, NEW v \in Verifiers, NEW c \in Usable, verifier[v].pc = "free",
           verifier' = [verifier EXCEPT ![v] = [pc |-> "right", code |-> c]],
           UNCHANGED <<codes, used, attempts, guessed, aged, cooled, mailer>>
    PROVE  GuessInv'
<1>1. c \in 0..codes
  BY RecoveryAssumption DEF Usable, GuessInv, RecoveryTypeOK
<1>2. RecoveryTypeOK'
  BY <1>1 DEF GuessInv, RecoveryTypeOK
<1>3. Counting' = Counting /\ \A d \in Codes : Judging(d)' = Judging(d)
  BY DEF Counting, Judging, GuessInv, RecoveryTypeOK
<1>4. \A w \in Verifiers : verifier'[w].pc # "free" => verifier'[w].code # 0
  BY DEF GuessInv, RecoveryTypeOK, Usable
<1> QED
  BY <1>2, <1>3, <1>4, Steady

\* ... or wrong.
LEMMA WrongInv ==
    ASSUME GuessInv, NEW v \in Verifiers, NEW c \in Usable, verifier[v].pc = "free",
           attempts[c] < MaxAttempts, Failures(attempts) < MaxFails,
           verifier' = [verifier EXCEPT ![v] = [pc |-> "wrong", code |-> c]],
           guessed' = [guessed EXCEPT ![c] = @ + 1],
           UNCHANGED <<codes, used, attempts, aged, cooled, mailer>>
    PROVE  GuessInv'
<1>1. codes \in Nat /\ aged \in Nat /\ c \in 1..codes /\ codes <= MaxCodes
  BY RecoveryAssumption DEF Usable, GuessInv, RecoveryTypeOK
<1>2. c \in (aged + 1)..codes
  <2>1. c \notin 1..aged
    BY DEF GuessInv, Usable
  <2> QED
    BY <1>1, <2>1
<1>3. c \in 0..codes /\ c \in Codes
  BY <1>1, RecoveryAssumption DEF Codes
<1>4. guessed \in [Codes -> Nat] /\ attempts \in [Codes -> Nat]
  BY DEF GuessInv, RecoveryTypeOK
<1>5. RecoveryTypeOK'
  <2>1. guessed' \in [Codes -> Nat]
    BY <1>3, <1>4
  <2>2. verifier' \in [Verifiers -> [pc : {"free", "wrong", "right"}, code : 0..codes]]
    BY <1>3 DEF GuessInv, RecoveryTypeOK
  <2> QED
    BY <2>1, <2>2 DEF GuessInv, RecoveryTypeOK
<1>6. v \notin Counting /\ Counting' = Counting \cup {v}
  BY <1>1, <1>2 DEF Counting, GuessInv, RecoveryTypeOK
<1>7. \A d \in Codes : v \notin Judging(d) /\ Judging(d)' = IF d = c THEN Judging(d) \cup {v} ELSE Judging(d)
  BY DEF Judging, GuessInv, RecoveryTypeOK
<1>8. /\ Cardinality(Counting') = Cardinality(Counting) + 1 /\ Cardinality(Counting') <= Cardinality(Verifiers)
      /\ Cardinality(Counting) \in Nat /\ Cardinality(Verifiers) \in Nat
  <2>1. Counting \in SUBSET Verifiers /\ Counting' \in SUBSET Verifiers
    BY <1>6 DEF Counting
  <2> QED
    BY <1>6, <2>1, VerifierSets, FS_AddElement
<1>9. \A d \in Codes :
          /\ Cardinality(Judging(d)') = Cardinality(Judging(d)) + (IF d = c THEN 1 ELSE 0)
          /\ Cardinality(Judging(d)') <= Cardinality(Verifiers)
          /\ Cardinality(Judging(d)) \in Nat
  <2> TAKE d \in Codes
  <2>1. Judging(d) \in SUBSET Verifiers /\ Judging(d)' \in SUBSET Verifiers
    BY <1>7 DEF Judging
  <2> QED
    BY <1>7, <2>1, VerifierSets, FS_AddElement
<1>10. \A d \in Codes :
           /\ guessed'[d] = attempts'[d] + Cardinality(Judging(d)')
           /\ guessed'[d] < MaxAttempts + Cardinality(Verifiers)
  <2> TAKE d \in Codes
  <2>1. guessed[d] = attempts[d] + Cardinality(Judging(d)) /\ guessed[d] < MaxAttempts + Cardinality(Verifiers)
    BY DEF GuessInv
  <2>2. guessed'[d] = guessed[d] + (IF d = c THEN 1 ELSE 0) /\ attempts'[d] = attempts[d]
    BY <1>3, <1>4
  <2>3. attempts[d] \in Nat /\ guessed[d] \in Nat
    BY <1>4
  <2>4. guessed'[d] = attempts'[d] + Cardinality(Judging(d)')
    BY <1>9, <2>1, <2>2, <2>3
  <2>5. MaxAttempts \in Nat
    BY RecoveryAssumption
  <2>6. CASE d = c
    BY <1>8, <1>9, <2>2, <2>3, <2>4, <2>5, <2>6
  <2>7. CASE d # c
    BY <2>1, <2>2, <2>3, <2>4, <2>7
  <2> QED
    BY <2>4, <2>6, <2>7
<1>11. /\ Tries(attempts)' = Tries(attempts) /\ Failures(attempts)' = Failures(attempts)
       /\ Tries(guessed)' = Tries(guessed') /\ Failures(guessed)' = Failures(guessed')
  BY DEF Tries, Failures
<1>12. IsFiniteSet(Tries(guessed')) /\ Failures(guessed') = Failures(guessed) + 1
  BY <1>2, <1>4, OneTry DEF GuessInv
<1>13. Failures(attempts) \in Nat /\ MaxFails \in Nat
  BY RecoveryAssumption, FS_CardinalityType DEF GuessInv, Failures
<1>14. Failures(guessed)' = Failures(attempts)' + Cardinality(Counting')
  BY <1>8, <1>11, <1>12, <1>13 DEF GuessInv
<1>15. Failures(guessed)' < MaxFails + Cardinality(Verifiers)
  BY <1>8, <1>11, <1>13, <1>14
<1>16. \A d \in Codes : d > codes' => attempts'[d] = 0 /\ guessed'[d] = 0
  BY <1>1, <1>4 DEF GuessInv, Codes
<1>18. \A w \in Verifiers : verifier'[w].pc # "free" => verifier'[w].code # 0
  BY <1>1 DEF GuessInv, RecoveryTypeOK
<1>17. 1..aged' \subseteq used' /\ IsFiniteSet(Tries(attempts))' /\ IsFiniteSet(Tries(guessed))'
  BY <1>11, <1>12 DEF GuessInv
<1> QED
  BY <1>5, <1>10, <1>14, <1>15, <1>16, <1>17, <1>18 DEF GuessInv

LEMMA VerifyInv == ASSUME GuessInv, NEW v \in Verifiers, Verify(v) PROVE GuessInv'
<1>1. LastOf(Usable) \in Usable
  BY LastUsable DEF Verify, GuessInv
<1> QED
  BY <1>1, RightInv, WrongInv DEF Verify, Compare

LEMMA RedeemInv == ASSUME GuessInv, NEW v \in Verifiers, Redeem(v) PROVE GuessInv'
<1>1. /\ verifier' = [verifier EXCEPT ![v] = NotVerifying] /\ used' = used \cup {verifier[v].code}
      /\ verifier[v].pc = "right"
      /\ UNCHANGED <<codes, attempts, guessed, aged, cooled, mailer>>
  BY DEF Redeem
<1>2. \A w \in Verifiers : w # v => verifier'[w] = verifier[w]
  BY <1>1 DEF GuessInv, RecoveryTypeOK
<1>3. verifier'[v] = [pc |-> "free", code |-> 0]
  BY <1>1 DEF GuessInv, RecoveryTypeOK, NotVerifying
<1>4. Counting' = Counting /\ \A d \in Codes : Judging(d)' = Judging(d)
  BY <1>1, <1>2, <1>3 DEF Counting, Judging
<1>5. RecoveryTypeOK'
  <2>1. verifier' \in [Verifiers -> [pc : {"free", "wrong", "right"}, code : 0..codes]]
    <3>1. 0 \in 0..codes
      BY RecoveryAssumption DEF GuessInv, RecoveryTypeOK
    <3> QED
      BY <1>1, <3>1 DEF GuessInv, RecoveryTypeOK, NotVerifying
  <2>2. used' \subseteq 1..codes
    <3>1. verifier[v].code \in 1..codes
      BY <1>1, RecoveryAssumption DEF GuessInv, RecoveryTypeOK
    <3> QED
      BY <1>1, <3>1 DEF GuessInv, RecoveryTypeOK
  <2> QED
    BY <1>1, <2>1, <2>2 DEF GuessInv, RecoveryTypeOK
<1>6. used \subseteq used' /\ \A w \in Verifiers : verifier'[w].pc # "free" => verifier'[w].code # 0
  BY <1>1, <1>2, <1>3 DEF GuessInv
<1> QED
  BY <1>1, <1>4, <1>5, <1>6, Steady

LEMMA CountAttemptInv == ASSUME GuessInv, NEW v \in Verifiers, CountAttempt(v) PROVE GuessInv'
<1> DEFINE c == verifier[v].code
<1>1. /\ verifier' = [verifier EXCEPT ![v] = NotVerifying] /\ attempts' = [attempts EXCEPT ![c] = @ + 1]
      /\ verifier[v].pc = "wrong"
      /\ UNCHANGED <<codes, used, guessed, aged, cooled, mailer>>
  BY DEF CountAttempt
<1>2. codes \in Nat /\ aged \in Nat /\ codes <= MaxCodes /\ c \in 1..codes
  BY <1>1, RecoveryAssumption DEF GuessInv, RecoveryTypeOK
<1>3. c \in Codes
  BY <1>2, RecoveryAssumption DEF Codes
<1>4. guessed \in [Codes -> Nat] /\ attempts \in [Codes -> Nat] /\ attempts' \in [Codes -> Nat]
  BY <1>1, <1>3 DEF GuessInv, RecoveryTypeOK
<1>5. /\ \A w \in Verifiers : w # v => verifier'[w] = verifier[w]
      /\ verifier'[v] = [pc |-> "free", code |-> 0]
      /\ verifier[v] = [pc |-> "wrong", code |-> c]
  BY <1>1 DEF GuessInv, RecoveryTypeOK, NotVerifying
<1>6. RecoveryTypeOK'
  <2>1. verifier' \in [Verifiers -> [pc : {"free", "wrong", "right"}, code : 0..codes]]
    BY <1>1, <1>2 DEF GuessInv, RecoveryTypeOK, NotVerifying
  <2> QED
    BY <1>1, <1>4, <2>1 DEF GuessInv, RecoveryTypeOK
<1> HIDE DEF c
<1>7. \A d \in Codes :
          /\ d = c => v \in Judging(d) /\ Judging(d)' = Judging(d) \ {v}
          /\ d # c => Judging(d)' = Judging(d)
  BY <1>5 DEF Judging
<1>8. \A d \in Codes : guessed'[d] = attempts'[d] + Cardinality(Judging(d)')
  <2> TAKE d \in Codes
  <2>1. IsFiniteSet(Judging(d)) /\ Cardinality(Judging(d)) \in Nat
    BY VerifierSets, Judging(d) \in SUBSET Verifiers DEF Judging
  <2>2. guessed[d] = attempts[d] + Cardinality(Judging(d)) /\ attempts[d] \in Nat
    BY <1>4 DEF GuessInv
  <2>3. Cardinality(Judging(d)') = Cardinality(Judging(d)) - (IF d = c THEN 1 ELSE 0)
    <3>1. CASE d = c
      <4>1. Cardinality(Judging(d) \ {v}) = IF v \in Judging(d) THEN Cardinality(Judging(d)) - 1
                                            ELSE Cardinality(Judging(d))
        BY <2>1, FS_RemoveElement
      <4> QED
        BY <1>7, <2>1, <3>1, <4>1
    <3>2. CASE d # c
      <4>1. Judging(d)' = Judging(d)
        BY <1>7, <3>2
      <4> QED
        BY <2>1, <3>2, <4>1
    <3> QED
      BY <3>1, <3>2
  <2>4. attempts'[d] = attempts[d] + (IF d = c THEN 1 ELSE 0)
    BY <1>1, <1>4
  <2> QED
    BY <1>1, <2>1, <2>2, <2>3, <2>4
<1>9. Tries(guessed)' = Tries(guessed) /\ Failures(guessed)' = Failures(guessed)
  BY <1>1 DEF Tries, Failures
<1>10. Tries(attempts)' = Tries(attempts') /\ Failures(attempts)' = Failures(attempts')
  BY <1>1 DEF Tries, Failures
<1>11. /\ Failures(attempts) \in Nat /\ IsFiniteSet(Counting) /\ Cardinality(Counting) \in Nat
  BY FS_CardinalityType, VerifierSets, Counting \in SUBSET Verifiers DEF GuessInv, Failures, Counting
<1>12. CASE c > aged
  <2>1. c \in (aged + 1)..codes
    BY <1>2, <1>12
  <2>2. IsFiniteSet(Tries(attempts')) /\ Failures(attempts') = Failures(attempts) + 1
    BY <1>1, <1>4, <2>1, OneTry DEF GuessInv
  <2>3. v \in Counting /\ Counting' = Counting \ {v}
    BY <1>1, <1>5, <1>12 DEF Counting
  <2>4. Cardinality(Counting') = Cardinality(Counting) - 1
    BY <1>11, <2>3, FS_RemoveElement
  <2>5. Failures(guessed)' = Failures(attempts)' + Cardinality(Counting')
    BY <1>9, <1>10, <1>11, <2>2, <2>4 DEF GuessInv
  <2> QED
    BY <1>1, <1>2, <1>4, <1>5, <1>6, <1>8, <1>9, <1>10, <2>2, <2>5 DEF GuessInv
<1>13. CASE c <= aged
  <2>1. \A d \in (aged + 1)..codes : attempts'[d] = attempts[d]
    BY <1>1, <1>2, <1>13, <1>4
  <2>2. Tries(attempts') = Tries(attempts)
    BY <2>1 DEF Tries
  <2>3. Failures(attempts') = Failures(attempts)
    BY <2>2 DEF Failures
  <2>4. Counting' = Counting
    BY <1>1, <1>2, <1>5, <1>13 DEF Counting
  <2> QED
    BY <1>1, <1>2, <1>4, <1>5, <1>6, <1>8, <1>9, <1>10, <2>2, <2>3, <2>4 DEF GuessInv
<1> QED
  BY <1>2, <1>12, <1>13

\* The attempts of a code leave the sum with it.
LEMMA Forgotten ==
    ASSUME RecoveryTypeOK, AgeCode, NEW count \in [Codes -> Nat], IsFiniteSet(Tries(count))
    PROVE  LET kept == UNION {{c} \X (1..count[c]) : c \in (aged' + 1)..codes'}
           IN  IsFiniteSet(kept) /\ Cardinality(kept) = Failures(count) - count[aged + 1]
<1> DEFINE a == aged + 1
           old == {a} \X (1..count[a])
           kept == UNION {{c} \X (1..count[c]) : c \in (aged' + 1)..codes'}
<1>1. codes \in Nat /\ aged \in Nat /\ aged < codes /\ codes <= MaxCodes /\ aged' = a /\ codes' = codes
  BY RecoveryAssumption DEF RecoveryTypeOK, AgeCode
<1>2. a \in Codes /\ count[a] \in Nat
  BY <1>1, RecoveryAssumption DEF Codes
<1>3. (aged + 1)..codes = {a} \cup ((a + 1)..codes) /\ a \notin (a + 1)..codes
  BY <1>1
<1>4. kept = Tries(count) \ old
  BY <1>1, <1>3 DEF Tries
<1>5. old \subseteq Tries(count)
  BY <1>3 DEF Tries
<1>6. Cardinality(old) = count[a]
  <2>1. IsFiniteSet({a}) /\ Cardinality({a}) = 1
    BY FS_Singleton
  <2>2. IsFiniteSet(1..count[a]) /\ Cardinality(1..count[a]) = count[a]
    BY <1>2, FS_Interval
  <2>3. Cardinality(old) = 1 * count[a]
    <3>1. Cardinality(old) = Cardinality({a}) * Cardinality(1..count[a])
      BY <2>1, <2>2, FS_Product, Zenon DEF old
    <3> QED
      BY <2>1, <2>2, <3>1
  <2> QED
    BY <1>2, <2>3
<1>7. Tries(count) \cap old = old
  BY <1>5
<1> HIDE DEF kept, old
<1>8. IsFiniteSet(kept) /\ Cardinality(kept) = Cardinality(Tries(count)) - Cardinality(old)
  <2>1. /\ IsFiniteSet(Tries(count) \ old)
        /\ Cardinality(Tries(count) \ old)
              = Cardinality(Tries(count)) - Cardinality(Tries(count) \cap old)
    BY FS_Difference
  <2> QED
    BY <1>4, <1>7, <2>1
<1>9. Cardinality(kept) = Failures(count) - count[a]
  BY <1>6, <1>8 DEF Failures
<1> QED
  BY <1>8, <1>9, Zenon DEF kept

LEMMA AgeCodeInv == ASSUME GuessInv, AgeCode PROVE GuessInv'
<1> DEFINE a == aged + 1
<1>1. aged' = a /\ a \in used /\ UNCHANGED <<codes, used, attempts, guessed, cooled, mailer, verifier>>
  BY DEF AgeCode
<1>2. codes \in Nat /\ aged \in Nat /\ aged < codes /\ codes <= MaxCodes
  BY RecoveryAssumption DEF GuessInv, RecoveryTypeOK, AgeCode
<1>3. a \in Codes /\ a \in 0..codes
  BY <1>2, RecoveryAssumption DEF Codes
<1>4. guessed \in [Codes -> Nat] /\ attempts \in [Codes -> Nat]
  BY DEF GuessInv, RecoveryTypeOK
<1>5. IsFiniteSet(Tries(guessed)') /\ Failures(guessed)' = Failures(guessed) - guessed[a]
  <2> DEFINE kept == UNION {{c} \X (1..guessed[c]) : c \in (aged' + 1)..codes'}
  <2>1. Tries(guessed)' = kept
    BY <1>1 DEF Tries
  <2>2. RecoveryTypeOK /\ IsFiniteSet(Tries(guessed))
    BY DEF GuessInv
  <2>3. IsFiniteSet(kept) /\ Cardinality(kept) = Failures(guessed) - guessed[aged + 1]
    BY <1>4, <2>2, Forgotten
  <2> HIDE DEF kept
  <2> QED
    BY <2>1, <2>3 DEF Failures
<1>6. IsFiniteSet(Tries(attempts)') /\ Failures(attempts)' = Failures(attempts) - attempts[a]
  <2> DEFINE kept == UNION {{c} \X (1..attempts[c]) : c \in (aged' + 1)..codes'}
  <2>1. Tries(attempts)' = kept
    BY <1>1 DEF Tries
  <2>2. RecoveryTypeOK /\ IsFiniteSet(Tries(attempts))
    BY DEF GuessInv
  <2>3. IsFiniteSet(kept) /\ Cardinality(kept) = Failures(attempts) - attempts[aged + 1]
    BY <1>4, <2>2, Forgotten
  <2> HIDE DEF kept
  <2> QED
    BY <2>1, <2>3 DEF Failures
<1>7. Counting' = Counting \ Judging(a) /\ Counting \cap Judging(a) = Judging(a)
  <2>1. \A w \in Verifiers : verifier[w].code \in Nat /\ (w \in Judging(a) <=> verifier[w].pc = "wrong" /\ verifier[w].code = a)
    BY <1>2 DEF Judging, GuessInv, RecoveryTypeOK
  <2>2. Judging(a) \subseteq Verifiers
    BY DEF Judging
  <2> QED
    BY <1>1, <1>2, <2>1, <2>2 DEF Counting
<1>8. IsFiniteSet(Counting) /\ Cardinality(Counting) \in Nat /\ Cardinality(Judging(a)) \in Nat
  BY VerifierSets, Counting \in SUBSET Verifiers, Judging(a) \in SUBSET Verifiers DEF Counting, Judging
<1>9. Cardinality(Counting') = Cardinality(Counting) - Cardinality(Judging(a))
  <2>1. Cardinality(Counting \ Judging(a)) = Cardinality(Counting) - Cardinality(Counting \cap Judging(a))
    BY <1>8, FS_Difference
  <2> QED
    BY <1>7, <2>1
<1>10. guessed[a] = attempts[a] + Cardinality(Judging(a)) /\ guessed[a] \in Nat /\ attempts[a] \in Nat
  BY <1>3, <1>4 DEF GuessInv
<1>11. Failures(guessed) = Failures(attempts) + Cardinality(Counting) /\ Failures(guessed) < MaxFails + Cardinality(Verifiers)
  BY DEF GuessInv
<1>12. Failures(attempts) \in Nat /\ Cardinality(Verifiers) \in Nat /\ MaxFails \in Nat
  BY RecoveryAssumption, FS_CardinalityType, VerifierSets DEF GuessInv, Failures
<1>13. /\ Failures(guessed)' = Failures(attempts)' + Cardinality(Counting')
       /\ Failures(guessed)' < MaxFails + Cardinality(Verifiers)
  BY <1>5, <1>6, <1>8, <1>9, <1>10, <1>11, <1>12
<1>14. RecoveryTypeOK'
  BY <1>1, <1>3 DEF GuessInv, RecoveryTypeOK
<1>15. \A d \in Codes : Judging(d)' = Judging(d)
  BY <1>1 DEF Judging
<1>16. 1..aged' \subseteq used'
  <2>1. 1..a = (1..aged) \cup {a}
    BY <1>2
  <2> QED
    BY <1>1, <2>1 DEF GuessInv
<1> QED
  BY <1>1, <1>5, <1>6, <1>13, <1>14, <1>15, <1>16 DEF GuessInv

\* Mail, verification, redemption, counting and ageing preserve it.
THEOREM RecoveryNextInv == GuessInv /\ [RecoveryNext]_fvars => GuessInv'
<1> SUFFICES ASSUME GuessInv, [RecoveryNext]_fvars PROVE GuessInv'
  OBVIOUS
<1>1. CASE UNCHANGED fvars
  <2>1. Counting' = Counting /\ \A c \in Codes : Judging(c)' = Judging(c)
    BY <1>1 DEF fvars, Counting, Judging
  <2>2. RecoveryTypeOK'
    BY <1>1 DEF fvars, GuessInv, RecoveryTypeOK
  <2>3. \A v \in Verifiers : verifier'[v].pc # "free" => verifier'[v].code # 0
    BY <1>1 DEF fvars, GuessInv
  <2> QED
    BY <1>1, <2>1, <2>2, <2>3, Steady DEF fvars
<1>2. CASE RecoveryNext
  BY <1>2, MailInv, InsertCodeInv, AgeCodeInv, VerifyInv, CountAttemptInv, RedeemInv DEF RecoveryNext
<1> QED
  BY <1>1, <1>2

\* For any number of mailers, verifiers and codes: GuessesBounded.
THEOREM RecoveryBounded == RecoverySpec => []GuessesBounded
<1>1. GuessInv => GuessesBounded
  BY DEF GuessInv, GuessesBounded
<1> QED
  BY <1>1, RecoveryInitInv, RecoveryNextInv, PTL DEF RecoverySpec

-----------------------------------------------------------------------------
(* ProjectRows *)

Ports == PortRange \cup {NoPort}
Creation == [kind : {"create"}, p : Projects, port : Ports, auto : BOOLEAN, seen : SUBSET Ports,
             n : 1..MaxRequests]
Deletion == [kind : {"delete"}, p : Projects, n : 1..MaxRequests]
RowEdit == [kind : {"update", "tabs", "features", "pin", "clone"}, p : Projects,
            named : SUBSET KeptColumns, auto : BOOLEAN, seen : RowRecord, n : 1..MaxRequests]
ListEdit == [kind : {"add", "remove"}, p : Projects, u : Members, seen : SUBSET Projects,
             n : 1..MaxRequests]

\* What a request in flight remembers: a creation a port no row had, an edit a
\* row that is no deeper in JSON strings than there were requests before it.
Remembers(r, upTo, sharing) ==
    \/ r \in {None, Failed}
    \/ /\ r \in Creation \cup Deletion \cup RowEdit \cup ListEdit /\ r.n <= upTo
       /\ r \in RowEdit => r.seen.wraps < r.n
       /\ r \in RowEdit /\ "port" \in r.named => sharing
       /\ r \in Creation => sharing \/ r.port = NoPort \/ r.port \notin r.seen

\* The table: at most as many strings around a row's tags as requests were made.
TableInv ==
    /\ Existing \subseteq Projects
    /\ \A p \in Existing : rows[p] \in RowRecord /\ rows[p].wraps <= asked
    /\ PortsDistinct

RowsInv ==
    /\ TableInv
    /\ access \in [Members -> SUBSET Projects]
    /\ asked \in Marks /\ excused \in BOOLEAN
    /\ DOMAIN request = Slots /\ \A s \in Slots : Remembers(request[s], asked, excused)

\* At start no row exists and no request runs.
THEOREM RowsInitInv == RowsInit => RowsInv
<1> SUFFICES ASSUME RowsInit PROVE RowsInv
  OBVIOUS
<1>1. Existing = {}
  BY DEF RowsInit, Existing
<1>2. PortsDistinct
  BY <1>1 DEF PortsDistinct, PortsShared
<1>3. access \in [Members -> SUBSET Projects] /\ excused \in BOOLEAN
  BY DEF RowsInit
<1>5. asked \in Marks
  BY RowsAssumption DEF RowsInit, Marks
<1>4. DOMAIN request = Slots /\ \A s \in Slots : Remembers(request[s], asked, excused)
  BY DEF RowsInit, Remembers
<1> QED
  BY <1>1, <1>2, <1>3, <1>4, <1>5 DEF RowsInv, TableInv

\* Allocate gives the port of the row, or one no other row has, or none.
LEMMA AllocatedPort ==
    ASSUME NEW p \in Projects, NEW found \in SUBSET Existing, NEW bound \in SUBSET PortRange
    PROVE  /\ Allocated(p, found, bound) \in Ports
           /\ found = Existing =>
                \/ Allocated(p, found, bound) = NoPort \/ Allocated(p, found, bound) \notin TakenBy(p)
                \/ Present(p) /\ Allocated(p, found, bound) = rows[p].port
<1> DEFINE free == FreePorts(p, found, bound)
<1>1. free \in SUBSET PortRange
  BY DEF FreePorts
<1>2. CASE free # {}
  <2>1. (CHOOSE x \in free : \A y \in free : x <= y) \in free
    BY <1>1, <1>2, RowsAssumption, LeastOf
  <2> QED
    BY <2>1 DEF Allocated, Ports, FreePorts, TakenBy, Present
<1> QED
  BY <1>2 DEF Allocated, Ports, Present

Later == asked \in Marks /\ asked' \in Marks /\ asked <= asked' /\ excused' \in BOOLEAN /\ (excused => excused')

LEMMA StillRemembers ==
    ASSUME Later, NEW r, Remembers(r, asked, excused)
    PROVE  Remembers(r, asked', excused')
<1>1. CASE r \in {None, Failed}
  BY <1>1 DEF Remembers
<1>2. CASE r \notin {None, Failed}
  <2>1. r \in Creation \cup Deletion \cup RowEdit \cup ListEdit /\ r.n <= asked
    BY <1>2 DEF Remembers
  <2>2. r.n \in Nat
    BY <2>1 DEF Creation, Deletion, RowEdit, ListEdit
  <2>3. r.n <= asked'
    BY <2>1, <2>2 DEF Later, Marks
  <2> QED
    BY <1>2, <2>1, <2>3 DEF Remembers, Later
<1> QED
  BY <1>1, <1>2

\* What a change of one row must be for the table to stay as it should.
LEMMA ChangeInv ==
    ASSUME TableInv, Later, NEW p, NEW columns, rows' = Change(p, columns),
           Present(p) =>
               /\ Overlaid(rows[p], columns) \in RowRecord
               /\ Overlaid(rows[p], columns).wraps <= asked'
               /\ \/ excused' \/ Overlaid(rows[p], columns).port \in {NoPort, rows[p].port}
                  \/ Overlaid(rows[p], columns).port \notin TakenBy(p)
    PROVE  TableInv'
<1>1. CASE ~Present(p)
  <2>1. rows' = rows
    BY <1>1 DEF Change
  <2>2. \A q \in Existing : rows[q].wraps \in Nat /\ rows[q].wraps <= asked
    BY DEF TableInv, RowRecord, Marks
  <2>3. \A q \in Existing : rows[q].wraps <= asked'
    BY <2>2 DEF Later, Marks
  <2> QED
    BY <2>1, <2>3 DEF TableInv, Existing, PortsDistinct, PortsShared, Later
<1>2. CASE Present(p)
  <2> DEFINE new == Overlaid(rows[p], columns)
  <2>1. rows' = [rows EXCEPT ![p] = new] /\ p \in Existing
    BY <1>2 DEF Change, Present
  <2>2. new \in RowRecord /\ new.wraps <= asked'
        /\ (excused' \/ new.port \in {NoPort, rows[p].port} \/ new.port \notin TakenBy(p))
    BY <1>2
  <2> HIDE DEF new
  <2>3. Existing' = Existing
    BY <2>1 DEF Existing
  <2>4. \A q \in Existing : rows[q].wraps \in Nat /\ rows[q].wraps <= asked
    BY DEF TableInv, RowRecord, Marks
  <2>5. \A q \in Existing : rows[q].wraps <= asked'
    BY <2>4 DEF Later, Marks
  <2>6. \A q \in Existing : rows'[q] \in RowRecord /\ rows'[q].wraps <= asked'
    BY <2>1, <2>2, <2>5 DEF TableInv, Existing
  <2>7. \A q \in Existing : q # p => rows'[q].port = rows[q].port
    BY <2>1 DEF Existing
  <2>8. rows'[p].port = new.port
    BY <2>1 DEF Existing
  <2>9. PortsDistinct'
    BY <2>1, <2>2, <2>3, <2>7, <2>8 DEF TableInv, PortsDistinct, PortsShared, Later, TakenBy
  <2> QED
    BY <2>3, <2>6, <2>9 DEF TableInv
<1> QED
  BY <1>1, <1>2

LEMMA InsertInv ==
    ASSUME TableInv, Later, NEW p \in Projects, NEW r \in RowRecord, rows' = Insert(p, r), r.wraps <= asked',
           excused' \/ r.port = NoPort \/ r.port \notin TakenBy(p)
    PROVE  TableInv'
<1>1. Existing' = Existing \cup {p} /\ \A q \in Existing' : rows'[q] = IF Present(q) THEN rows[q] ELSE r
  BY DEF Insert, Existing
<1>2. \A q \in Existing : rows[q].wraps \in Nat /\ rows[q].wraps <= asked
  BY DEF TableInv, RowRecord, Marks
<1>3. \A q \in Existing : rows[q].wraps <= asked'
  BY <1>2 DEF Later, Marks
<1>4. \A q \in Existing' : rows'[q] \in RowRecord /\ rows'[q].wraps <= asked'
  BY <1>1, <1>3 DEF TableInv, Present
<1>5. PortsDistinct'
  BY <1>1 DEF TableInv, PortsDistinct, PortsShared, Later, TakenBy, Present
<1> QED
  BY <1>1, <1>4, <1>5 DEF TableInv

LEMMA BeginInv ==
    ASSUME RowsInv, NEW s \in Slots, NEW r, Begin(s, r), Remembers(r, asked + 1, excused'),
           excused' \in BOOLEAN, excused => excused', Later => TableInv',
           access' \in [Members -> SUBSET Projects]
    PROVE  RowsInv'
<1>1. asked' = asked + 1 /\ request' = [request EXCEPT ![s] = r]
  BY DEF Begin
<1>2. asked' \in Marks
  BY RowsAssumption DEF Begin, RowsInv, Marks
<1>3. Later
  BY <1>1, <1>2 DEF Later, RowsInv, Marks
<1>4. \A q \in Slots : Remembers(request'[q], asked', excused')
  BY <1>1, <1>3, StillRemembers DEF RowsInv
<1> QED
  BY <1>1, <1>2, <1>3, <1>4 DEF RowsInv

LEMMA FinishInv ==
    ASSUME RowsInv, NEW s \in Slots, Finish(s),
           excused' \in BOOLEAN, excused => excused', Later => TableInv',
           access' \in [Members -> SUBSET Projects]
    PROVE  RowsInv'
<1>1. asked' = asked /\ request' = [request EXCEPT ![s] = None]
  BY DEF Finish
<1>2. Later
  BY <1>1 DEF Later, RowsInv, Marks
<1>3. \A q \in Slots : Remembers(request'[q], asked', excused')
  BY <1>1, <1>2, StillRemembers DEF RowsInv, Remembers
<1> QED
  BY <1>1, <1>2, <1>3 DEF RowsInv

LEMMA AtOnceInv ==
    ASSUME RowsInv, NEW s \in Slots, AtOnce(s),
           excused' \in BOOLEAN, excused => excused', Later => TableInv',
           access' \in [Members -> SUBSET Projects]
    PROVE  RowsInv'
<1>1. asked' = asked + 1 /\ request' = request
  BY DEF AtOnce
<1>2. asked' \in Marks
  BY RowsAssumption DEF AtOnce, RowsInv, Marks
<1>3. Later
  BY <1>1, <1>2 DEF Later, RowsInv, Marks
<1>4. \A q \in Slots : Remembers(request'[q], asked', excused')
  BY <1>1, <1>3, StillRemembers DEF RowsInv
<1> QED
  BY <1>1, <1>2, <1>3, <1>4 DEF RowsInv

\* The table is left as it is.
LEMMA SameTable == ASSUME TableInv, Later, rows' = rows PROVE TableInv'
<1>1. \A q \in Existing : rows[q].wraps \in Nat /\ rows[q].wraps <= asked
  BY DEF TableInv, RowRecord, Marks
<1>2. \A q \in Existing : rows[q].wraps <= asked'
  BY <1>1 DEF Later, Marks
<1> QED
  BY <1>2 DEF TableInv, Existing, PortsDistinct, PortsShared, Later

\* A port is written: the row's own, none, or one that no other row has, unless
\* a query failed.
LEMMA WritePortInv ==
    ASSUME TableInv, Later, NEW p \in Projects, NEW found \in SUBSET Existing, NEW bound \in SUBSET PortRange,
           found = Existing \/ excused',
           rows' \in {rows, WritePort(p, Allocated(p, found, bound)), Change(p, [port |-> NoPort])}
    PROVE  TableInv'
<1> DEFINE port == Allocated(p, found, bound)
<1>1. CASE rows' = rows
  BY <1>1, SameTable
<1>2. ASSUME NEW x \in Ports, rows' = Change(p, [port |-> x]),
             excused' \/ x = NoPort \/ x \notin TakenBy(p) \/ (Present(p) /\ x = rows[p].port)
      PROVE  TableInv'
  <2> DEFINE new == Overlaid(rows[p], [port |-> x])
  <2>1. ASSUME Present(p)
        PROVE  new \in RowRecord /\ new.wraps = rows[p].wraps /\ new.port = x
    BY <2>1 DEF TableInv, Present, RowRecord, Overlaid, Ports
  <2>2. Present(p) => rows[p].wraps <= asked'
    <3>1. Present(p) => rows[p].wraps \in Nat /\ rows[p].wraps <= asked
      BY DEF TableInv, Present, RowRecord, Marks
    <3> QED
      BY <3>1 DEF Later, Marks
  <2> QED
    BY <1>2, <2>1, <2>2, ChangeInv
<1>3. port \in Ports /\ (excused' \/ port = NoPort \/ port \notin TakenBy(p) \/ (Present(p) /\ port = rows[p].port))
  BY AllocatedPort
<1>4. CASE rows' = WritePort(p, port)
  BY <1>1, <1>2, <1>3, <1>4 DEF WritePort
<1>5. CASE rows' = Change(p, [port |-> NoPort])
  BY <1>2, <1>5 DEF Ports
<1> QED
  BY <1>1, <1>4, <1>5

LEMMA AskCreateInv == ASSUME RowsInv, NEW s \in Slots, NEW p \in Projects, AskCreate(s, p) PROVE RowsInv'
<1> PICK typed \in PortRange \cup {NoPort}, auto \in BOOLEAN,
         found \in SUBSET Existing, bound \in SUBSET PortRange :
       LET port == IF typed = NoPort THEN Allocated(p, found, bound) ELSE typed
       IN  /\ Begin(s, [kind |-> "create", p |-> p, port |-> port, auto |-> auto,
                      seen |-> TakenBy(p), n |-> asked + 1])
           /\ rows' \in {rows} \cup (IF typed = NoPort THEN {WritePort(p, port)} ELSE {})
           /\ excused' = (excused \/ typed # NoPort \/ found # Existing)
           /\ UNCHANGED access
  BY DEF AskCreate
<1> DEFINE port == IF typed = NoPort THEN Allocated(p, found, bound) ELSE typed
           r == [kind |-> "create", p |-> p, port |-> port, auto |-> auto,
                 seen |-> TakenBy(p), n |-> asked + 1]
<1>1. asked + 1 \in 1..MaxRequests
  BY RowsAssumption DEF Begin, RowsInv, Marks
<1>2. TakenBy(p) \subseteq Ports
  BY DEF TakenBy, RowsInv, TableInv, RowRecord, Ports
<1>3. port \in Ports
  BY AllocatedPort DEF Ports
<1>4. excused' \/ port = NoPort \/ port \notin TakenBy(p)
  <2>1. CASE typed # NoPort \/ found # Existing
    BY <2>1
  <2>2. CASE typed = NoPort /\ Present(p) /\ port = rows[p].port
    BY <2>2 DEF RowsInv, TableInv, PortsDistinct, PortsShared, TakenBy, Present
  <2>3. CASE typed = NoPort /\ (port = NoPort \/ port \notin TakenBy(p))
    BY <2>3
  <2> QED
    BY <2>1, <2>2, <2>3, AllocatedPort
<1>5. r \in Creation /\ r.n = asked + 1 /\ r.port = port /\ r.seen = TakenBy(p) /\ r \notin RowEdit
  BY <1>1, <1>2, <1>3 DEF Creation, RowEdit
<1>6. Begin(s, r) /\ rows' \in {rows, WritePort(p, Allocated(p, found, bound))}
  OBVIOUS
<1>7. excused' \in BOOLEAN /\ (excused => excused') /\ access' = access /\ (found = Existing \/ excused')
  BY DEF RowsInv
<1> HIDE DEF r, port
<1>8. Remembers(r, asked + 1, excused')
  <2>1. r.n <= asked + 1
    BY <1>5 DEF RowsInv, Marks
  <2> QED
    BY <1>4, <1>5, <2>1 DEF Remembers
<1>9. Later => TableInv'
  BY <1>6, <1>7, WritePortInv DEF RowsInv
<1> QED
  BY <1>6, <1>7, <1>8, <1>9, BeginInv DEF RowsInv

LEMMA InsertRowInv == ASSUME RowsInv, NEW s \in Slots, InsertRow(s) PROVE RowsInv'
<1> DEFINE r == request[s]
           new == NewRow(r.n, r.port, r.auto)
<1>1. r \in Creation /\ r.n <= asked /\ (excused \/ r.port = NoPort \/ r.port \notin r.seen)
  BY DEF InsertRow, Doing, Free, RowsInv, Remembers, Creation, Deletion, RowEdit, ListEdit
<1>2. new \in RowRecord /\ new.port = r.port /\ new.wraps = 0
  BY <1>1, RowsAssumption DEF NewRow, RowRecord, Creation, Marks, Ports
<1>3. rows' = Insert(r.p, new) /\ excused' = (excused \/ TakenBy(r.p) # r.seen)
      /\ Finish(s) /\ UNCHANGED access
  BY DEF InsertRow
<1>4. r.p \in Projects
  BY <1>1 DEF Creation
<1> HIDE DEF new
<1>5. Later => TableInv'
  <2> SUFFICES ASSUME Later PROVE TableInv'
    OBVIOUS
  <2>1. new.wraps <= asked'
    BY <1>2 DEF Later, Marks
  <2>2. excused' \/ new.port = NoPort \/ new.port \notin TakenBy(r.p)
    BY <1>1, <1>2, <1>3
  <2> QED
    BY <1>2, <1>3, <1>4, <2>1, <2>2, InsertInv DEF RowsInv
<1> QED
  BY <1>3, <1>5, FinishInv DEF RowsInv

LEMMA AllocateRouteInv == ASSUME RowsInv, NEW s \in Slots, NEW p \in Projects, AllocateRoute(s, p) PROVE RowsInv'
<1>1. PICK found \in SUBSET Existing, bound \in SUBSET PortRange :
        /\ rows' \in {rows, WritePort(p, Allocated(p, found, bound))}
        /\ excused' = (excused \/ found # Existing)
  BY DEF AllocateRoute
<1>2. excused' \in BOOLEAN /\ (excused => excused') /\ (found = Existing \/ excused')
  BY <1>1 DEF RowsInv
<1>3. Later => TableInv'
  BY <1>1, <1>2, WritePortInv DEF RowsInv
<1> QED
  BY <1>2, <1>3, AtOnceInv DEF AllocateRoute, RowsInv

LEMMA AskDeleteInv == ASSUME RowsInv, NEW s \in Slots, NEW p \in Projects, AskDelete(s, p) PROVE RowsInv'
<1> DEFINE r == [kind |-> "delete", p |-> p, n |-> asked + 1]
<1>1. Begin(s, r) /\ rows' \in {rows, Change(p, [port |-> NoPort])} /\ UNCHANGED <<access, excused>>
  BY DEF AskDelete
<1>2. asked + 1 \in 1..MaxRequests
  BY RowsAssumption DEF AskDelete, Begin, RowsInv, Marks
<1>3. r \in Deletion /\ r \notin RowEdit /\ r \notin Creation /\ r.n = asked + 1
  BY <1>2 DEF Deletion, RowEdit, Creation
<1> HIDE DEF r
<1>4. Remembers(r, asked + 1, excused')
  <2>1. r.n <= asked + 1
    BY <1>3 DEF RowsInv, Marks
  <2> QED
    BY <1>3, <2>1 DEF Remembers
<1>5. Later => TableInv'
  BY <1>1, WritePortInv, {} \in SUBSET PortRange, Existing \in SUBSET Existing DEF RowsInv
<1> QED
  BY <1>1, <1>4, <1>5, BeginInv DEF RowsInv

LEMMA DeleteRowInv == ASSUME RowsInv, NEW s \in Slots, DeleteRow(s) PROVE RowsInv'
<1>1. ASSUME Later, NEW p, rows' = [q \in Existing \ {p} |-> rows[q]]
      PROVE  TableInv'
  <2>1. Existing' = Existing \ {p} /\ \A q \in Existing' : rows'[q] = rows[q]
    BY <1>1 DEF Existing
  <2>2. \A q \in Existing : rows[q].wraps \in Nat /\ rows[q].wraps <= asked
    BY DEF RowsInv, TableInv, RowRecord, Marks
  <2>3. \A q \in Existing : rows[q].wraps <= asked'
    BY <2>2, <1>1 DEF Later, Marks
  <2>4. PortsDistinct'
    BY <1>1, <2>1 DEF RowsInv, TableInv, PortsDistinct, PortsShared, Later
  <2> QED
    BY <2>1, <2>3, <2>4 DEF TableInv, RowsInv
<1>2. Later => TableInv'
  BY <1>1, SameTable DEF DeleteRow, RowsInv
<1> QED
  BY <1>2, FinishInv DEF DeleteRow, RowsInv

EditKinds == {"update", "tabs", "features", "pin", "clone"}

LEMMA AskEditInv ==
    ASSUME RowsInv, NEW s \in Slots, NEW p \in Projects, NEW kind \in EditKinds, AskEdit(s, p, kind)
    PROVE  RowsInv'
<1> PICK named \in (IF kind = "update" THEN SUBSET KeptColumns ELSE {{}}), auto \in BOOLEAN,
         reading \in Readings(p, kind) :
          /\ Begin(s, [kind |-> kind, p |-> p, named |-> named, auto |-> auto,
                     seen |-> reading, n |-> asked + 1])
          /\ excused' = (excused \/ "port" \in named)
  BY DEF AskEdit
<1> DEFINE r == [kind |-> kind, p |-> p, named |-> named, auto |-> auto,
                 seen |-> reading, n |-> asked + 1]
<1>1. asked + 1 \in 1..MaxRequests
  BY RowsAssumption DEF Begin, RowsInv, Marks
<1>2. reading \in RowRecord /\ reading.wraps <= asked /\ reading.wraps \in Nat
  <2>1. rows[p] \in RowRecord /\ rows[p].wraps <= asked
    BY DEF AskEdit, RowsInv, TableInv, Present
  <2>2. reading \in {rows[p], [rows[p] EXCEPT !.tabs = {}], [rows[p] EXCEPT !.pinned = FALSE]}
    BY DEF Readings, EditKinds
  <2>3. reading \in RowRecord /\ reading.wraps = rows[p].wraps
    BY <2>1, <2>2 DEF RowRecord
  <2> QED
    BY <2>1, <2>3 DEF RowRecord, Marks
<1>3. named \in SUBSET KeptColumns
  OBVIOUS
<1>4. /\ r \in RowEdit /\ r \notin Creation /\ r.n = asked + 1
      /\ r.seen = reading /\ r.named = named
  BY <1>1, <1>2, <1>3 DEF RowEdit, Creation, EditKinds
<1>5. Begin(s, r)
  OBVIOUS
<1> HIDE DEF r
<1>6. Remembers(r, asked + 1, excused')
  <2>1. r.n <= asked + 1 /\ r.seen.wraps < r.n
    BY <1>2, <1>4 DEF RowsInv, Marks
  <2> QED
    BY <1>4, <2>1 DEF Remembers
<1>7. Later => TableInv'
  BY SameTable DEF RowsInv, AskEdit
<1>8. excused' \in BOOLEAN /\ (excused => excused') /\ access' = access
  BY DEF RowsInv, AskEdit
<1> QED
  BY <1>5, <1>6, <1>7, <1>8, BeginInv DEF RowsInv

\* An edit in flight remembers a row.
LEMMA EditSeen ==
    ASSUME RowsInv, NEW s \in Slots, NEW kind \in EditKinds, Doing(s, kind)
    PROVE  /\ request[s] \in RowEdit /\ request[s].n \in Nat /\ request[s].n <= asked
           /\ request[s].seen.wraps \in Nat /\ request[s].seen.wraps < request[s].n
           /\ "port" \in request[s].named => excused
<1>1. Remembers(request[s], asked, excused) /\ ~Free(s) /\ request[s].kind \in EditKinds
  BY DEF RowsInv, Doing, Free
<1>2. request[s] \in RowEdit
  BY <1>1 DEF Remembers, Creation, Deletion, ListEdit, EditKinds, Free
<1>3. request[s].n \in Nat /\ request[s].seen.wraps \in Nat
  BY <1>2 DEF RowEdit, RowRecord, Marks
<1> QED
  BY <1>1, <1>2, <1>3 DEF Remembers, Free

LEMMA NotDeeper ==
    ASSUME asked \in Marks, NEW n \in Nat, n <= asked, NEW w \in 0..n
    PROVE  w \in Marks /\ w <= asked
  BY RowsAssumption DEF Marks

LEMMA WriteUpdateInv == ASSUME RowsInv, NEW s \in Slots, WriteUpdate(s) PROVE RowsInv'
<1> DEFINE r == request[s]
<1>1. PICK port \in PortRange :
          /\ rows' = Change(r.p, Merged(r, port))
          /\ excused' = (excused \/ (Present(r.p) /\ rows[r.p].port # r.seen.port))
  BY DEF WriteUpdate
<1>2. r \in RowEdit /\ r.n \in Nat /\ r.n <= asked /\ r.seen.wraps \in Nat /\ r.seen.wraps < r.n
      /\ ("port" \in r.named => excused)
  BY EditSeen DEF WriteUpdate, EditKinds
<1> DEFINE m == Merged(r, port)
           new == Overlaid(rows[r.p], m)
<1>3. /\ DOMAIN m = {"text", "tags", "wraps", "port", "auto"}
      /\ m.text \in Marks /\ m.tags \in Marks /\ m.auto \in BOOLEAN /\ m.port \in Ports
      /\ m.wraps \in 0..r.n
      /\ "port" \notin r.named => m.port = r.seen.port
  BY <1>2 DEF Merged, RowEdit, RowRecord, Marks, Ports
<1>4. m.wraps \in Marks /\ m.wraps <= asked
  <2> HIDE DEF m
  <2>1. asked \in Marks
    BY DEF RowsInv
  <2> QED
    BY <1>2, <1>3, <2>1, NotDeeper
<1> HIDE DEF m
<1>5. ASSUME Present(r.p)
      PROVE  new \in RowRecord /\ new.wraps = m.wraps /\ new.port = m.port
  <2>1. rows[r.p] \in RowRecord
    BY <1>5 DEF RowsInv, TableInv, Present
  <2> QED
    BY <2>1, <1>3, <1>4 DEF Overlaid, RowRecord, Ports
<1>6. Later => TableInv'
  <2> SUFFICES ASSUME Later PROVE TableInv'
    OBVIOUS
  <2>1. asked' = asked
    BY DEF WriteUpdate, Finish
  <2>2. Present(r.p) => excused' \/ m.port = rows[r.p].port
    BY <1>1, <1>2, <1>3
  <2>3. rows' = Change(r.p, m)
    BY <1>1 DEF m
  <2> QED
    BY <1>4, <1>5, <2>1, <2>2, <2>3, ChangeInv DEF RowsInv
<1>7. excused' \in BOOLEAN /\ (excused => excused')
  BY <1>1 DEF RowsInv
<1> QED
  BY <1>6, <1>7, FinishInv DEF WriteUpdate, RowsInv

LEMMA WriteEditInv == ASSUME RowsInv, NEW s \in Slots, WriteEdit(s) PROVE RowsInv'
<1> DEFINE r == request[s]
           c == Edited(r)
           new == Overlaid(rows[r.p], c)
<1>1. r \in RowEdit /\ r.kind \in {"tabs", "features", "pin"}
  BY EditSeen DEF WriteEdit, EditKinds, Doing
<1>2. ASSUME Present(r.p) PROVE new \in RowRecord /\ new.wraps = rows[r.p].wraps /\ new.port = rows[r.p].port
  <2>1. rows[r.p] \in RowRecord /\ r.n \in Marks
    BY <1>1, <1>2 DEF RowsInv, TableInv, Present, RowEdit, Marks
  <2>2. CASE r.kind = "tabs"
    <3> DEFINE t == (IF Quoted \in r.seen.tabs THEN {} ELSE r.seen.tabs) \cup {r.n}
    <3>1. c = [tabs |-> t] /\ t \in SUBSET (Marks \cup {Quoted})
      BY <1>1, <2>1, <2>2 DEF Edited, RowEdit, RowRecord
    <3> HIDE DEF t, c
    <3> QED
      BY <2>1, <3>1 DEF Overlaid, RowRecord
  <2>3. CASE r.kind = "features"
    <3> DEFINE t == IF Quoted \in r.seen.features THEN r.seen.features ELSE r.seen.features \cup {r.n}
    <3>1. c = [features |-> t] /\ t \in SUBSET (Marks \cup {Quoted})
      BY <1>1, <2>1, <2>3 DEF Edited, RowEdit, RowRecord
    <3> HIDE DEF t, c
    <3> QED
      BY <2>1, <3>1 DEF Overlaid, RowRecord
  <2>4. CASE r.kind = "pin"
    <3>1. c = [pinned |-> ~r.seen.pinned]
      BY <2>4 DEF Edited
    <3> HIDE DEF c
    <3> QED
      BY <2>1, <3>1 DEF Overlaid, RowRecord
  <2> QED
    BY <1>1, <2>2, <2>3, <2>4
<1>3. rows' = Change(r.p, c) /\ Finish(s) /\ UNCHANGED <<access, excused>>
  BY DEF WriteEdit
<1> HIDE DEF c
<1>4. Later => TableInv'
  <2>1. Present(r.p) => rows[r.p].wraps <= asked
    BY DEF RowsInv, TableInv, Present
  <2>2. asked' = asked
    BY <1>3 DEF Finish
  <2> QED
    BY <1>2, <1>3, <2>1, <2>2, ChangeInv DEF RowsInv
<1> QED
  BY <1>3, <1>4, FinishInv DEF RowsInv

LEMMA WriteCloneInv == ASSUME RowsInv, NEW s \in Slots, WriteClone(s) PROVE RowsInv'
<1> DEFINE r == request[s]
           copy == [r.seen EXCEPT !.port = NoPort, !.auto = FALSE, !.wraps = @ + 1,
                                  !.tabs = @ \cup {Quoted}, !.features = @ \cup {Quoted}]
<1>1. r \in RowEdit /\ r.n \in Nat /\ r.n <= asked /\ r.seen.wraps \in Nat /\ r.seen.wraps < r.n
  BY EditSeen DEF WriteClone, EditKinds
<1>2. r.seen \in RowRecord /\ r.p \in Projects
  BY <1>1 DEF RowEdit
<1>3. r.seen.wraps + 1 \in Marks /\ r.seen.wraps + 1 <= asked
  <2>1. asked \in Marks
    BY DEF RowsInv
  <2>2. r.seen.wraps + 1 \in 0..r.n
    BY <1>1
  <2> QED
    BY <1>1, <2>1, <2>2, NotDeeper
<1>4. copy \in RowRecord /\ copy.wraps = r.seen.wraps + 1 /\ copy.port = NoPort
  BY <1>2, <1>3 DEF RowRecord
<1>5. rows' = Insert(CloneId[r.p], copy) /\ Finish(s) /\ UNCHANGED <<access, excused>>
  BY DEF WriteClone
<1>6. CloneId[r.p] \in Projects /\ asked' = asked
  BY <1>2, <1>5, RowsAssumption DEF Finish
<1> HIDE DEF copy
<1>7. Later => TableInv'
  BY <1>3, <1>4, <1>5, <1>6, InsertInv DEF RowsInv
<1> QED
  BY <1>5, <1>7, FinishInv DEF RowsInv

LEMMA AskMemberInv ==
    ASSUME RowsInv, NEW s \in Slots, NEW p \in Projects, NEW u \in Members, NEW kind \in {"add", "remove"},
           AskMember(s, p, u, kind)
    PROVE  RowsInv'
<1> PICK list \in {access[u], {}} :
        Begin(s, [kind |-> kind, p |-> p, u |-> u, seen |-> list, n |-> asked + 1])
  BY DEF AskMember
<1> DEFINE r == [kind |-> kind, p |-> p, u |-> u, seen |-> list, n |-> asked + 1]
<1>1. Begin(s, r) /\ UNCHANGED <<rows, access, excused>>
  BY DEF AskMember
<1>2. asked + 1 \in 1..MaxRequests
  BY RowsAssumption DEF AskMember, Begin, RowsInv, Marks
<1>3. r \in ListEdit /\ r \notin RowEdit /\ r \notin Creation /\ r.n = asked + 1
  BY <1>2 DEF ListEdit, RowEdit, Creation, RowsInv
<1> HIDE DEF r
<1>4. Remembers(r, asked + 1, excused')
  <2>1. r.n <= asked + 1
    BY <1>3 DEF RowsInv, Marks
  <2> QED
    BY <1>3, <2>1 DEF Remembers
<1>5. Later => TableInv'
  BY <1>1, SameTable DEF RowsInv
<1> QED
  BY <1>1, <1>4, <1>5, BeginInv DEF RowsInv

LEMMA MemberSeen ==
    ASSUME RowsInv, NEW s \in Slots, Doing(s, "add") \/ Doing(s, "remove")
    PROVE  request[s] \in ListEdit
  BY DEF RowsInv, Doing, Free, Remembers, Creation, Deletion, RowEdit

LEMMA WriteMemberInv == ASSUME RowsInv, NEW s \in Slots, WriteMember(s) PROVE RowsInv'
<1> DEFINE r == request[s]
           new == IF r.kind = "remove" THEN r.seen \ {r.p}
                  ELSE IF Already(r.p, r.seen) THEN access[r.u] ELSE r.seen \cup {r.p}
<1>1. r \in ListEdit
  BY MemberSeen DEF WriteMember
<1>2. new \in SUBSET Projects
  BY <1>1 DEF ListEdit, RowsInv
<1>3. access' = [access EXCEPT ![r.u] = new] /\ Finish(s) /\ UNCHANGED <<rows, excused>>
  BY DEF WriteMember
<1>4. access' \in [Members -> SUBSET Projects]
  BY <1>2, <1>3 DEF RowsInv
<1>5. Later => TableInv'
  BY <1>3, SameTable DEF RowsInv
<1> QED
  BY <1>3, <1>4, <1>5, FinishInv DEF RowsInv

LEMMA WriteFailsInv == ASSUME RowsInv, NEW s \in Slots, WriteFails(s) PROVE RowsInv'
<1>1. request' = [request EXCEPT ![s] = Failed] /\ UNCHANGED <<rows, access, asked, excused>>
  BY DEF WriteFails
<1>2. TableInv'
  BY <1>1 DEF RowsInv, TableInv, Existing, PortsDistinct, PortsShared
<1>3. \A q \in Slots : Remembers(request'[q], asked', excused')
  BY <1>1 DEF RowsInv, Remembers
<1> QED
  BY <1>1, <1>2, <1>3 DEF RowsInv

LEMMA SetAccessInv == ASSUME RowsInv, NEW s \in Slots, NEW u \in Members, SetAccess(s, u) PROVE RowsInv'
<1>1. access' \in [Members -> SUBSET Projects]
  BY DEF SetAccess, RowsInv
<1>2. Later => TableInv'
  BY SameTable DEF SetAccess, RowsInv
<1> QED
  BY <1>1, <1>2, AtOnceInv DEF SetAccess, RowsInv

\* Every statement of every request preserves it.
THEOREM RowsNextInv == RowsInv /\ [RowsNext]_rowvars => RowsInv'
<1> SUFFICES ASSUME RowsInv, [RowsNext]_rowvars PROVE RowsInv'
  OBVIOUS
<1>1. CASE UNCHANGED rowvars
  <2>1. asked' = asked /\ excused' = excused /\ request' = request /\ access' = access /\ rows' = rows
    BY <1>1 DEF rowvars
  <2>2. TableInv'
    BY <2>1 DEF RowsInv, TableInv, Existing, PortsDistinct, PortsShared
  <2> QED
    BY <2>1, <2>2 DEF RowsInv
<1>2. ASSUME NEW s \in Slots, NEW p \in Projects, AskCreate(s, p) \/ AllocateRoute(s, p) \/ AskDelete(s, p)
      PROVE  RowsInv'
  BY <1>2, AskCreateInv, AllocateRouteInv, AskDeleteInv
<1>3. ASSUME NEW s \in Slots, NEW p \in Projects, NEW kind \in EditKinds, AskEdit(s, p, kind)
      PROVE  RowsInv'
  BY <1>3, AskEditInv
<1>4. ASSUME NEW s \in Slots, NEW p \in Projects, NEW u \in Members, NEW kind \in {"add", "remove"},
             AskMember(s, p, u, kind)
      PROVE  RowsInv'
  BY <1>4, AskMemberInv
<1>5. ASSUME NEW s \in Slots, NEW u \in Members, SetAccess(s, u)
      PROVE  RowsInv'
  BY <1>5, SetAccessInv
<1>6. ASSUME NEW s \in Slots, \/ InsertRow(s) \/ DeleteRow(s) \/ WriteUpdate(s) \/ WriteEdit(s)
                              \/ WriteClone(s) \/ WriteMember(s) \/ WriteFails(s)
      PROVE  RowsInv'
  BY <1>6, InsertRowInv, DeleteRowInv, WriteUpdateInv, WriteEditInv, WriteCloneInv, WriteMemberInv,
     WriteFailsInv
<1> QED
  BY <1>1, <1>2, <1>3, <1>4, <1>5, <1>6 DEF RowsNext, EditKinds

\* The table and what each request remembers of it agree at every moment.
THEOREM RowsSpecInv == RowsSpec => []RowsInv
  BY RowsInitInv, RowsNextInv, PTL DEF RowsSpec

\* For any projects, ports and requests: PortsDistinct.
THEOREM RowsPorts == RowsSpec => []PortsDistinct
<1>1. RowsInv => PortsDistinct
  BY DEF RowsInv, TableInv
<1> QED
  BY <1>1, RowsSpecInv, PTL

\* Only the write that ends a request removes it.
LEMMA OnlyFinishEnds ==
    ASSUME RowsInv, [RowsNext]_rowvars, NEW s \in Slots, Ends(s)
    PROVE  Finish(s) /\ (InsertRow(s) \/ DeleteRow(s) \/ WriteUpdate(s) \/ WriteEdit(s)
                         \/ WriteClone(s) \/ WriteMember(s))
<1>1. request[s] \notin {None, Failed} /\ request'[s] = None /\ DOMAIN request = Slots
  BY DEF Ends, Free, RowsInv
<1>2. request' # request
  BY <1>1
<1>3. ASSUME NEW q \in Slots, NEW r, Begin(q, r), r.kind # "none" PROVE FALSE
  <2>1. request' = [request EXCEPT ![q] = r] /\ r # None
    BY <1>3 DEF Begin, None
  <2> QED
    BY <1>1, <2>1
<1>4. ASSUME NEW q \in Slots, Finish(q) PROVE q = s
  BY <1>1, <1>4 DEF Finish
<1>5. ASSUME NEW q \in Slots, NEW p \in Projects PROVE ~AskCreate(q, p) /\ ~AllocateRoute(q, p) /\ ~AskDelete(q, p)
  BY <1>2, <1>3 DEF AskCreate, AllocateRoute, AtOnce, AskDelete
<1>6. ASSUME NEW q \in Slots, NEW p \in Projects, NEW kind \in EditKinds PROVE ~AskEdit(q, p, kind)
  BY <1>3 DEF AskEdit, EditKinds
<1>7. ASSUME NEW q \in Slots, NEW p \in Projects, NEW u \in Members, NEW kind \in {"add", "remove"}
      PROVE  ~AskMember(q, p, u, kind)
  BY <1>3 DEF AskMember
<1>8. ASSUME NEW q \in Slots, NEW u \in Members PROVE ~SetAccess(q, u)
  BY <1>2 DEF SetAccess, AtOnce
<1>9. ASSUME NEW q \in Slots, \/ InsertRow(q) \/ DeleteRow(q) \/ WriteUpdate(q) \/ WriteEdit(q)
                              \/ WriteClone(q) \/ WriteMember(q)
      PROVE  Finish(q)
  BY <1>9 DEF InsertRow, DeleteRow, WriteUpdate, WriteEdit, WriteClone, WriteMember
<1>10. ASSUME NEW q \in Slots PROVE ~WriteFails(q)
  BY <1>1 DEF WriteFails, None, Failed
<1>11. RowsNext
  BY <1>2 DEF rowvars
<1> QED
  BY <1>4, <1>5, <1>6, <1>7, <1>8, <1>9, <1>10, <1>11 DEF RowsNext, EditKinds

LEMMA StepSticks ==
    ASSUME RowsInv, [RowsNext]_rowvars, NEW s \in Slots, Ends(s)
    PROVE  EditSticks(s)
<1> DEFINE r == request[s]
<1>1. ASSUME r.kind \in {"add", "remove"} PROVE EditSticks(s)
  <2>1. WriteMember(s)
    BY <1>1, OnlyFinishEnds DEF InsertRow, DeleteRow, WriteUpdate, WriteEdit, WriteClone, Doing
  <2>2. r \in ListEdit
    BY <2>1, MemberSeen DEF WriteMember
  <2>3. r.u \in Members /\ DOMAIN access = Members
    BY <2>2 DEF ListEdit, RowsInv
  <2>4. access' = [access EXCEPT ![r.u] = IF r.kind = "remove" THEN r.seen \ {r.p}
                       ELSE IF Already(r.p, r.seen) THEN access[r.u] ELSE r.seen \cup {r.p}]
    BY <2>1 DEF WriteMember
  <2>5. CASE r.kind = "remove"
    BY <2>3, <2>4, <2>5 DEF EditSticks
  <2>6. CASE r.kind = "add" /\ r.p \in r.seen
    <3>1. access' = access
      BY <2>3, <2>4, <2>6 DEF Already, RowsInv
    <3> QED
      BY <2>6, <3>1 DEF EditSticks
  <2>7. CASE r.kind = "add" /\ r.p \notin r.seen
    BY <2>3, <2>4, <2>7 DEF EditSticks, Already
  <2> QED
    BY <1>1, <2>5, <2>6, <2>7
<1>2. ASSUME r.kind = "update", Present(r.p) PROVE EditSticks(s)
  <2>1. WriteUpdate(s)
    BY <1>2, OnlyFinishEnds DEF InsertRow, DeleteRow, WriteMember, WriteEdit, WriteClone, Doing
  <2>2. PICK port \in PortRange : rows' = Change(r.p, Merged(r, port))
    BY <2>1 DEF WriteUpdate
  <2>3. rows[r.p] \in RowRecord
    BY <1>2 DEF RowsInv, TableInv, Present
  <2>4. rows'[r.p] = Overlaid(rows[r.p], Merged(r, port))
    BY <1>2, <2>2 DEF Change, Present, Existing
  <2>5. /\ rows'[r.p].text = Merged(r, port).text
        /\ rows'[r.p].tags = Merged(r, port).tags
        /\ rows'[r.p].port = Merged(r, port).port
    BY <2>3, <2>4 DEF Overlaid, RowRecord, Merged
  <2>6. \A c \in KeptColumns :
              IF c \in r.named THEN c # "port" => rows'[r.p][c] = r.n
              ELSE rows'[r.p][c] \in {rows[r.p][c], r.seen[c]}
    BY <2>5 DEF KeptColumns, Merged
  <2> QED
    BY <1>2, <2>6 DEF EditSticks
<1> QED
  BY <1>1, <1>2 DEF EditSticks

\* For any projects, ports and requests: EditsStick.
THEOREM RowsEditsStick == RowsSpec => EditsStick
<1>1. RowsInv /\ [RowsNext]_rowvars => [\A s \in Slots : Ends(s) => EditSticks(s)]_rowvars
  BY StepSticks
<1> QED
  BY <1>1, RowsSpecInv, PTL DEF RowsSpec, EditsStick

-----------------------------------------------------------------------------
(* NginxSync *)

\* Every location on its way to nginx is one that a row had.
ToldInv ==
    /\ base \in [Sites -> Paths \cup {NoPath}]
    /\ \A p \in Sites : base[p] # NoPath => <<p, base[p]>> \in told
    /\ told \subseteq Sites \X Paths
    /\ sync \in [Syncs -> [pc : {"off", "read", "push", "write", "reload"},
                           conf : SUBSET told, try : Nat]]
    /\ file \subseteq told \cup {Broken}
    /\ live \subseteq told

\* At start there are no locations.
THEOREM InitToldInv == NginxInit => ToldInv
  BY DEF NginxInit, ToldInv, Off

\* Only rows add locations.
LEMMA LocationsTold == ToldInv => Locations \subseteq told
  BY DEF ToldInv, Locations

\* A location that a row had stays one, so more of them keep the invariant.
LEMMA ChangePreserves ==
    ASSUME ToldInv, NEW p \in Sites, NEW path \in Paths \cup {NoPath}, Relocate(p, path),
           sync' = sync \/ \E s \in Syncs : sync' = [sync EXCEPT ![s].pc = "read"]
    PROVE  ToldInv'
<1>1. /\ base' = [base EXCEPT ![p] = path]
      /\ told' = told \cup (IF path = NoPath THEN {} ELSE {<<p, path>>})
      /\ file' = file /\ live' = live
  BY DEF Relocate
<1>2. told \subseteq told' /\ told' \subseteq Sites \X Paths
  BY <1>1 DEF ToldInv
<1>3. base' \in [Sites -> Paths \cup {NoPath}]
  BY <1>1 DEF ToldInv
<1>4. \A q \in Sites : base'[q] # NoPath => <<q, base'[q]>> \in told'
  BY <1>1, <1>2 DEF ToldInv
<1>5. sync' \in [Syncs -> [pc : {"off", "read", "push", "write", "reload"},
                           conf : SUBSET told', try : Nat]]
  BY <1>1, <1>2 DEF ToldInv
<1>6. QED
  BY <1>1, <1>2, <1>3, <1>4, <1>5 DEF ToldInv

\* A push that failed is tried again or given up; nothing else changes.
LEMMA RetryPreserves ==
    ASSUME ToldInv, NEW s \in Syncs, Retry(s)
    PROVE  sync' \in [Syncs -> [pc : {"off", "read", "push", "write", "reload"},
                                conf : SUBSET told, try : Nat]]
<1>1. sync[s] \in [pc : {"off", "read", "push", "write", "reload"},
                   conf : SUBSET told, try : Nat]
  BY DEF ToldInv
<1>2. QED
  BY <1>1 DEF Retry, ToldInv, Off

\* Every step of a Sync, also one that fails, passes on what rows said.
THEOREM NextToldInv == ToldInv /\ [NginxNext]_nvars => ToldInv'
<1> SUFFICES ASSUME ToldInv, [NginxNext]_nvars
             PROVE  ToldInv'
  OBVIOUS
<1>1. ASSUME NEW p \in Sites, NEW path \in Paths \cup {NoPath},
             EditQuietly(p, path) \/ \E s \in Syncs : EditRow(p, path, s)
      PROVE  ToldInv'
  BY <1>1, ChangePreserves DEF EditQuietly, EditRow
<1>2. ASSUME NEW s \in Syncs, Launch(s) \/ ReadRows(s) \/ ReadFails(s)
      PROVE  ToldInv'
  <2>1. CASE Launch(s)
    BY <2>1 DEF Launch, ToldInv
  <2>2. CASE ReadRows(s)
    BY <2>2, LocationsTold DEF ReadRows, ToldInv
  <2>3. CASE ReadFails(s)
    <3>1. sync' \in [Syncs -> [pc : {"off", "read", "push", "write", "reload"},
                               conf : SUBSET told, try : Nat]]
      BY <2>3, LocationsTold DEF ReadFails, ToldInv, Off
    <3> QED
      BY <2>3, <3>1 DEF ReadFails, ToldInv
  <2> QED
    BY <1>2, <2>1, <2>2, <2>3
<1>3. ASSUME NEW s \in Syncs, Open(s) \/ Reload(s)
      PROVE  ToldInv'
  BY <1>3 DEF Open, Reload, Tested, Loadable, Off, ToldInv
<1>4. ASSUME NEW s \in Syncs, Write(s)
      PROVE  ToldInv'
  <2>1. file' \subseteq told \cup {Broken}
    BY <1>4 DEF Write, ToldInv
  <2>2. QED
    BY <1>4, <2>1 DEF Write, ToldInv
<1>5. ASSUME NEW s \in Syncs, PushFails(s)
      PROVE  ToldInv'
  <2>1. file' \subseteq told \cup {Broken}
    BY <1>5 DEF PushFails, Torn, ToldInv
  <2>2. QED
    BY <1>5, <2>1, RetryPreserves DEF PushFails, ToldInv
<1>6. ASSUME NEW s \in Syncs, ReloadFails(s)
      PROVE  ToldInv'
  <2>1. live' \subseteq told
    BY <1>6 DEF ReloadFails, Tested, Loadable, ToldInv
  <2>2. QED
    BY <1>6, <2>1, RetryPreserves DEF ReloadFails, ToldInv
<1>7. CASE Die
  <2>1. file' \subseteq told \cup {Broken}
    BY <1>7 DEF Die, Torn, ToldInv
  <2> QED
    BY <1>7, <2>1 DEF Die, Off, ToldInv
<1>8. CASE UNCHANGED nvars
  BY <1>8 DEF nvars, ToldInv
<1>9. QED
  BY <1>1, <1>2, <1>3, <1>4, <1>5, <1>6, <1>7, <1>8 DEF NginxNext, SyncStep

-----------------------------------------------------------------------------
(* Refinement of ConfigPublisher *)

\* nginx -t lets only a configuration through that gives no path twice.
LEMMA LoadImplements ==
    ASSUME ToldInv, told' = told, live' = file, Tested(file)
    PROVE  Publisher!Load
  BY DEF ToldInv, Tested, Loadable, Publisher!Load, Publisher!Clear

\* Every step is a step of the publisher, or leaves its variables alone.
LEMMA StepImplements == ToldInv /\ [NginxNext]_nvars => [Publisher!PublisherNext]_<<told, live>>
<1> SUFFICES ASSUME ToldInv, [NginxNext]_nvars
             PROVE  [Publisher!PublisherNext]_<<told, live>>
  OBVIOUS
<1>1. ASSUME NEW p \in Sites, NEW path \in Paths \cup {NoPath}, Relocate(p, path)
      PROVE  [Publisher!PublisherNext]_<<told, live>>
  <2>1. CASE path = NoPath
    BY <1>1, <2>1 DEF Relocate
  <2>2. CASE path # NoPath
    BY <1>1, <2>2 DEF Relocate, Publisher!PublisherNext, Publisher!Tell
  <2>3. QED
    BY <2>1, <2>2
<1>2. ASSUME \/ Die
             \/ \E s \in Syncs : \/ Launch(s) \/ ReadRows(s) \/ ReadFails(s)
                                \/ Open(s) \/ Write(s) \/ PushFails(s)
      PROVE  UNCHANGED <<told, live>>
  BY <1>2 DEF Die, Launch, ReadRows, ReadFails, Open, Write, PushFails
<1>3. ASSUME NEW s \in Syncs, Reload(s) \/ ReloadFails(s)
      PROVE  [Publisher!PublisherNext]_<<told, live>>
  BY <1>3, LoadImplements DEF Reload, ReloadFails, Publisher!PublisherNext
<1>4. CASE UNCHANGED nvars
  BY <1>4 DEF nvars
<1>5. QED
  BY <1>1, <1>2, <1>3, <1>4 DEF NginxNext, SyncStep, EditRow, EditQuietly

\* Whatever overlaps, fails or is torn: nginx runs only locations that rows had,
\* each path of one project.  NginxSync implements ConfigPublisher.
THEOREM SyncImplementsPublisher == NginxSpec => ImplementsPublisher
<1>1. NginxInit => Publisher!PublisherInit
  BY DEF NginxInit, Publisher!PublisherInit
<1>2. QED
  BY <1>1, InitToldInv, NextToldInv, StepImplements, PTL
  DEF NginxSpec, ImplementsPublisher, Publisher!PublisherSpec

-----------------------------------------------------------------------------
(* Freshness *)

Waiting == \E s \in Syncs : sync[s].pc = "read"
Quiet == \A s \in Syncs : ~Pushing(s)

\* As long as nginx is not behind, one Sync at most pushes, the file is what it
\* has written of it, and, unless another has still to read the rows, what it
\* pushes or nginx runs is what they say.
AloneInv ==
    ~behind =>
        /\ \A s, t \in Syncs : Pushing(s) /\ Pushing(t) => s = t
        /\ \A s \in Syncs : sync[s].pc = "write" => file = {}
        /\ \A s \in Syncs : sync[s].pc = "reload" => file = sync[s].conf
        /\ ~Waiting => /\ \A s \in Syncs : Pushing(s) => sync[s].conf = Locations
                       /\ Quiet => live = Locations

\* The inductive invariant.
FreshInv == ToldInv /\ AloneInv

\* At start there are no rows and no configuration.
THEOREM InitFreshInv == NginxInit => FreshInv
<1> SUFFICES ASSUME NginxInit
             PROVE  AloneInv
  BY InitToldInv DEF FreshInv
<1>1. Locations = {} /\ live = {}
  BY DEF NginxInit, Locations
<1>2. QED
  BY <1>1 DEF NginxInit, AloneInv, Pushing, Waiting, Quiet, Off

\* A Sync that was launched has still to read the rows.
LEMMA LaunchIsRead ==
    ASSUME FreshInv, NEW s \in Syncs, sync' = [sync EXCEPT ![s].pc = "read"], sync[s].pc = "off",
           UNCHANGED <<file, behind>>
    PROVE  AloneInv'
<1>1. Waiting'
  BY DEF Waiting, FreshInv, ToldInv
<1>2. \A t \in Syncs : /\ Pushing(t)' <=> Pushing(t)
                       /\ sync'[t].conf = sync[t].conf
                       /\ sync'[t].pc \in {"write", "reload"} => sync'[t].pc = sync[t].pc
  BY DEF Pushing, FreshInv, ToldInv
<1> QED
  BY <1>1, <1>2 DEF FreshInv, AloneInv

\* A Sync that reads the rows alone has what they say.
LEMMA ReadAlone ==
    ASSUME FreshInv, NEW s \in Syncs, ReadRows(s)
    PROVE  AloneInv'
<1>1. /\ sync' = [sync EXCEPT ![s] = [pc |-> "push", conf |-> Locations, try |-> 1]]
      /\ behind' = \E t \in Syncs \ {s} : Pushing(t)
      /\ base' = base
  BY DEF ReadRows
<1>2. SUFFICES ASSUME ~behind'
               PROVE  AloneInv'
  BY DEF AloneInv
<1>3. Locations' = Locations
  BY <1>1 DEF Locations
<1>4. sync'[s] = [pc |-> "push", conf |-> Locations, try |-> 1]
  BY <1>1 DEF FreshInv, ToldInv
<1>5. \A t \in Syncs \ {s} : sync'[t] = sync[t] /\ ~Pushing(t)'
  BY <1>1, <1>2 DEF FreshInv, ToldInv, Pushing
<1>6. Pushing(s)'
  BY <1>4 DEF Pushing
<1>7. \A t \in Syncs \ {s} : sync'[t].pc \notin {"write", "reload"}
  BY <1>5 DEF Pushing
<1>8. QED
  BY <1>3, <1>4, <1>5, <1>6, <1>7 DEF AloneInv, Quiet

\* What one Sync does between its reading of the rows and its end, as far as the
\* others see it.
LEMMA PusherMoves ==
    ASSUME FreshInv, NEW s \in Syncs, Pushing(s), ~behind,
           base' = base,
           NEW pc, pc \in {"push", "write", "reload"},
           sync' \in [Syncs -> [pc : {"off", "read", "push", "write", "reload"},
                                conf : SUBSET told, try : Nat]],
           \A t \in Syncs \ {s} : sync'[t] = sync[t],
           sync'[s].pc = pc, sync'[s].conf = sync[s].conf,
           pc = "write" => file' = {},
           pc = "reload" => file' = sync[s].conf
    PROVE  AloneInv'
<1>1. Locations' = Locations
  BY DEF Locations
<1>2. \A t \in Syncs : Pushing(t)' <=> Pushing(t)
  BY DEF Pushing
<1>3. \A t \in Syncs \ {s} : ~Pushing(t)
  BY DEF FreshInv, AloneInv
<1>4. \A t \in Syncs \ {s} : sync'[t].pc \notin {"write", "reload"}
  BY <1>3 DEF Pushing
<1>5. Waiting' => Waiting
  BY DEF Waiting
<1>6. Waiting => Waiting'
  BY DEF Waiting, Pushing
<1>7. ~Quiet'
  BY <1>2 DEF Quiet
<1>8. \A t \in Syncs : sync'[t].conf = sync[t].conf
  OBVIOUS
<1>9. QED
  BY <1>1, <1>2, <1>4, <1>6, <1>7, <1>8 DEF FreshInv, AloneInv

\* A Sync that gives up leaves nginx behind; one that tries again pushes what it
\* has read.
LEMMA RetryAlone ==
    ASSUME FreshInv, NEW s \in Syncs, Pushing(s), Retry(s), base' = base
    PROVE  AloneInv'
<1>1. CASE behind \/ sync[s].try = PushAttempts
  BY <1>1 DEF Retry, AloneInv
<1>2. CASE ~behind /\ sync[s].try # PushAttempts
  <2>1. sync' = [sync EXCEPT ![s] =
                   [pc |-> "push", conf |-> sync[s].conf, try |-> sync[s].try + 1]]
    BY <1>2 DEF Retry
  <2>2. sync' \in [Syncs -> [pc : {"off", "read", "push", "write", "reload"},
                             conf : SUBSET told, try : Nat]]
    BY RetryPreserves DEF FreshInv
  <2>3. \A t \in Syncs \ {s} : sync'[t] = sync[t]
    BY <2>1 DEF FreshInv, ToldInv
  <2>4. sync'[s].pc = "push" /\ sync'[s].conf = sync[s].conf
    BY <2>1 DEF FreshInv, ToldInv
  <2>5. QED
    BY <1>2, <2>2, <2>3, <2>4, PusherMoves
<1>3. QED
  BY <1>1, <1>2

\* A reload by the only Sync that pushes loads what it has read.
LEMMA ReloadAlone ==
    ASSUME FreshInv, NEW s \in Syncs, Reload(s)
    PROVE  AloneInv'
<1>1. /\ sync[s].pc = "reload" /\ live' = file
      /\ sync' = [sync EXCEPT ![s] = Off]
      /\ base' = base /\ behind' = behind
  BY DEF Reload
<1>2. SUFFICES ASSUME ~behind
               PROVE  AloneInv'
  BY <1>1 DEF AloneInv
<1>3. Pushing(s) /\ file = sync[s].conf
  BY <1>1, <1>2 DEF Pushing, FreshInv, AloneInv
<1>4. \A t \in Syncs : ~Pushing(t)' /\ sync'[t].pc \notin {"write", "reload"}
  BY <1>1, <1>2, <1>3 DEF FreshInv, ToldInv, AloneInv, Pushing, Off
<1>5. ~Waiting' => ~Waiting
  BY <1>1 DEF Waiting, FreshInv, ToldInv
<1>6. ~Waiting' => live' = Locations'
  BY <1>1, <1>2, <1>3, <1>5 DEF FreshInv, AloneInv, Locations
<1>7. QED
  BY <1>4, <1>6 DEF AloneInv

\* The push of the only Sync: tee opens the file, which empties it, and writes.
LEMMA PushAlone ==
    ASSUME FreshInv, NEW s \in Syncs, Open(s) \/ Write(s)
    PROVE  AloneInv'
<1> USE DEF FreshInv, ToldInv
<1>1. SUFFICES ASSUME ~behind
               PROVE  AloneInv'
  BY DEF Open, Write, AloneInv
<1>2. Pushing(s) /\ base' = base
  BY DEF Open, Write, Pushing
<1>3. CASE Open(s)
  <2>1. sync' = [sync EXCEPT ![s].pc = "write"] /\ file' = {}
    BY <1>3 DEF Open
  <2>2. QED
    BY <1>1, <1>2, <2>1, PusherMoves
<1>4. CASE Write(s)
  <2>1. sync' = [sync EXCEPT ![s].pc = "reload"]
    BY <1>4 DEF Write
  <2>2. file = {}
    BY <1>1, <1>4 DEF Write, AloneInv
  <2>3. file' = sync[s].conf
    BY <1>4, <2>2 DEF Write
  <2>4. QED
    BY <1>1, <1>2, <2>1, <2>3, PusherMoves
<1>5. QED
  BY <1>3, <1>4

\* Every step preserves the invariant.
THEOREM NextFreshInv == FreshInv /\ [NginxNext]_nvars => FreshInv'
<1> SUFFICES ASSUME FreshInv, [NginxNext]_nvars
             PROVE  AloneInv'
  BY NextToldInv DEF FreshInv
<1>1. ASSUME NEW s \in Syncs, NEW p \in Sites, NEW path \in Paths \cup {NoPath}, EditRow(p, path, s)
      PROVE  AloneInv'
  BY <1>1, LaunchIsRead DEF EditRow, Relocate
<1>2. ASSUME NEW s \in Syncs, ReadRows(s) \/ Open(s) \/ Write(s) \/ Reload(s)
      PROVE  AloneInv'
  BY <1>2, ReadAlone, PushAlone, ReloadAlone
<1>3. ASSUME NEW s \in Syncs, PushFails(s) \/ ReloadFails(s)
      PROVE  AloneInv'
  <2>1. Pushing(s) /\ Retry(s) /\ base' = base
    BY <1>3 DEF PushFails, ReloadFails, Pushing
  <2>2. QED
    BY <2>1, RetryAlone
<1>4. ASSUME behind' PROVE AloneInv'
  BY <1>4 DEF AloneInv
<1>5. CASE UNCHANGED nvars
  BY <1>5 DEF nvars, FreshInv, AloneInv, Pushing, Waiting, Quiet, Locations
<1>6. ASSUME NEW s \in Syncs, Launch(s) PROVE AloneInv'
  BY <1>6, LaunchIsRead DEF Launch
<1>7. QED
  BY <1>1, <1>2, <1>3, <1>4, <1>5, <1>6 DEF NginxNext, SyncStep, EditQuietly, ReadFails, Die

\* For any number of projects, Syncs and failures: when every Sync has ended,
\* nginx runs the locations of the rows, unless the last to read them read them
\* beside a push, or since then one gave up, a query failed, the server died or a
\* row changed without a Sync.
THEOREM SettledIsFreshHolds == NginxSpec => []SettledIsFresh
<1>1. FreshInv => SettledIsFresh
  BY DEF FreshInv, AloneInv, SettledIsFresh, Pushing, Waiting, Quiet
<1>2. QED
  BY <1>1, InitFreshInv, NextFreshInv, PTL DEF NginxSpec

-----------------------------------------------------------------------------
(* RowBrowser *)

Busy(e) == editor[e].pc # "free"
Fresh(snapshot, t) == snapshot[t] = First(tables[t], Snapshot)

\* An edit in flight, and the column tabs it read.
EditShape(x) ==
    \/ x = NoEdit
    \/ x \in [pc : {"tabs"}, t : Tables]
    \/ x.pc \in {"items", "write"} /\ x.t \in Tables /\ DOMAIN x.tabs = Tables
       /\ x = [pc |-> x.pc, t |-> x.t, tabs |-> x.tabs]

\* Tables without doubt: edits that overlap have spoilt theirs; what nobody edits
\* has a fresh snapshot; and whatever an edit read of the column is still fresh,
\* its own table included once it has read it.
SnapshotInv ==
    /\ DOMAIN editor = Editors /\ DOMAIN tables = Tables /\ DOMAIN tabs = Tables
    /\ \A e \in Editors : EditShape(editor[e])
    /\ \A e, f \in Editors : e # f /\ Busy(e) /\ Busy(f) => editor[e].t \in doubt
    /\ \A t \in Tables \ doubt : Fresh(tabs, t) \/ \E e \in Editors : Busy(e) /\ editor[e].t = t
    /\ \A e \in Editors, t \in Tables \ doubt :
          /\ editor[e].pc \in {"items", "write"} /\ editor[e].t # t => Fresh(editor[e].tabs, t)
          /\ editor[e].pc = "write" => Fresh(editor[e].tabs, t)

\* At start no editor has read anything.
THEOREM BrowserInitInv == BrowserInit => SnapshotInv
  BY DEF BrowserInit, SnapshotInv, EditShape, NoEdit, Busy, Fresh

LEMMA StatementInv ==
    ASSUME SnapshotInv, NEW e \in Editors, NEW t \in Tables, NEW left, NEW r, NEW a,
           Statement(e, t, left, r, a)
    PROVE  SnapshotInv'
<1> DEFINE busy == {f \in Editors \ {e} : Busy(f)}
<1>1. /\ editor[e].pc = "free" /\ tabs' = tabs
      /\ tables' = [tables EXCEPT ![t] = left]
      /\ editor' = [editor EXCEPT ![e] = [pc |-> "tabs", t |-> t]]
      /\ doubt' = IF busy = {} THEN doubt \ {t} ELSE doubt \cup {t} \cup {editor[f].t : f \in busy}
  BY DEF Statement, Busy
<1>2. /\ DOMAIN editor' = Editors /\ DOMAIN tables' = Tables /\ DOMAIN tabs' = Tables
      /\ \A f \in Editors : EditShape(editor'[f])
  BY <1>1 DEF SnapshotInv, EditShape
<1>3. Busy(e)' /\ \A f \in Editors \ {e} : editor'[f] = editor[f] /\ (Busy(f)' <=> Busy(f))
  BY <1>1 DEF SnapshotInv, Busy
<1>4. \A f, g \in Editors : f # g /\ Busy(f)' /\ Busy(g)' => editor'[f].t \in doubt'
  BY <1>1, <1>3 DEF SnapshotInv
<1>5. \A u \in Tables \ doubt' : u # t => u \notin doubt /\ First(tables'[u], Snapshot) = First(tables[u], Snapshot)
  BY <1>1 DEF SnapshotInv
<1>6. \A u \in Tables \ doubt' : Fresh(tabs, u)' \/ \E f \in Editors : Busy(f)' /\ editor'[f].t = u
  <2> SUFFICES ASSUME NEW u \in Tables \ doubt', u # t
               PROVE  Fresh(tabs, u)' \/ \E f \in Editors : Busy(f)' /\ editor'[f].t = u
    BY <1>1, <1>3 DEF SnapshotInv
  <2>1. Fresh(tabs, u) \/ \E f \in Editors : Busy(f) /\ editor[f].t = u
    BY <1>5 DEF SnapshotInv
  <2>2. ~Busy(e)
    BY <1>1 DEF Busy
  <2> QED
    BY <1>1, <1>3, <1>5, <2>1, <2>2 DEF Fresh
<1>7. ASSUME NEW f \in Editors, NEW u \in Tables \ doubt', f # e, Busy(f)
      PROVE  u # t /\ (editor[f].t # u => (Fresh(editor[f].tabs, u) => editor'[f].tabs[u] = First(tables'[u], Snapshot)))
             /\ editor[f].t # u
  BY <1>1, <1>3, <1>5, <1>7 DEF Fresh
<1>8. \A f \in Editors, u \in Tables \ doubt' :
          /\ editor'[f].pc \in {"items", "write"} /\ editor'[f].t # u => Fresh(editor[f].tabs, u)'
          /\ editor'[f].pc = "write" => Fresh(editor[f].tabs, u)'
  <2> SUFFICES ASSUME NEW f \in Editors, NEW u \in Tables \ doubt', editor'[f].pc \in {"items", "write"}
               PROVE  Fresh(editor[f].tabs, u)'
    OBVIOUS
  <2>1. f # e
    BY <1>1 DEF SnapshotInv
  <2>2. Busy(f) /\ editor'[f] = editor[f]
    BY <1>3, <2>1 DEF Busy
  <2>3. u # t /\ editor[f].t # u
    BY <1>7, <2>1, <2>2
  <2>4. Fresh(editor[f].tabs, u)
    BY <1>5, <2>2, <2>3 DEF SnapshotInv
  <2> QED
    BY <1>5, <2>2, <2>3, <2>4 DEF Fresh
<1> QED
  BY <1>2, <1>4, <1>6, <1>8 DEF SnapshotInv

LEMMA ReadTabsInv == ASSUME SnapshotInv, NEW e \in Editors, ReadTabs(e) PROVE SnapshotInv'
<1> PICK column \in {tabs, [u \in Tables |-> <<>>]} :
          /\ editor' = [editor EXCEPT ![e] = [pc |-> "items", t |-> editor[e].t, tabs |-> column]]
          /\ doubt' = IF column = tabs THEN doubt ELSE doubt \cup (Tables \ {editor[e].t})
  BY DEF ReadTabs
<1> DEFINE x == [pc |-> "items", t |-> editor[e].t, tabs |-> column]
<1>1. /\ editor' = [editor EXCEPT ![e] = x] /\ UNCHANGED <<tables, tabs>> /\ editor[e].pc = "tabs"
      /\ doubt \subseteq doubt'
  BY DEF ReadTabs
<1>2. editor[e].t \in Tables
  BY <1>1 DEF SnapshotInv, EditShape, NoEdit
<1>3. x.pc = "items" /\ x.t = editor[e].t /\ x.tabs = column /\ EditShape(x)
  BY <1>2 DEF EditShape, SnapshotInv
<1> HIDE DEF x
<1>4. \A f \in Editors : (Busy(f)' <=> Busy(f)) /\ editor'[f].t = editor[f].t
  BY <1>1, <1>3 DEF SnapshotInv, Busy
<1>5. \A u \in Tables \ doubt' : editor[e].t # u => Fresh(column, u)
  BY <1>1 DEF SnapshotInv, Busy
<1>6. (\A f \in Editors : EditShape(editor[f]))' /\ DOMAIN editor' = Editors
  BY <1>1, <1>3 DEF SnapshotInv, EditShape
<1>7. \A f \in Editors, u \in Tables \ doubt' :
          /\ editor'[f].pc \in {"items", "write"} /\ editor'[f].t # u => Fresh(editor[f].tabs, u)'
          /\ editor'[f].pc = "write" => Fresh(editor[f].tabs, u)'
  BY <1>1, <1>3, <1>5 DEF SnapshotInv, Fresh
<1> QED
  BY <1>1, <1>4, <1>6, <1>7 DEF SnapshotInv, Fresh

LEMMA ReadItemsInv == ASSUME SnapshotInv, NEW e \in Editors, ReadItems(e) PROVE SnapshotInv'
<1> DEFINE x == [pc |-> "write", t |-> editor[e].t, tabs |-> [editor[e].tabs EXCEPT ![editor[e].t] =
                    First(tables[editor[e].t], Snapshot)]]
<1>1. editor' = [editor EXCEPT ![e] = x] /\ UNCHANGED <<tables, tabs, doubt>> /\ editor[e].pc = "items"
  BY DEF ReadItems
<1>2. editor[e].t \in Tables /\ DOMAIN editor[e].tabs = Tables
  BY <1>1 DEF SnapshotInv, EditShape, NoEdit
<1>3. x.pc = "write" /\ x.t = editor[e].t /\ EditShape(x)
  BY <1>2 DEF EditShape, SnapshotInv
<1>5. \A u \in Tables \ doubt : Fresh(x.tabs, u)
  BY <1>1, <1>2 DEF SnapshotInv, Fresh
<1> HIDE DEF x
<1>4. \A f \in Editors : (Busy(f)' <=> Busy(f)) /\ editor'[f].t = editor[f].t
  BY <1>1, <1>3 DEF SnapshotInv, Busy
<1>6. (\A f \in Editors : EditShape(editor[f]))' /\ DOMAIN editor' = Editors
  BY <1>1, <1>3 DEF SnapshotInv, EditShape
<1>7. \A f \in Editors, u \in Tables \ doubt' :
          /\ editor'[f].pc \in {"items", "write"} /\ editor'[f].t # u => Fresh(editor[f].tabs, u)'
          /\ editor'[f].pc = "write" => Fresh(editor[f].tabs, u)'
  BY <1>1, <1>3, <1>5 DEF SnapshotInv, Fresh
<1> QED
  BY <1>1, <1>4, <1>6, <1>7 DEF SnapshotInv, Fresh

\* Fewer rows than there are: the table is in doubt.
LEMMA ReadItemsShortInv == ASSUME SnapshotInv, NEW e \in Editors, ReadItemsShort(e) PROVE SnapshotInv'
<1> DEFINE t == editor[e].t
<1> PICK n \in 0..(Len(First(tables[t], Snapshot)) - 1) :
        editor' = [editor EXCEPT ![e] =
            [pc |-> "write", t |-> t, tabs |-> [@.tabs EXCEPT ![t] = First(First(tables[t], Snapshot), n)]]]
  BY DEF ReadItemsShort
<1> DEFINE y == First(First(tables[t], Snapshot), n)
           x == [pc |-> "write", t |-> t, tabs |-> [editor[e].tabs EXCEPT ![t] = y]]
<1>1. /\ editor' = [editor EXCEPT ![e] = x] /\ UNCHANGED <<tables, tabs>> /\ editor[e].pc = "items"
      /\ doubt' = doubt \cup {t} /\ DOMAIN editor = Editors
  BY DEF ReadItemsShort, SnapshotInv
<1>2. t \in Tables /\ DOMAIN editor[e].tabs = Tables
  BY <1>1 DEF SnapshotInv, EditShape, NoEdit
<1> HIDE DEF y
<1>3. x.pc = "write" /\ x.t = t /\ EditShape(x)
  BY <1>2 DEF EditShape, SnapshotInv
<1>5. \A u \in Tables \ doubt' : Fresh(x.tabs, u)
  BY <1>1, <1>2 DEF SnapshotInv, Fresh
<1> HIDE DEF x
<1>4. \A f \in Editors : (Busy(f)' <=> Busy(f)) /\ editor'[f].t = editor[f].t
  BY <1>1, <1>3 DEF SnapshotInv, Busy
<1>6. (\A f \in Editors : EditShape(editor[f]))' /\ DOMAIN editor' = Editors
  BY <1>1, <1>3 DEF SnapshotInv, EditShape
<1>7. \A f \in Editors, u \in Tables \ doubt' :
          /\ editor'[f].pc \in {"items", "write"} /\ editor'[f].t # u => Fresh(editor[f].tabs, u)'
          /\ editor'[f].pc = "write" => Fresh(editor[f].tabs, u)'
  BY <1>1, <1>3, <1>5 DEF SnapshotInv, Fresh
<1> QED
  BY <1>1, <1>4, <1>6, <1>7 DEF SnapshotInv, Fresh

\* An edit ends, and the snapshot of its table is fresh or in doubt.
LEMMA EditEndsInv ==
    ASSUME SnapshotInv, NEW e \in Editors, editor' = [editor EXCEPT ![e] = NoEdit], tables' = tables,
           doubt \subseteq doubt', DOMAIN tabs' = Tables,
           \A u \in Tables \ doubt' : u = editor[e].t \/ tabs' # tabs => Fresh(tabs, u)'
    PROVE  SnapshotInv'
<1>1. \A f \in Editors \ {e} : editor'[f] = editor[f] /\ (Busy(f)' <=> Busy(f))
  BY DEF SnapshotInv, Busy
<1>2. ~Busy(e)' /\ editor'[e].pc = "free" /\ EditShape(editor'[e])
  BY DEF SnapshotInv, NoEdit, Busy, EditShape
<1>3. \A u \in Tables \ doubt' : Fresh(tabs, u)' \/ \E f \in Editors : Busy(f)' /\ editor'[f].t = u
  <2> SUFFICES ASSUME NEW u \in Tables \ doubt', u # editor[e].t, tabs' = tabs
               PROVE  Fresh(tabs, u)' \/ \E f \in Editors : Busy(f)' /\ editor'[f].t = u
    OBVIOUS
  <2>1. Fresh(tabs, u) \/ \E f \in Editors : Busy(f) /\ editor[f].t = u
    BY DEF SnapshotInv
  <2> QED
    BY <1>1, <2>1 DEF Fresh
<1>4. (\A f \in Editors : EditShape(editor[f]))' /\ DOMAIN editor' = Editors
  BY <1>1, <1>2 DEF SnapshotInv, EditShape
<1>5. \A f, g \in Editors : f # g /\ Busy(f)' /\ Busy(g)' => editor'[f].t \in doubt'
  BY <1>1, <1>2 DEF SnapshotInv
<1>6. \A f \in Editors, u \in Tables \ doubt' :
          /\ editor'[f].pc \in {"items", "write"} /\ editor'[f].t # u => Fresh(editor[f].tabs, u)'
          /\ editor'[f].pc = "write" => Fresh(editor[f].tabs, u)'
  BY <1>1, <1>2 DEF SnapshotInv, Fresh
<1> QED
  BY <1>3, <1>4, <1>5, <1>6 DEF SnapshotInv

LEMMA RefreshFailsInv == ASSUME SnapshotInv, NEW e \in Editors, RefreshFails(e) PROVE SnapshotInv'
  BY EditEndsInv DEF RefreshFails, SnapshotInv

LEMMA WriteTabsInv == ASSUME SnapshotInv, NEW e \in Editors, WriteTabs(e) PROVE SnapshotInv'
<1>1. DOMAIN editor[e].tabs = Tables
  BY DEF WriteTabs, SnapshotInv, EditShape, NoEdit
<1>2. \A u \in Tables \ doubt' : Fresh(tabs, u)'
  BY DEF WriteTabs, SnapshotInv, Fresh
<1> QED
  BY <1>1, <1>2, EditEndsInv DEF WriteTabs

\* Every statement, sweep and answer preserves it.
THEOREM BrowserNextInv == SnapshotInv /\ [BrowserNext]_wvars => SnapshotInv'
<1> SUFFICES ASSUME SnapshotInv, [BrowserNext]_wvars PROVE SnapshotInv'
  OBVIOUS
<1>1. CASE UNCHANGED <<tables, tabs, editor, doubt>>
  BY <1>1 DEF SnapshotInv, Busy, Fresh, EditShape
<1>2. ASSUME NEW e \in Editors, NEW t \in Tables, NEW k \in Keys,
             AddRow(e, t, k) \/ ChangeRow(e, t, k) \/ RemoveRow(e, t, k)
      PROVE  SnapshotInv'
  BY <1>2, StatementInv DEF AddRow, ChangeRow, RemoveRow
<1>3. ASSUME NEW e \in Editors,
             ReadTabs(e) \/ ReadItems(e) \/ ReadItemsShort(e) \/ RefreshFails(e) \/ WriteTabs(e)
      PROVE  SnapshotInv'
  BY <1>3, ReadTabsInv, ReadItemsInv, ReadItemsShortInv, RefreshFailsInv, WriteTabsInv
<1> QED
  BY <1>1, <1>2, <1>3 DEF BrowserNext, wvars, BeginSweep, ReadChunk, ReadChunkShort, Take, Answer

\* For any tables, editors and statements: SnapshotFresh.
THEOREM BrowserSnapshot == BrowserSpec => []SnapshotFresh
<1>1. SnapshotInv => SnapshotFresh
  BY DEF SnapshotInv, SnapshotFresh, Fresh, Busy
<1> QED
  BY <1>1, BrowserInitInv, BrowserNextInv, PTL DEF BrowserSpec

-----------------------------------------------------------------------------
(* Sweeps of RowBrowser *)

\* No key twice.
Distinct(q) == \A i, j \in DOMAIN q : q[i].key = q[j].key => i = j

\* The keys of the first n rows, and of the others.
Before(q, n) == {q[i].key : i \in {j \in DOMAIN q : j <= n}}
After(q, n) == {q[i].key : i \in {j \in DOMAIN q : j > n}}

\* Rows are taken out of a table and put into it: at most `removes` keys move
\* in front of any place, at most `adds` behind it.
Small(S, n) == IsFiniteSet(S) /\ Cardinality(S) <= n
Shifts(was, q, removes, adds) ==
    \A n \in Nat : \E X, Y :
        /\ Small(X, removes) /\ Small(Y, adds)
        /\ Before(q, n) \cap KeysOf(was) \subseteq Before(was, n) \cup X
        /\ After(q, n) \subseteq After(was, n) \cup Y

\* A row taken out.
LEMMA Removed ==
    ASSUME NEW q \in Seq(Row), NEW i \in 1..Len(q), NEW s, s = SE!RemoveAt(q, i)
    PROVE  /\ s \in Seq(Row) /\ Len(s) = Len(q) - 1
           /\ \A j \in 1..Len(s) : s[j] = IF j < i THEN q[j] ELSE q[j + 1]
<1> DEFINE a == SubSeq(q, 1, i - 1)
           b == SubSeq(q, i + 1, Len(q))
<1>1. Len(q) \in Nat /\ i \in Nat /\ i >= 1 /\ i <= Len(q) /\ \A j \in 1..Len(q) : q[j] \in Row
  BY LenProperties, ElementOfSeq
<1>2. a \in Seq(Row) /\ Len(a) = i - 1 /\ \A j \in 1..(i - 1) : a[j] = q[j]
  <2>1. \A j \in 1..(i - 1) : q[j] \in Row
    BY <1>1
  <2>2. 1 \in Int /\ i - 1 \in Int
    BY <1>1
  <2>3. /\ a \in Seq(Row) /\ Len(a) = IF 1 <= i - 1 THEN i - 1 - 1 + 1 ELSE 0
        /\ \A j \in 1..(i - 1 - 1 + 1) : a[j] = q[1 + j - 1]
    BY <2>1, <2>2, SubSeqProperties
  <2> HIDE DEF a
  <2> QED
    BY <1>1, <2>3
<1>3. b \in Seq(Row) /\ Len(b) = Len(q) - i /\ \A j \in 1..(Len(q) - i) : b[j] = q[i + j]
  <2>1. \A j \in (i + 1)..Len(q) : q[j] \in Row
    BY <1>1
  <2>2. i + 1 \in Int /\ Len(q) \in Int
    BY <1>1
  <2>3. /\ b \in Seq(Row) /\ Len(b) = IF i + 1 <= Len(q) THEN Len(q) - (i + 1) + 1 ELSE 0
        /\ \A j \in 1..(Len(q) - (i + 1) + 1) : b[j] = q[i + 1 + j - 1]
    BY <2>1, <2>2, SubSeqProperties
  <2> HIDE DEF b
  <2> QED
    BY <1>1, <2>3
<1>4. s = a \o b
  BY DEF SE!RemoveAt
<1> HIDE DEF a, b
<1>5. /\ s \in Seq(Row) /\ Len(s) = Len(a) + Len(b)
      /\ \A j \in 1..(Len(a) + Len(b)) : s[j] = IF j <= Len(a) THEN a[j] ELSE b[j - Len(a)]
  <2>1. /\ a \o b \in Seq(Row) /\ Len(a \o b) = Len(a) + Len(b)
        /\ \A j \in 1..(Len(a) + Len(b)) : (a \o b)[j] = IF j <= Len(a) THEN a[j] ELSE b[j - Len(a)]
    BY <1>2, <1>3, ConcatProperties
  <2> QED
    BY <1>4, <2>1
<1>6. \A j \in 1..(Len(q) - 1) : s[j] = IF j < i THEN q[j] ELSE q[j + 1]
  <2> TAKE j \in 1..(Len(q) - 1)
  <2>1. j \in 1..(Len(a) + Len(b)) /\ (j <= Len(a) <=> j < i)
    BY <1>1, <1>2, <1>3
  <2>2. s[j] = IF j <= Len(a) THEN a[j] ELSE b[j - Len(a)]
    BY <1>5, <2>1
  <2>3. CASE j < i
    <3>1. j \in 1..(i - 1)
      BY <1>1, <2>3
    <3> QED
      BY <1>2, <2>1, <2>2, <2>3, <3>1
  <2>4. CASE ~(j < i)
    <3>1. j - Len(a) \in 1..(Len(q) - i) /\ i + (j - Len(a)) = j + 1
      BY <1>1, <1>2, <2>4
    <3>2. b[j - Len(a)] = q[i + (j - Len(a))]
      BY <1>3, <3>1
    <3> QED
      BY <2>1, <2>2, <2>4, <3>1, <3>2
  <2> QED
    BY <2>3, <2>4
<1>7. s \in Seq(Row) /\ Len(s) = Len(q) - 1
  BY <1>1, <1>2, <1>3, <1>5
<1> QED
  BY <1>6, <1>7

\* A row put in: s is q with r at i.
With(s, q, i, r) ==
    /\ s \in Seq(Row) /\ Len(s) = Len(q) + 1
    /\ \A j \in 1..Len(s) : s[j] = IF j < i THEN q[j] ELSE IF j = i THEN r ELSE q[j - 1]

LEMMA Inserted ==
    ASSUME NEW q \in Seq(Row), NEW i \in 1..(Len(q) + 1), NEW r \in Row,
           NEW s, s = SE!InsertAt(q, i, r)
    PROVE  With(s, q, i, r)
<1> DEFINE a == SubSeq(q, 1, i - 1)
           b == SubSeq(q, i, Len(q))
           m == <<r>>
           p == a \o m
<1>1. Len(q) \in Nat /\ i \in Nat /\ i >= 1 /\ i <= Len(q) + 1 /\ \A j \in 1..Len(q) : q[j] \in Row
  BY LenProperties, ElementOfSeq
<1>2. a \in Seq(Row) /\ Len(a) = i - 1 /\ \A j \in 1..(i - 1) : a[j] = q[j]
  <2>1. \A j \in 1..(i - 1) : q[j] \in Row
    BY <1>1
  <2>2. 1 \in Int /\ i - 1 \in Int
    BY <1>1
  <2>3. /\ a \in Seq(Row) /\ Len(a) = IF 1 <= i - 1 THEN i - 1 - 1 + 1 ELSE 0
        /\ \A j \in 1..(i - 1 - 1 + 1) : a[j] = q[1 + j - 1]
    BY <2>1, <2>2, SubSeqProperties
  <2> HIDE DEF a
  <2> QED
    BY <1>1, <2>3
<1>3. b \in Seq(Row) /\ Len(b) = Len(q) - i + 1 /\ \A j \in 1..(Len(q) - i + 1) : b[j] = q[i + j - 1]
  <2>1. \A j \in i..Len(q) : q[j] \in Row
    BY <1>1
  <2>2. i \in Int /\ Len(q) \in Int
    BY <1>1
  <2>3. /\ b \in Seq(Row) /\ Len(b) = IF i <= Len(q) THEN Len(q) - i + 1 ELSE 0
        /\ \A j \in 1..(Len(q) - i + 1) : b[j] = q[i + j - 1]
    BY <2>1, <2>2, SubSeqProperties
  <2> HIDE DEF b
  <2> QED
    BY <1>1, <2>3
<1>4. m \in Seq(Row) /\ Len(m) = 1 /\ m[1] = r
  OBVIOUS
<1>7. s = p \o b
  BY DEF SE!InsertAt
<1> HIDE DEF a, b, m
<1>5. /\ p \in Seq(Row) /\ Len(p) = i
      /\ \A j \in 1..i : p[j] = IF j < i THEN q[j] ELSE r
  <2>1. /\ p \in Seq(Row) /\ Len(p) = Len(a) + Len(m)
        /\ \A j \in 1..(Len(a) + Len(m)) : p[j] = IF j <= Len(a) THEN a[j] ELSE m[j - Len(a)]
    BY <1>2, <1>4, ConcatProperties
  <2> HIDE DEF p
  <2>2. ASSUME NEW j \in 1..i PROVE p[j] = IF j < i THEN q[j] ELSE r
    <3>1. CASE j < i
      BY <1>1, <1>2, <1>4, <2>1, <3>1
    <3>2. CASE j = i
      <4>1. j - Len(a) = 1 /\ ~(j <= Len(a))
        BY <1>1, <1>2, <3>2
      <4>2. p[j] = m[j - Len(a)]
        BY <1>1, <1>2, <1>4, <2>1, <3>2, <4>1
      <4> QED
        BY <1>4, <3>2, <4>1, <4>2
    <3> QED
      BY <1>1, <3>1, <3>2
  <2> QED
    BY <1>1, <1>2, <1>4, <2>1, <2>2
<1> HIDE DEF p
<1>6. /\ s \in Seq(Row) /\ Len(s) = Len(p) + Len(b)
      /\ \A j \in 1..(Len(p) + Len(b)) :
            s[j] = IF j <= Len(p) THEN p[j] ELSE b[j - Len(p)]
  BY <1>3, <1>5, <1>7, ConcatProperties
<1>8. ASSUME NEW j \in 1..(Len(q) + 1)
      PROVE  s[j] = IF j < i THEN q[j] ELSE IF j = i THEN r ELSE q[j - 1]
  <2>1. CASE j <= i
    BY <1>1, <1>3, <1>5, <1>6, <2>1
  <2>2. CASE j > i
    <3>1. j - i \in 1..(Len(q) - i + 1) /\ i + (j - i) - 1 = j - 1 /\ ~(j <= i)
      BY <1>1, <2>2
    <3>2. s[j] = b[j - i] /\ b[j - i] = q[i + (j - i) - 1]
      BY <1>1, <1>3, <1>5, <1>6, <2>2, <3>1
    <3> QED
      BY <1>1, <2>2, <3>1, <3>2
  <2> QED
    BY <1>1, <2>1, <2>2
<1> QED
  BY <1>1, <1>3, <1>5, <1>6, <1>7, <1>8 DEF With

\* The places of a table are numbered from 1.
LEMMA Places ==
    ASSUME NEW q \in Seq(Row)
    PROVE  /\ Len(q) \in Nat /\ DOMAIN q = 1..Len(q)
           /\ \A i \in 1..Len(q) : q[i] \in Row /\ q[i].key \in Keys
<1>1. Len(q) \in Nat /\ DOMAIN q = 1..Len(q) /\ \A i \in 1..Len(q) : q[i] \in Row
  BY LenProperties, ElementOfSeq
<1> QED
  BY <1>1 DEF Row

\* Taking out a row moves the rows after it one place to the front.
LEMMA RemovedShifts ==
    ASSUME NEW q \in Seq(Row), NEW i \in 1..Len(q), NEW s, s = SE!RemoveAt(q, i), NEW n \in Nat
    PROVE  /\ i <= n => Before(s, n) \subseteq Before(q, n + 1)
           /\ i > n => Before(s, n) \subseteq Before(q, n)
           /\ After(s, n) \subseteq After(q, n)
<1>1. /\ s \in Seq(Row) /\ Len(s) = Len(q) - 1
      /\ \A j \in 1..Len(s) : s[j] = IF j < i THEN q[j] ELSE q[j + 1]
  BY Removed
<1>2. Len(q) \in Nat /\ DOMAIN q = 1..Len(q) /\ DOMAIN s = 1..Len(s)
  BY <1>1, Places
<1>3. ASSUME NEW j \in DOMAIN s, j <= n
      PROVE  /\ i <= n => s[j].key \in Before(q, n + 1)
             /\ i > n => s[j].key \in Before(q, n)
  <2>1. CASE j < i
    <3>1. j \in DOMAIN q /\ j <= n + 1 /\ s[j] = q[j]
      BY <1>1, <1>2, <1>3, <2>1
    <3> QED
      BY <1>3, <3>1 DEF Before
  <2>2. CASE j >= i
    <3>1. j + 1 \in DOMAIN q /\ j + 1 <= n + 1 /\ s[j] = q[j + 1] /\ i <= n
      BY <1>1, <1>2, <1>3, <2>2
    <3> QED
      BY <3>1 DEF Before
  <2> QED
    BY <1>2, <2>1, <2>2
<1>4. ASSUME NEW j \in DOMAIN s, j > n
      PROVE  s[j].key \in After(q, n)
  <2>1. PICK m \in {j, j + 1} : m \in DOMAIN q /\ m > n /\ s[j] = q[m]
    BY <1>1, <1>2, <1>4
  <2> QED
    BY <2>1 DEF After
<1> QED
  BY <1>3, <1>4 DEF Before, After

\* Putting in a row moves the rows from its place on one place back.
MovedBack(q, i, k, s, n) ==
    /\ i <= n => Before(s, n) \subseteq {k} \cup Before(q, n - 1)
    /\ i > n => Before(s, n) \subseteq Before(q, n)
    /\ \E x : After(s, n) \subseteq After(q, n) \cup {x}

LEMMA InsertedShifts ==
    ASSUME NEW q \in Seq(Row), NEW i \in 1..(Len(q) + 1), NEW r \in Row,
           NEW s, s = SE!InsertAt(q, i, r), NEW n \in Nat
    PROVE  MovedBack(q, i, r.key, s, n)
<1>1. /\ s \in Seq(Row) /\ Len(s) = Len(q) + 1
      /\ \A j \in 1..Len(s) : s[j] = IF j < i THEN q[j] ELSE IF j = i THEN r ELSE q[j - 1]
  <2>1. With(s, q, i, r)
    BY Inserted
  <2> QED
    BY <2>1 DEF With
<1>2. Len(q) \in Nat /\ DOMAIN q = 1..Len(q) /\ DOMAIN s = 1..Len(s)
  BY <1>1, Places
<1>3. ASSUME NEW j \in DOMAIN s, j <= n
      PROVE  /\ i <= n => s[j].key \in {r.key} \cup Before(q, n - 1)
             /\ i > n => s[j].key \in Before(q, n)
  <2>1. CASE j < i
    <3>1. j \in DOMAIN q /\ s[j] = q[j] /\ (i <= n => j <= n - 1)
      BY <1>1, <1>2, <1>3, <2>1
    <3> QED
      BY <1>3, <3>1 DEF Before
  <2>2. CASE j = i
    BY <1>1, <1>2, <1>3, <2>2
  <2>3. CASE j > i
    <3>1. j - 1 \in DOMAIN q /\ j - 1 <= n - 1 /\ s[j] = q[j - 1] /\ i <= n
      BY <1>1, <1>2, <1>3, <2>3
    <3> QED
      BY <3>1 DEF Before
  <2> QED
    BY <1>2, <2>1, <2>2, <2>3
<1>4. \E x : \A j \in DOMAIN s : j > n => s[j].key \in After(q, n) \cup {x}
  <2>1. CASE i <= n
    <3> DEFINE x == q[n].key
    <3>1. ASSUME NEW j \in DOMAIN s, j > n PROVE s[j].key \in After(q, n) \cup {x}
      <4>1. j - 1 \in DOMAIN q /\ s[j] = q[j - 1] /\ j - 1 >= n
        BY <1>1, <1>2, <2>1, <3>1
      <4>2. CASE j - 1 = n
        BY <4>1, <4>2
      <4>3. CASE j - 1 > n
        BY <4>1, <4>3 DEF After
      <4> QED
        BY <1>2, <4>1, <4>2, <4>3
    <3> HIDE DEF x
    <3> QED
      BY <3>1
  <2>2. CASE i > n
    <3>1. ASSUME NEW j \in DOMAIN s, j > n PROVE s[j].key \in After(q, n) \cup {r.key}
      <4>1. CASE j = i
        BY <1>1, <1>2, <4>1
      <4>2. CASE j # i
        <5>1. PICK m \in {j, j - 1} : m \in DOMAIN q /\ m > n /\ s[j] = q[m]
          BY <1>1, <1>2, <2>2, <3>1, <4>2
        <5> QED
          BY <5>1 DEF After
      <4> QED
        BY <4>1, <4>2
    <3> QED
      BY <3>1
  <2> QED
    BY <1>2, <2>1, <2>2
<1>5. PICK x : \A j \in DOMAIN s : j > n => s[j].key \in After(q, n) \cup {x}
  BY <1>4
<1>6. After(s, n) \subseteq After(q, n) \cup {x}
  BY <1>5 DEF After
<1>7. /\ i <= n => Before(s, n) \subseteq {r.key} \cup Before(q, n - 1)
      /\ i > n => Before(s, n) \subseteq Before(q, n)
  BY <1>3 DEF Before
<1> QED
  BY <1>6, <1>7 DEF MovedBack

\* The keys of a table are finitely many, and as many as its rows when none is
\* there twice.
LEMMA KeysCounted ==
    ASSUME NEW q \in Seq(Row)
    PROVE  /\ IsFiniteSet(KeysOf(q)) /\ KeysOf(q) \subseteq Keys
           /\ Cardinality(KeysOf(q)) \in Nat /\ Cardinality(KeysOf(q)) <= Len(q)
           /\ Distinct(q) => Cardinality(KeysOf(q)) = Len(q)
<1> DEFINE f == [i \in 1..Len(q) |-> q[i].key]
<1>1. /\ Len(q) \in Nat /\ DOMAIN q = 1..Len(q)
      /\ \A i \in 1..Len(q) : q[i].key \in Keys
  BY Places
<1>2. f \in [1..Len(q) -> KeysOf(q)] /\ f \in Surjection(1..Len(q), KeysOf(q))
  BY <1>1 DEF Surjection, KeysOf
<1>3. IsFiniteSet(1..Len(q)) /\ Cardinality(1..Len(q)) = Len(q)
  <2>1. 1 \in Int /\ Len(q) \in Int
    BY <1>1
  <2>2. IsFiniteSet(1..Len(q)) /\ Cardinality(1..Len(q)) = IF 1 > Len(q) THEN 0 ELSE Len(q) - 1 + 1
    BY <2>1, FS_Interval
  <2> QED
    BY <1>1, <2>2
<1>4. Distinct(q) => f \in Injection(1..Len(q), KeysOf(q))
  BY <1>1, <1>2 DEF Distinct, Injection, IsInjective
<1> HIDE DEF f
<1>5. /\ IsFiniteSet(KeysOf(q)) /\ Cardinality(KeysOf(q)) <= Cardinality(1..Len(q))
      /\ Cardinality(KeysOf(q)) = Cardinality(1..Len(q)) <=> f \in Injection(1..Len(q), KeysOf(q))
  BY <1>2, <1>3, FS_Surjection
<1>6. Cardinality(KeysOf(q)) \in Nat /\ KeysOf(q) \subseteq Keys
  BY <1>1, <1>5, FS_CardinalityType DEF KeysOf
<1> QED
  BY <1>3, <1>4, <1>5, <1>6

\* A set with few additions.
LEMMA Grown ==
    ASSUME NEW S, NEW X, NEW T, NEW n \in Nat, IsFiniteSet(S), Small(X, n), T \subseteq S \cup X
    PROVE  /\ IsFiniteSet(T) /\ Cardinality(T) \in Nat /\ Cardinality(S) \in Nat
           /\ Cardinality(T) <= Cardinality(S) + n
<1>1. IsFiniteSet(X) /\ Cardinality(X) <= n /\ Cardinality(X) \in Nat /\ Cardinality(S) \in Nat
  BY FS_CardinalityType DEF Small
<1>2. /\ IsFiniteSet(S \cup X)
      /\ Cardinality(S \cup X) = Cardinality(S) + Cardinality(X) - Cardinality(S \cap X)
  BY <1>1, FS_Union
<1>3. IsFiniteSet(S \cap X) /\ Cardinality(S \cap X) \in Nat
  BY <1>1, FS_Intersection, FS_CardinalityType
<1>4. T \in SUBSET (S \cup X)
  OBVIOUS
<1>5. IsFiniteSet(T) /\ Cardinality(T) <= Cardinality(S \cup X)
  BY <1>2, <1>4, FS_Subset
<1>6. Cardinality(T) \in Nat
  BY <1>5, FS_CardinalityType
<1> QED
  BY <1>1, <1>2, <1>3, <1>5, <1>6

\* One key.
LEMMA OneIsSmall == ASSUME NEW x PROVE Small({x}, 1)
<1>1. IsFiniteSet({x}) /\ Cardinality({x}) = 1
  BY FS_Singleton
<1> QED
  BY <1>1 DEF Small

\* No key.
LEMMA NoneIsSmall == ASSUME NEW n \in Nat PROVE Small({}, n)
<1>1. IsFiniteSet({}) /\ Cardinality({}) = 0
  BY FS_EmptySet
<1> QED
  BY <1>1 DEF Small

\* The rows before a place, one place on and one place back.
LEMMA Neighbours ==
    ASSUME NEW q \in Seq(Row), NEW n \in Nat
    PROVE  /\ \E x : Before(q, n + 1) \subseteq Before(q, n) \cup {x}
           /\ Before(q, n - 1) \subseteq Before(q, n)
           /\ Before(q, n) \subseteq KeysOf(q) /\ After(q, n) \subseteq KeysOf(q)
           /\ KeysOf(q) = Before(q, n) \cup After(q, n)
<1>1. Len(q) \in Nat /\ DOMAIN q = 1..Len(q)
  BY Places
<1>2. \A i \in DOMAIN q : i <= n + 1 => i <= n \/ i = n + 1
  BY <1>1
<1>3. Before(q, n + 1) \subseteq Before(q, n) \cup {q[n + 1].key}
  BY <1>2 DEF Before
<1>4. \A i \in DOMAIN q : (i <= n - 1 => i <= n) /\ (i <= n \/ i > n)
  BY <1>1
<1>5. /\ Before(q, n - 1) \subseteq Before(q, n)
      /\ Before(q, n) \subseteq KeysOf(q) /\ After(q, n) \subseteq KeysOf(q)
      /\ KeysOf(q) = Before(q, n) \cup After(q, n)
  BY <1>4 DEF Before, After, KeysOf
<1> QED
  BY <1>3, <1>5

\* Deleting the row of a key.
LEMMA DeletedRow ==
    ASSUME NEW q \in Seq(Row), Distinct(q), NEW k \in KeysOf(q), NEW s, s = Without(q, k)
    PROVE  /\ s \in Seq(Row) /\ Len(s) = Len(q) - 1 /\ Distinct(s) /\ k \notin KeysOf(s)
           /\ \E i \in 1..Len(q) : s = SE!RemoveAt(q, i)
<1> DEFINE i == At(q, k)
<1>1. Len(q) \in Nat /\ DOMAIN q = 1..Len(q)
  BY Places
<1>2. \E j \in DOMAIN q : q[j].key = k
  BY DEF KeysOf
<1>3. i \in 1..Len(q) /\ q[i].key = k
  BY <1>1, <1>2 DEF At
<1>4. s = SE!RemoveAt(q, i)
  BY DEF Without
<1> HIDE DEF i
<1>5. /\ s \in Seq(Row) /\ Len(s) = Len(q) - 1
      /\ \A j \in 1..Len(s) : s[j] = IF j < i THEN q[j] ELSE q[j + 1]
  BY <1>3, <1>4, Removed
<1>6. DOMAIN s = 1..Len(s)
  BY <1>5, Places
<1> DEFINE m(j) == IF j < i THEN j ELSE j + 1
<1>7. ASSUME NEW j \in DOMAIN s PROVE m(j) \in DOMAIN q /\ m(j) # i /\ s[j] = q[m(j)]
  BY <1>1, <1>3, <1>5, <1>6
<1>8. ASSUME NEW j \in DOMAIN s, NEW l \in DOMAIN s, m(j) = m(l) PROVE j = l
  BY <1>1, <1>3, <1>5, <1>6, <1>8
<1> HIDE DEF m
<1>9. Distinct(s)
  BY <1>7, <1>8 DEF Distinct
<1>10. ASSUME NEW j \in DOMAIN s PROVE s[j].key # k
  BY <1>1, <1>3, <1>7 DEF Distinct
<1>11. k \notin KeysOf(s)
  BY <1>10 DEF KeysOf
<1> QED
  BY <1>3, <1>4, <1>5, <1>9, <1>11

\* Deleting a row moves one key at most in front of any place.
LEMMA RemoveShifts ==
    ASSUME NEW q \in Seq(Row), Distinct(q), NEW k \in KeysOf(q)
    PROVE  Shifts(q, Without(q, k), 1, 0)
<1> DEFINE s == Without(q, k)
<1>1. PICK i \in 1..Len(q) : s = SE!RemoveAt(q, i)
  BY DeletedRow
<1> HIDE DEF s
<1> SUFFICES ASSUME NEW n \in Nat
             PROVE  \E X, Y : /\ Small(X, 1) /\ Small(Y, 0)
                              /\ Before(s, n) \cap KeysOf(q) \subseteq Before(q, n) \cup X
                              /\ After(s, n) \subseteq After(q, n) \cup Y
  BY DEF Shifts, s
<1>2. /\ i <= n => Before(s, n) \subseteq Before(q, n + 1)
      /\ i > n => Before(s, n) \subseteq Before(q, n)
      /\ After(s, n) \subseteq After(q, n)
  BY <1>1, RemovedShifts
<1>3. i <= n \/ i > n
  BY Places
<1>4. PICK x : Before(q, n + 1) \subseteq Before(q, n) \cup {x}
  BY Neighbours
<1>5. Small({x}, 1) /\ Small({}, 0)
  BY OneIsSmall, NoneIsSmall
<1>6. Before(s, n) \cap KeysOf(q) \subseteq Before(q, n) \cup {x} /\ After(s, n) \subseteq After(q, n) \cup {}
  BY <1>2, <1>3, <1>4
<1> QED
  BY <1>5, <1>6

\* Inserting a row with a key the table has not.
LEMMA InsertedRow ==
    ASSUME NEW q \in Seq(Row), Distinct(q), NEW r \in Row, r.key \notin KeysOf(q), NEW s \in Placed(q, r)
    PROVE  /\ s \in Seq(Row) /\ Distinct(s)
           /\ \E i \in 1..(Len(q) + 1) : s = SE!InsertAt(q, i, r)
<1>1. PICK i \in 1..(Len(q) + 1) : s = SE!InsertAt(q, i, r)
  BY DEF Placed
<1>2. With(s, q, i, r)
  BY <1>1, Inserted
<1>3. /\ Len(q) \in Nat /\ DOMAIN q = 1..Len(q) /\ s \in Seq(Row) /\ DOMAIN s = 1..Len(s)
  BY <1>2, Places DEF With
<1> DEFINE m(j) == IF j < i THEN j ELSE j - 1
<1>4. ASSUME NEW j \in DOMAIN s, j # i PROVE m(j) \in DOMAIN q /\ s[j] = q[m(j)]
  BY <1>2, <1>3, <1>4 DEF With
<1>5. ASSUME NEW j \in DOMAIN s, NEW l \in DOMAIN s, j # i, l # i, m(j) = m(l) PROVE j = l
  BY <1>3, <1>5
<1>6. i \in DOMAIN s => s[i] = r
  BY <1>2, <1>3 DEF With
<1> HIDE DEF m
<1>7. \A j \in DOMAIN s : j # i => s[j].key \in KeysOf(q) /\ s[j].key # r.key
  BY <1>4 DEF KeysOf
<1>8. ASSUME NEW j \in DOMAIN s, NEW l \in DOMAIN s, s[j].key = s[l].key PROVE j = l
  <2>1. CASE j = i \/ l = i
    BY <1>6, <1>7, <1>8, <2>1
  <2>2. CASE j # i /\ l # i
    BY <1>4, <1>5, <1>8, <2>2 DEF Distinct
  <2> QED
    BY <2>1, <2>2
<1> QED
  BY <1>1, <1>3, <1>8 DEF Distinct

\* Inserting a row moves one key at most behind any place.
LEMMA AddShifts ==
    ASSUME NEW q \in Seq(Row), NEW r \in Row, r.key \notin KeysOf(q), NEW s \in Placed(q, r)
    PROVE  Shifts(q, s, 0, 1)
<1>1. PICK i \in 1..(Len(q) + 1) : s = SE!InsertAt(q, i, r)
  BY DEF Placed
<1> SUFFICES ASSUME NEW n \in Nat
             PROVE  \E X, Y : /\ Small(X, 0) /\ Small(Y, 1)
                              /\ Before(s, n) \cap KeysOf(q) \subseteq Before(q, n) \cup X
                              /\ After(s, n) \subseteq After(q, n) \cup Y
  BY DEF Shifts
<1>2. MovedBack(q, i, r.key, s, n)
  BY <1>1, InsertedShifts
<1>3. i <= n \/ i > n
  BY Places
<1>4. PICK x : After(s, n) \subseteq After(q, n) \cup {x}
  BY <1>2 DEF MovedBack
<1>7. Small({}, 0) /\ Small({x}, 1)
  BY OneIsSmall, NoneIsSmall
<1>5. Before(q, n - 1) \subseteq Before(q, n)
  BY Neighbours
<1>6. Before(s, n) \cap KeysOf(q) \subseteq Before(q, n) \cup {} /\ After(s, n) \subseteq After(q, n) \cup {x}
  BY <1>2, <1>3, <1>4, <1>5 DEF MovedBack
<1> QED
  BY <1>6, <1>7

\* A row that is written anew may turn up elsewhere.
LEMMA ChangeShifts ==
    ASSUME NEW q \in Seq(Row), Distinct(q), NEW k \in KeysOf(q), NEW r \in Row, r.key = k,
           NEW s \in Placed(Without(q, k), r)
    PROVE  Shifts(q, s, 1, 1)
<1> DEFINE p == Without(q, k)
<1>1. p \in Seq(Row) /\ \E i \in 1..Len(q) : p = SE!RemoveAt(q, i)
  BY DeletedRow
<1>2. PICK i \in 1..Len(q) : p = SE!RemoveAt(q, i)
  BY <1>1
<1>3. PICK l \in 1..(Len(p) + 1) : s = SE!InsertAt(p, l, r)
  BY DEF Placed
<1> HIDE DEF p
<1> SUFFICES ASSUME NEW n \in Nat
             PROVE  \E X, Y : /\ Small(X, 1) /\ Small(Y, 1)
                              /\ Before(s, n) \cap KeysOf(q) \subseteq Before(q, n) \cup X
                              /\ After(s, n) \subseteq After(q, n) \cup Y
  BY DEF Shifts
<1>4. i \in Nat /\ l \in Nat
  BY <1>1, Places
<1>5. ASSUME NEW a \in Nat
      PROVE  /\ i <= a => Before(p, a) \subseteq Before(q, a + 1)
             /\ i > a => Before(p, a) \subseteq Before(q, a)
             /\ After(p, a) \subseteq After(q, a)
  BY <1>2, RemovedShifts
<1>6. MovedBack(p, l, r.key, s, n)
  BY <1>1, <1>3, InsertedShifts
<1>7. PICK x : After(s, n) \subseteq After(p, n) \cup {x}
  BY <1>6 DEF MovedBack
<1>8. PICK y : Before(q, n + 1) \subseteq Before(q, n) \cup {y}
  BY Neighbours
<1>9. Small({x}, 1) /\ Small({y}, 1) /\ Small({k}, 1)
  BY OneIsSmall
<1>10. After(s, n) \subseteq After(q, n) \cup {x}
  BY <1>5, <1>7
<1>11. CASE l > n
  <2>1. Before(s, n) \cap KeysOf(q) \subseteq Before(q, n) \cup {y}
    BY <1>4, <1>5, <1>6, <1>8, <1>11 DEF MovedBack
  <2> QED
    BY <1>9, <1>10, <2>1
<1>12. CASE l <= n
  <2>1. n - 1 \in Nat /\ n - 1 + 1 = n
    BY <1>3, <1>4, <1>12
  <2>2. Before(p, n - 1) \subseteq Before(q, n - 1 + 1) \/ Before(p, n - 1) \subseteq Before(q, n - 1)
    BY <1>4, <1>5, <2>1
  <2>3. Before(q, n - 1) \subseteq Before(q, n)
    BY Neighbours
  <2>4. Before(s, n) \cap KeysOf(q) \subseteq Before(q, n) \cup {k}
    BY <1>6, <1>12, <2>1, <2>2, <2>3 DEF MovedBack
  <2> QED
    BY <1>9, <1>10, <2>4
<1> QED
  BY <1>4, <1>11, <1>12

\* A statement that changes nothing.
LEMMA SameShifts ==
    ASSUME NEW q, NEW removes \in Nat, NEW adds \in Nat
    PROVE  Shifts(q, q, removes, adds)
<1>1. Small({}, removes) /\ Small({}, adds)
  BY NoneIsSmall
<1>2. ASSUME NEW n \in Nat
      PROVE  \E X, Y : /\ Small(X, removes) /\ Small(Y, adds)
                       /\ Before(q, n) \cap KeysOf(q) \subseteq Before(q, n) \cup X
                       /\ After(q, n) \subseteq After(q, n) \cup Y
  <2>1. Before(q, n) \cap KeysOf(q) \subseteq Before(q, n) \cup {} /\ After(q, n) \subseteq After(q, n) \cup {}
    OBVIOUS
  <2> QED
    BY <1>1, <2>1
<1> QED
  BY <1>2 DEF Shifts

\* What the chunks read so far may have missed and shown twice: w is the sweep
\* and q the table it reads.
Sound(w, q) ==
    /\ w.there \subseteq KeysOf(q)
    /\ Cardinality((w.there \cap Before(q, w.off)) \ KeysOf(w.got)) <= w.removed
    /\ Len(w.got) - Cardinality(KeysOf(w.got)) + Cardinality(KeysOf(w.got) \cap After(q, w.off)) <= w.added

SweepShape(w) ==
    /\ DOMAIN w = {"pc", "t", "off", "got", "there", "removed", "added", "cut"}
    /\ w.pc \in {"off", "read", "done", "tooLarge"} /\ (w.pc = "read" => w.t \in Tables)
    /\ {w.off, w.removed, w.added} \subseteq Nat /\ w.got \in Seq(Row) /\ w.there \subseteq Keys

\* A statement on the table that is read.
LEMMA StatementSound ==
    ASSUME NEW w, SweepShape(w), NEW q \in Seq(Row), NEW s \in Seq(Row),
           NEW removes \in Nat, NEW adds \in Nat, Shifts(q, s, removes, adds), Sound(w, q),
           NEW v, v.there = w.there \cap KeysOf(s), v.off = w.off, v.got = w.got,
           v.removed = w.removed + removes, v.added = w.added + adds
    PROVE  Sound(v, s)
<1> DEFINE n == w.off
           G == KeysOf(w.got)
           missed == (w.there \cap Before(q, n)) \ G
           ahead == G \cap After(q, n)
<1>1. n \in Nat /\ w.removed \in Nat /\ w.added \in Nat /\ w.got \in Seq(Row)
  BY DEF SweepShape
<1>2. PICK X, Y : /\ Small(X, removes) /\ Small(Y, adds)
                  /\ Before(s, n) \cap KeysOf(q) \subseteq Before(q, n) \cup X
                  /\ After(s, n) \subseteq After(q, n) \cup Y
  BY <1>1 DEF Shifts
<1>3. IsFiniteSet(G) /\ IsFiniteSet(KeysOf(q)) /\ Cardinality(G) \in Nat /\ Len(w.got) \in Nat
  BY <1>1, KeysCounted, Places
<1>4. missed \in SUBSET KeysOf(q) /\ ahead \in SUBSET G
  BY DEF Sound
<1>5. IsFiniteSet(missed) /\ IsFiniteSet(ahead)
  BY <1>3, <1>4, FS_Subset
<1>6. Cardinality(missed) <= w.removed /\ Len(w.got) - Cardinality(G) + Cardinality(ahead) <= w.added
  BY DEF Sound
<1>7. /\ (v.there \cap Before(s, n)) \ G \subseteq missed \cup X
      /\ G \cap After(s, n) \subseteq ahead \cup Y
      /\ v.there \subseteq KeysOf(s)
  BY <1>2 DEF Sound
<1> HIDE DEF missed, ahead, G, n
<1>8. /\ Cardinality((v.there \cap Before(s, n)) \ G) \in Nat
      /\ Cardinality(missed) \in Nat
      /\ Cardinality((v.there \cap Before(s, n)) \ G) <= Cardinality(missed) + removes
  BY <1>2, <1>5, <1>7, Grown
<1>9. /\ Cardinality(G \cap After(s, n)) \in Nat
      /\ Cardinality(ahead) \in Nat
      /\ Cardinality(G \cap After(s, n)) <= Cardinality(ahead) + adds
  BY <1>2, <1>5, <1>7, Grown
<1>10. Cardinality((v.there \cap Before(s, n)) \ G) <= v.removed
  <2>1. \A a, b, bound \in Nat : b <= bound /\ a <= b + removes => a <= bound + removes
    OBVIOUS
  <2> QED
    BY <1>1, <1>6, <1>8, <2>1
<1>11. Len(w.got) - Cardinality(G) + Cardinality(G \cap After(s, n)) <= v.added
  <2> DEFINE len == Len(w.got)
             g == Cardinality(G)
             a == Cardinality(G \cap After(s, n))
             b == Cardinality(ahead)
             bound == w.added
  <2>1. {len, g, a, b, bound} \subseteq Nat /\ a <= b + adds /\ len - g + b <= bound
    BY <1>1, <1>3, <1>6, <1>9
  <2>2. v.added = bound + adds
    OBVIOUS
  <2> HIDE DEF len, g, a, b, bound
  <2>3. len - g + a <= bound + adds
    BY <2>1
  <2> QED
    BY <2>2, <2>3 DEF len, g, a, b, bound
<1> QED
  BY <1>7, <1>10, <1>11 DEF Sound, G, n

\* The first rows of a table.
Firsts(s, q, n) ==
    /\ s \in Seq(Row) /\ Len(s) = IF n < Len(q) THEN n ELSE Len(q)
    /\ \A i \in 1..Len(s) : s[i] = q[i]

LEMMA FirstRows == ASSUME NEW q \in Seq(Row), NEW n \in Nat PROVE Firsts(First(q, n), q, n)
<1> DEFINE m == IF n < Len(q) THEN n ELSE Len(q)
           s == First(q, n)
<1>1. Len(q) \in Nat /\ \A i \in 1..Len(q) : q[i] \in Row
  BY Places
<1>2. 1 \in Int /\ m \in Int /\ \A i \in 1..m : q[i] \in Row
  BY <1>1
<1>3. /\ SubSeq(q, 1, m) \in Seq(Row) /\ Len(SubSeq(q, 1, m)) = IF 1 <= m THEN m - 1 + 1 ELSE 0
      /\ \A i \in 1..(m - 1 + 1) : SubSeq(q, 1, m)[i] = q[1 + i - 1]
  BY <1>2, SubSeqProperties
<1>4. s = SubSeq(q, 1, m)
  BY DEF First
<1>5. m \in Nat
  BY <1>1
<1> HIDE DEF s, m
<1>6. s \in Seq(Row) /\ Len(s) = m /\ \A i \in 1..m : s[i] = q[i]
  BY <1>3, <1>4, <1>5
<1> QED
  BY <1>6 DEF Firsts, s, m

\* A chunk.
IsChunk(c, q, n) ==
    /\ c \in Seq(Row) /\ Len(c) \in Nat /\ Len(c) <= Chunk
    /\ n + Len(c) < Len(q) => Len(c) = Chunk
    /\ \A i \in 1..Len(c) : n + i \in DOMAIN q /\ c[i] = q[n + i]

LEMMA ChunkRows ==
    ASSUME NEW q \in Seq(Row), NEW n \in Nat
    PROVE  IsChunk(First(SubSeq(q, n + 1, Len(q)), Chunk), q, n)
<1> DEFINE tail == SubSeq(q, n + 1, Len(q))
           c == First(tail, Chunk)
<1>1. Len(q) \in Nat /\ DOMAIN q = 1..Len(q) /\ Chunk \in Nat /\ Chunk > 0
      /\ \A i \in 1..Len(q) : q[i] \in Row
  BY Places, BrowserAssumption
<1>2. n + 1 \in Int /\ Len(q) \in Int /\ \A i \in (n + 1)..Len(q) : q[i] \in Row
  BY <1>1
<1>3. /\ tail \in Seq(Row) /\ Len(tail) = IF n + 1 <= Len(q) THEN Len(q) - (n + 1) + 1 ELSE 0
      /\ \A i \in 1..(Len(q) - (n + 1) + 1) : tail[i] = q[n + 1 + i - 1]
  BY <1>2, SubSeqProperties
<1> HIDE DEF tail
<1>4. Firsts(c, tail, Chunk)
  BY <1>1, <1>3, FirstRows
<1> HIDE DEF c
<1>5. /\ c \in Seq(Row) /\ Len(c) = IF Chunk < Len(tail) THEN Chunk ELSE Len(tail)
      /\ \A i \in 1..Len(c) : c[i] = tail[i]
  BY <1>4 DEF Firsts
<1> DEFINE a == Len(q)
           b == Len(tail)
           d == Len(c)
<1>8. a \in Nat /\ Chunk \in Nat /\ Chunk > 0 /\ n \in Nat
      /\ b = (IF n + 1 <= a THEN a - (n + 1) + 1 ELSE 0) /\ d = IF Chunk < b THEN Chunk ELSE b
  BY <1>1, <1>3, <1>5
<1> HIDE DEF a, b, d
<1>9. b \in Nat /\ d \in Nat /\ d <= Chunk /\ (n + d < a => d = Chunk) /\ d <= b /\ (d > 0 => n + b = a)
  <2>1. CASE n + 1 <= a
    BY <1>8, <2>1
  <2>2. CASE ~(n + 1 <= a)
    BY <1>8, <2>2
  <2> QED
    BY <2>1, <2>2
<1>6. Len(c) \in Nat /\ Len(c) <= Chunk /\ (n + Len(c) < Len(q) => Len(c) = Chunk)
  BY <1>9 DEF a, d
<1>7. ASSUME NEW i \in 1..Len(c) PROVE n + i \in DOMAIN q /\ c[i] = q[n + i]
  <2>0. i \in 1..d
    BY DEF d
  <2>1. i \in 1..(a - (n + 1) + 1) /\ n + 1 + i - 1 = n + i /\ n + i \in 1..a
    BY <1>8, <1>9, <2>0
  <2>2. c[i] = tail[i] /\ tail[i] = q[n + 1 + i - 1]
    BY <1>3, <1>5, <2>1 DEF a
  <2> QED
    BY <1>1, <2>1, <2>2 DEF a
<1> QED
  BY <1>5, <1>6, <1>7 DEF IsChunk, c, tail

\* The keys of a chunk lie between the rows read before and those still ahead.
LEMMA ChunkKeys ==
    ASSUME NEW q \in Seq(Row), Distinct(q), NEW n \in Nat, NEW c, IsChunk(c, q, n)
    PROVE  /\ Distinct(c) /\ KeysOf(c) \subseteq After(q, n)
           /\ KeysOf(c) \cap After(q, n + Chunk) = {}
           /\ After(q, n + Chunk) \subseteq After(q, n)
           /\ Before(q, n + Chunk) \subseteq Before(q, n) \cup KeysOf(c)
<1>0. Len(c) \in Nat /\ Len(c) <= Chunk /\ (n + Len(c) < Len(q) => Len(c) = Chunk)
  BY DEF IsChunk
<1>1. DOMAIN c = 1..Len(c) /\ \A i \in 1..Len(c) : n + i \in DOMAIN q /\ c[i] = q[n + i]
  BY Places DEF IsChunk
<1>2. DOMAIN q = 1..Len(q) /\ Len(q) \in Nat /\ Chunk \in Nat
  BY Places, BrowserAssumption
<1>3. Distinct(c)
  <2> SUFFICES ASSUME NEW i \in 1..Len(c), NEW j \in 1..Len(c), c[i].key = c[j].key PROVE i = j
    BY <1>1 DEF Distinct
  <2>1. n + i = n + j
    BY <1>1 DEF Distinct
  <2>2. i \in Nat /\ j \in Nat
    BY <1>0
  <2> QED
    BY <2>1, <2>2
<1>4. ASSUME NEW i \in 1..Len(c)
      PROVE  /\ c[i].key \in After(q, n) /\ c[i].key \notin After(q, n + Chunk)
  <2>1. n + i \in DOMAIN q /\ c[i] = q[n + i]
    BY <1>1
  <2>2. n + i > n /\ ~(n + i > n + Chunk)
    BY <1>0, <1>2
  <2> QED
    BY <2>1, <2>2 DEF After, Distinct
<1>5. \A i \in DOMAIN q : i > n + Chunk => i > n
  BY <1>2
<1>6. ASSUME NEW i \in DOMAIN q, i <= n + Chunk, ~(i <= n) PROVE q[i].key \in KeysOf(c)
  <2>1. i - n \in 1..Len(c) /\ n + (i - n) = i
    <3>1. i - n \in Nat /\ i - n >= 1 /\ i - n <= Chunk /\ n + (i - n) = i /\ i <= Len(q)
      BY <1>2, <1>6
    <3>2. i - n <= Len(c)
      BY <1>0, <1>2, <3>1
    <3> QED
      BY <1>0, <3>1, <3>2
  <2>2. i - n \in DOMAIN c /\ c[i - n] = q[i]
    BY <1>1, <2>1
  <2> QED
    BY <2>2 DEF KeysOf
<1>7. KeysOf(c) \subseteq After(q, n) /\ KeysOf(c) \cap After(q, n + Chunk) = {}
  BY <1>1, <1>4 DEF KeysOf
<1>8. After(q, n + Chunk) \subseteq After(q, n) /\ Before(q, n + Chunk) \subseteq Before(q, n) \cup KeysOf(c)
  BY <1>5, <1>6 DEF After, Before
<1> QED
  BY <1>3, <1>7, <1>8

\* What is read gets longer, and so do its keys.
LEMMA JoinedKeys ==
    ASSUME NEW p \in Seq(Row), NEW c \in Seq(Row), NEW g, g = p \o c
    PROVE  g \in Seq(Row) /\ Len(g) = Len(p) + Len(c) /\ KeysOf(g) = KeysOf(p) \cup KeysOf(c)
<1>1. /\ g \in Seq(Row) /\ Len(g) = Len(p) + Len(c)
      /\ \A i \in 1..(Len(p) + Len(c)) : g[i] = IF i <= Len(p) THEN p[i] ELSE c[i - Len(p)]
  BY ConcatProperties
<1>2. /\ DOMAIN p = 1..Len(p) /\ DOMAIN c = 1..Len(c) /\ DOMAIN g = 1..Len(g)
      /\ Len(p) \in Nat /\ Len(c) \in Nat
  BY <1>1, Places
<1>3. ASSUME NEW i \in DOMAIN g PROVE g[i].key \in KeysOf(p) \cup KeysOf(c)
  <2>1. CASE i <= Len(p)
    BY <1>1, <1>2, <2>1 DEF KeysOf
  <2>2. CASE i > Len(p)
    <3>1. i - Len(p) \in DOMAIN c /\ g[i] = c[i - Len(p)]
      BY <1>1, <1>2, <2>2
    <3> QED
      BY <3>1 DEF KeysOf
  <2> QED
    BY <1>2, <2>1, <2>2
<1>4. ASSUME NEW i \in DOMAIN p PROVE p[i].key \in KeysOf(g)
  <2>1. i \in DOMAIN g /\ g[i] = p[i]
    BY <1>1, <1>2
  <2> QED
    BY <2>1 DEF KeysOf
<1>5. ASSUME NEW i \in DOMAIN c PROVE c[i].key \in KeysOf(g)
  <2>1. Len(p) + i \in DOMAIN g /\ g[Len(p) + i] = c[i]
    <3>1. Len(p) + i \in 1..(Len(p) + Len(c)) /\ ~(Len(p) + i <= Len(p)) /\ Len(p) + i - Len(p) = i
      BY <1>2
    <3> QED
      BY <1>1, <1>2, <3>1
  <2> QED
    BY <2>1 DEF KeysOf
<1>6. KeysOf(g) \subseteq KeysOf(p) \cup KeysOf(c)
  BY <1>3 DEF KeysOf
<1>7. KeysOf(p) \subseteq KeysOf(g) /\ KeysOf(c) \subseteq KeysOf(g)
  BY <1>4, <1>5 DEF KeysOf
<1> QED
  BY <1>1, <1>6, <1>7

\* One more chunk: what it shows again was ahead.
LEMMA ChunkSound ==
    ASSUME NEW w, SweepShape(w), NEW q \in Seq(Row), Distinct(q), Sound(w, q),
           NEW c, IsChunk(c, q, w.off),
           NEW v, v.there = w.there, v.off = w.off + Chunk, v.got = w.got \o c,
           v.removed = w.removed, v.added = w.added
    PROVE  Sound(v, q)
<1> DEFINE n == w.off
           m == n + Chunk
           G == KeysOf(w.got)
           K == KeysOf(c)
           H == KeysOf(v.got)
<1>1. /\ n \in Nat /\ m \in Nat /\ w.removed \in Nat /\ w.added \in Nat /\ w.got \in Seq(Row)
      /\ c \in Seq(Row)
  BY BrowserAssumption DEF SweepShape, IsChunk
<1>2. /\ Distinct(c) /\ K \subseteq After(q, n) /\ K \cap After(q, m) = {}
      /\ After(q, m) \subseteq After(q, n) /\ Before(q, m) \subseteq Before(q, n) \cup K
  BY <1>1, ChunkKeys
<1>3. v.got \in Seq(Row) /\ Len(v.got) = Len(w.got) + Len(c) /\ H = G \cup K
  BY <1>1, JoinedKeys
<1>4. /\ IsFiniteSet(G) /\ IsFiniteSet(K) /\ Cardinality(G) \in Nat /\ Len(w.got) \in Nat
      /\ Cardinality(K) = Len(c) /\ Len(c) \in Nat
  BY <1>1, <1>2, KeysCounted, Places
<1>5. IsFiniteSet(KeysOf(q)) /\ w.there \subseteq KeysOf(q)
  BY KeysCounted DEF Sound
<1>6. /\ Cardinality((w.there \cap Before(q, n)) \ G) <= w.removed
      /\ Len(w.got) - Cardinality(G) + Cardinality(G \cap After(q, n)) <= w.added
  BY DEF Sound
<1> HIDE DEF H, K, G, m, n
<1>7. Cardinality((w.there \cap Before(q, m)) \ H) <= w.removed
  <2> DEFINE S == (w.there \cap Before(q, n)) \ G
             T == (w.there \cap Before(q, m)) \ H
  <2>1. T \in SUBSET S /\ S \in SUBSET KeysOf(q)
    BY <1>2, <1>3, <1>5
  <2> HIDE DEF S, T
  <2>2. IsFiniteSet(S)
    BY <1>5, <2>1, FS_Subset
  <2>3. IsFiniteSet(T) /\ Cardinality(T) <= Cardinality(S)
    BY <2>1, <2>2, FS_Subset
  <2>4. Cardinality(T) \in Nat /\ Cardinality(S) \in Nat
    BY <2>2, <2>3, FS_CardinalityType
  <2> QED
    BY <1>1, <1>6, <2>3, <2>4 DEF S, T
<1>8. Len(v.got) - Cardinality(H) + Cardinality(H \cap After(q, m)) <= w.added
  <2> DEFINE A == G \cap After(q, n)
             B == G \cap After(q, m)
             C == G \cap K
  <2>1. H \cap After(q, m) = B /\ B \cup C \in SUBSET A /\ B \cap C = {}
    BY <1>2, <1>3
  <2>2. IsFiniteSet(A) /\ IsFiniteSet(B) /\ IsFiniteSet(C)
    BY <1>4, FS_Intersection
  <2>3. Cardinality(H) = Cardinality(G) + Cardinality(K) - Cardinality(C)
    BY <1>3, <1>4, FS_Union
  <2> HIDE DEF A, B, C
  <2>4. IsFiniteSet(B \cup C) /\ Cardinality(B \cup C) = Cardinality(B) + Cardinality(C) - Cardinality(B \cap C)
    BY <2>2, FS_Union
  <2>5. Cardinality(B \cup C) <= Cardinality(A)
    BY <2>1, <2>2, FS_Subset
  <2>6. Cardinality(B \cap C) = 0
    BY <2>1, FS_EmptySet
  <2>7. Cardinality(A) \in Nat /\ Cardinality(B) \in Nat /\ Cardinality(C) \in Nat
    BY <2>2, FS_CardinalityType
  <2>8. Len(w.got) - Cardinality(G) + Cardinality(A) <= w.added
    BY <1>6 DEF A
  <2>9. Cardinality(B) + Cardinality(C) <= Cardinality(A)
    BY <2>4, <2>5, <2>6, <2>7
  <2> DEFINE l == Len(w.got)
             g == Cardinality(G)
             k == Len(c)
             both == Cardinality(C)
             a == Cardinality(A)
             b == Cardinality(B)
             x == w.added
  <2>10. l \in Nat /\ g \in Nat /\ k \in Nat /\ both \in Nat /\ a \in Nat /\ b \in Nat /\ x \in Nat
    BY <1>1, <1>4, <2>7
  <2>11. l - g + a <= x /\ b + both <= a
    BY <2>8, <2>9
  <2>12. Len(v.got) = l + k /\ Cardinality(H) = g + k - both
    BY <1>3, <1>4, <2>3
  <2> HIDE DEF l, g, k, both, a, b, x
  <2>13. l + k - (g + k - both) + b <= x
    BY <2>10, <2>11
  <2>14. Len(v.got) - Cardinality(H) + Cardinality(B) <= w.added
    BY <2>10, <2>12, <2>13 DEF b, x
  <2> QED
    BY <2>1, <2>14
<1> QED
  BY <1>5, <1>7, <1>8 DEF Sound, H, m, n

\* Tables have no key twice, and a sweep under way is sound.
TablesInv ==
    /\ tables \in [Tables -> Seq(Row)] /\ \A t \in Tables : Distinct(tables[t])
    /\ changes \in 0..MaxChanges
SweepInv ==
    /\ TablesInv /\ SweepShape(sweep) /\ SweepComplete
    /\ sweep.pc = "read" => Sound(sweep, tables[sweep.t])

\* Before and after a sweep.
LEMMA NoSweepShape == SweepShape(NoSweep) /\ NoSweep.pc = "off"
  BY DEF SweepShape, NoSweep

\* At start tables have finitely many rows, each key once, and nothing is read.
LEMMA SweepInit == BrowserInit => SweepInv
<1> SUFFICES ASSUME BrowserInit PROVE SweepInv
  OBVIOUS
<1>1. ASSUME NEW t \in Tables PROVE tables[t] \in Seq(Row) /\ Distinct(tables[t])
  <2>1. PICK q \in UNION {SE!SetToSeqs(K) : K \in {K \in SUBSET Keys : IsFiniteSet(K)}} :
            tables[t] = [i \in DOMAIN q |-> [key |-> q[i], by |-> 0]]
    BY DEF BrowserInit
  <2>2. PICK K \in SUBSET Keys : IsFiniteSet(K) /\ q \in SE!SetToSeqs(K)
    BY <2>1
  <2> DEFINE n == Cardinality(K)
             s == [i \in 1..n |-> [key |-> q[i], by |-> 0]]
  <2>3. n \in Nat /\ q \in [1..n -> K] /\ \A i, j \in 1..n : i # j => q[i] # q[j]
    BY <2>2, FS_CardinalityType DEF SE!SetToSeqs, SE!Cardinality, Cardinality
  <2> HIDE DEF n
  <2>4. tables[t] = s
    BY <2>1, <2>3
  <2>5. \A i \in 1..n : s[i] = [key |-> q[i], by |-> 0] /\ s[i] \in Row /\ s[i].key = q[i]
    BY <2>3, BrowserAssumption DEF Row
  <2>6. DOMAIN s = 1..n
    OBVIOUS
  <2> HIDE DEF s
  <2>7. s \in [1..n -> Row]
    BY <2>5, <2>6 DEF s
  <2>8. s \in Seq(Row)
    BY <2>3, <2>7
  <2>9. Distinct(s)
    BY <2>3, <2>5, <2>6 DEF Distinct
  <2> QED
    BY <2>4, <2>8, <2>9
<1>2. tables = [t \in Tables |-> tables[t]] /\ changes \in 0..MaxChanges /\ sweep = NoSweep
  BY BrowserAssumption DEF BrowserInit
<1>3. tables \in [Tables -> Seq(Row)]
  BY <1>1, <1>2
<1> QED
  BY <1>1, <1>2, <1>3, NoSweepShape DEF SweepInv, TablesInv, SweepComplete

\* A statement of an edit, on the table that is read or on another.
LEMMA StatementSweep ==
    ASSUME SweepInv, NEW e \in Editors, NEW t \in Tables, NEW left \in Seq(Row), Distinct(left),
           NEW removes \in Nat, NEW adds \in Nat, Shifts(tables[t], left, removes, adds),
           Statement(e, t, left, removes, adds)
    PROVE  SweepInv'
<1>1. /\ changes < MaxChanges /\ changes' = changes + 1 /\ tables' = [tables EXCEPT ![t] = left]
      /\ sweep' = IF sweep.pc = "read" /\ sweep.t = t
                  THEN [sweep EXCEPT !.removed = @ + removes, !.added = @ + adds,
                                     !.there = @ \cap KeysOf(left)]
                  ELSE sweep
  BY DEF Statement
<1>2. changes + 1 \in 0..MaxChanges
  BY <1>1, BrowserAssumption DEF SweepInv, TablesInv
<1>3. TablesInv'
  BY <1>1, <1>2 DEF SweepInv, TablesInv
<1>4. CASE ~(sweep.pc = "read" /\ sweep.t = t)
  <2>1. sweep' = sweep /\ (sweep.pc = "read" => tables'[sweep.t] = tables[sweep.t])
    BY <1>1, <1>4 DEF SweepInv, TablesInv, SweepShape
  <2> QED
    BY <1>3, <2>1 DEF SweepInv, SweepComplete
<1>5. CASE sweep.pc = "read" /\ sweep.t = t
  <2> DEFINE v == [sweep EXCEPT !.removed = @ + removes, !.added = @ + adds, !.there = @ \cap KeysOf(left)]
  <2>1. sweep' = v /\ tables'[t] = left /\ SweepShape(sweep) /\ Sound(sweep, tables[t]) /\ tables[t] \in Seq(Row)
    BY <1>1, <1>5 DEF SweepInv, TablesInv
  <2>2. /\ DOMAIN v = DOMAIN sweep /\ v.pc = "read" /\ v.t = t
        /\ v.there = sweep.there \cap KeysOf(left) /\ v.off = sweep.off /\ v.got = sweep.got
        /\ v.removed = sweep.removed + removes /\ v.added = sweep.added + adds
    BY <1>5, <2>1 DEF SweepShape
  <2> HIDE DEF v
  <2>3. SweepShape(v)
    BY <1>5, <2>1, <2>2 DEF SweepShape
  <2>4. Sound(v, left)
    BY <2>1, <2>2, StatementSound
  <2> QED
    BY <1>3, <2>1, <2>2, <2>3, <2>4 DEF SweepInv, SweepComplete
<1> QED
  BY <1>4, <1>5

\* The row that the next edit writes.
LEMMA WrittenRow ==
    ASSUME TablesInv, changes < MaxChanges, NEW k \in Keys, NEW r, r = [key |-> k, by |-> changes + 1]
    PROVE  r \in Row /\ r.key = k
<1>1. changes + 1 \in 0..MaxChanges
  BY BrowserAssumption DEF TablesInv
<1> QED
  BY <1>1 DEF Row

\* InsertTableRow.
LEMMA AddRowSweep ==
    ASSUME SweepInv, NEW e \in Editors, NEW t \in Tables, NEW k \in Keys, AddRow(e, t, k)
    PROVE  SweepInv'
<1> DEFINE r == [key |-> k, by |-> changes + 1]
<1>1. PICK left \in Placed(tables[t], r) : Statement(e, t, left, 0, 1)
  BY DEF AddRow
<1>2. r \in Row /\ r.key = k
  BY <1>1, WrittenRow DEF Statement, SweepInv
<1>3. tables[t] \in Seq(Row) /\ Distinct(tables[t]) /\ r.key \notin KeysOf(tables[t])
  BY <1>2 DEF SweepInv, TablesInv, AddRow
<1> HIDE DEF r
<1>4. left \in Seq(Row) /\ Distinct(left)
  BY <1>1, <1>2, <1>3, InsertedRow
<1>5. Shifts(tables[t], left, 0, 1)
  BY <1>1, <1>2, <1>3, AddShifts
<1>6. 0 \in Nat /\ 1 \in Nat
  OBVIOUS
<1> QED
  BY <1>1, <1>4, <1>5, <1>6, StatementSweep

\* UpdateTableRow.
LEMMA ChangeRowSweep ==
    ASSUME SweepInv, NEW e \in Editors, NEW t \in Tables, NEW k \in Keys, ChangeRow(e, t, k)
    PROVE  SweepInv'
<1>1. tables[t] \in Seq(Row) /\ Distinct(tables[t]) /\ 0 \in Nat /\ 1 \in Nat
  BY DEF SweepInv, TablesInv
<1>2. CASE k \notin KeysOf(tables[t])
  <2>1. Statement(e, t, tables[t], 0, 0)
    BY <1>2 DEF ChangeRow
  <2>2. Shifts(tables[t], tables[t], 0, 0)
    BY <1>1, SameShifts
  <2> QED
    BY <1>1, <2>1, <2>2, StatementSweep
<1>3. CASE k \in KeysOf(tables[t])
  <2> DEFINE r == [key |-> k, by |-> changes + 1]
             p == Without(tables[t], k)
  <2>1. PICK left \in Placed(p, r) : Statement(e, t, left, 1, 1)
    BY <1>3 DEF ChangeRow
  <2>2. r \in Row /\ r.key = k
    BY <2>1, WrittenRow DEF Statement, SweepInv
  <2>3. p \in Seq(Row) /\ Distinct(p) /\ k \notin KeysOf(p)
    BY <1>1, <1>3, DeletedRow
  <2> HIDE DEF r
  <2>4. Shifts(tables[t], left, 1, 1)
    BY <1>1, <1>3, <2>1, <2>2, ChangeShifts
  <2> HIDE DEF p
  <2>5. left \in Seq(Row) /\ Distinct(left)
    BY <2>1, <2>2, <2>3, InsertedRow
  <2> QED
    BY <1>1, <2>1, <2>4, <2>5, StatementSweep
<1> QED
  BY <1>2, <1>3

\* DeleteTableRow.
LEMMA RemoveRowSweep ==
    ASSUME SweepInv, NEW e \in Editors, NEW t \in Tables, NEW k \in Keys, RemoveRow(e, t, k)
    PROVE  SweepInv'
<1> DEFINE left == Without(tables[t], k)
           removes == Len(tables[t]) - Len(left)
<1>1. Statement(e, t, left, removes, 0)
  BY DEF RemoveRow
<1>2. tables[t] \in Seq(Row) /\ Distinct(tables[t]) /\ Len(tables[t]) \in Nat /\ 0 \in Nat /\ 1 \in Nat
  BY Places DEF SweepInv, TablesInv
<1>3. CASE k \in KeysOf(tables[t])
  <2>1. left \in Seq(Row) /\ Distinct(left) /\ Len(left) = Len(tables[t]) - 1
    BY <1>2, <1>3, DeletedRow
  <2>2. removes = 1
    BY <1>2, <2>1
  <2>3. Shifts(tables[t], left, 1, 0)
    BY <1>2, <1>3, RemoveShifts
  <2> HIDE DEF left, removes
  <2>4. Statement(e, t, left, 1, 0)
    BY <1>1, <2>2
  <2> QED
    BY <1>2, <2>1, <2>3, <2>4, StatementSweep
<1>4. CASE k \notin KeysOf(tables[t])
  <2>1. left = tables[t]
    BY <1>4 DEF Without
  <2>2. removes = 0
    BY <1>2, <2>1
  <2>3. Shifts(tables[t], tables[t], 0, 0)
    BY <1>2, SameShifts
  <2> HIDE DEF left, removes
  <2>4. Statement(e, t, tables[t], 0, 0)
    BY <1>1, <2>1, <2>2
  <2> QED
    BY <1>2, <2>3, <2>4, StatementSweep
<1> QED
  BY <1>3, <1>4

\* A sweep begins: nothing is read, all is ahead.
LEMMA BeginSweepSweep == ASSUME SweepInv, NEW t \in Tables, BeginSweep(t) PROVE SweepInv'
<1> DEFINE v == [NoSweep EXCEPT !.pc = "read", !.t = t, !.there = KeysOf(tables[t])]
<1>1. sweep' = v /\ UNCHANGED <<tables, changes>>
  BY DEF BeginSweep
<1>2. /\ DOMAIN v = {"pc", "t", "off", "got", "there", "removed", "added", "cut"}
      /\ v.pc = "read" /\ v.t = t /\ v.there = KeysOf(tables[t]) /\ v.off = 0
      /\ v.got = <<>> /\ v.removed = 0 /\ v.added = 0
  BY DEF NoSweep
<1> HIDE DEF v
<1>3. tables[t] \in Seq(Row)
  BY DEF SweepInv, TablesInv
<1>4. SweepShape(v)
  BY <1>2, <1>3, KeysCounted DEF SweepShape
<1>5. Before(tables[t], 0) = {} /\ KeysOf(<<>>) = {} /\ Len(<<>>) = 0
  BY <1>3, Places DEF Before, KeysOf
<1>6. Cardinality({}) = 0
  BY FS_EmptySet
<1>7. Sound(v, tables[t])
  <2>1. (v.there \cap Before(tables[t], v.off)) \ KeysOf(v.got) = {} /\ KeysOf(v.got) = {} /\ Len(v.got) = 0
    BY <1>2, <1>5
  <2>2. KeysOf(v.got) \cap After(tables[t], v.off) = {}
    BY <2>1
  <2>3. Cardinality((v.there \cap Before(tables[t], v.off)) \ KeysOf(v.got)) <= v.removed
    <3>1. (v.there \cap Before(tables[t], v.off)) \ KeysOf(v.got) = {} /\ v.removed = 0
      BY <1>2, <2>1
    <3>2. Cardinality((v.there \cap Before(tables[t], v.off)) \ KeysOf(v.got)) = 0
      BY <1>6, <3>1
    <3> QED
      BY <3>1, <3>2
  <2>4. /\ Cardinality(KeysOf(v.got)) = 0 /\ Cardinality(KeysOf(v.got) \cap After(tables[t], v.off)) = 0
        /\ Len(v.got) = 0 /\ v.added = 0
    BY <1>2, <1>6, <2>1, <2>2
  <2>5. Len(v.got) - Cardinality(KeysOf(v.got)) + Cardinality(KeysOf(v.got) \cap After(tables[t], v.off)) <= v.added
    BY <2>4
  <2>6. v.there \subseteq KeysOf(tables[t])
    BY <1>2
  <2> QED
    BY <2>3, <2>5, <2>6 DEF Sound
<1> QED
  BY <1>1, <1>2, <1>4, <1>7 DEF SweepInv, TablesInv, SweepComplete

\* A chunk, and after the last one nothing is ahead.
LEMMA ReadChunkSweep == ASSUME SweepInv, ReadChunk PROVE SweepInv'
<1> DEFINE q == tables[sweep.t]
           c == First(SubSeq(q, sweep.off + 1, Len(q)), Chunk)
           end == IF LastChunk(c) THEN "done"
                  ELSE IF sweep.off + Chunk < MaxRead THEN "read" ELSE "tooLarge"
           v == [sweep EXCEPT !.got = @ \o c, !.off = @ + Chunk, !.cut = FALSE, !.pc = end]
<1>1. sweep.pc = "read" /\ sweep' = v /\ UNCHANGED <<tables, changes>>
  BY DEF ReadChunk, Take, NextRows
<1>2. /\ SweepShape(sweep) /\ sweep.t \in Tables /\ sweep.off \in Nat /\ sweep.got \in Seq(Row)
      /\ q \in Seq(Row) /\ Distinct(q) /\ Sound(sweep, q)
  BY <1>1 DEF SweepInv, TablesInv, SweepShape
<1>3. IsChunk(c, q, sweep.off) /\ c \in Seq(Row)
  BY <1>2, ChunkRows DEF IsChunk
<1>4. end \in {"read", "done", "tooLarge"} /\ (end = "done" <=> Len(c) < Chunk)
  BY DEF LastChunk
<1> HIDE DEF end, c, q
<1>5. /\ DOMAIN v = DOMAIN sweep /\ v.pc = end /\ v.t = sweep.t
      /\ v.there = sweep.there /\ v.off = sweep.off + Chunk /\ v.got = sweep.got \o c
      /\ v.removed = sweep.removed /\ v.added = sweep.added
  BY <1>2 DEF SweepShape
<1> HIDE DEF v
<1>6. v.got \in Seq(Row) /\ v.off \in Nat
  BY <1>2, <1>3, <1>5, JoinedKeys, BrowserAssumption
<1>7. SweepShape(v)
  BY <1>2, <1>4, <1>5, <1>6 DEF SweepShape
<1>8. Sound(v, q)
  BY <1>2, <1>3, <1>5, ChunkSound
<1>9. ASSUME end = "done"
      PROVE  /\ Cardinality(v.there \ KeysOf(v.got)) <= v.removed
             /\ Len(v.got) - Cardinality(KeysOf(v.got)) <= v.added
  <2>1. Len(c) \in Nat /\ Len(q) \in Nat /\ Chunk \in Nat /\ (sweep.off + Len(c) < Len(q) => Len(c) = Chunk)
    BY <1>2, <1>3, Places, BrowserAssumption DEF IsChunk
  <2>2. Len(q) <= v.off
    BY <1>2, <1>4, <1>5, <1>9, <2>1
  <2>3. \A i \in DOMAIN q : i <= v.off /\ ~(i > v.off)
    BY <1>2, <1>6, <2>1, <2>2, Places
  <2>4. Before(q, v.off) = KeysOf(q) /\ After(q, v.off) = {}
    BY <2>3 DEF Before, After, KeysOf
  <2>5. v.there \cap Before(q, v.off) = v.there /\ KeysOf(v.got) \cap After(q, v.off) = {}
    BY <1>8, <2>4 DEF Sound
  <2>6. Cardinality({}) = 0 /\ Cardinality(KeysOf(v.got)) \in Nat /\ Len(v.got) \in Nat
    BY <1>6, FS_EmptySet, KeysCounted, Places
  <2>7. /\ Cardinality(v.there \ KeysOf(v.got)) <= v.removed
        /\ Len(v.got) - Cardinality(KeysOf(v.got)) + 0 <= v.added
    BY <1>8, <2>5, <2>6 DEF Sound
  <2> QED
    BY <2>6, <2>7
<1> QED
  BY <1>1, <1>4, <1>5, <1>7, <1>8, <1>9 DEF SweepInv, TablesInv, SweepComplete, q

\* A chunk that is short is the last one.
LEMMA ShortChunkSweep == ASSUME SweepInv, ReadChunkShort PROVE SweepInv'
<1> DEFINE q == tables[sweep.t]
<1>1. PICK n \in 0..(Len(NextRows) - 1) : Take(First(NextRows, n), TRUE)
  BY DEF ReadChunkShort
<1> DEFINE c == First(NextRows, n)
           end == IF LastChunk(c) THEN "done"
                  ELSE IF sweep.off + Chunk < MaxRead THEN "read" ELSE "tooLarge"
           v == [sweep EXCEPT !.got = @ \o c, !.off = @ + Chunk, !.cut = TRUE, !.pc = end]
<1>2. sweep.pc = "read" /\ sweep' = v /\ UNCHANGED <<tables, changes>>
  BY <1>1 DEF Take
<1>3. SweepShape(sweep) /\ sweep.off \in Nat /\ sweep.got \in Seq(Row) /\ q \in Seq(Row)
  BY <1>2 DEF SweepInv, TablesInv, SweepShape
<1>4. IsChunk(NextRows, q, sweep.off)
  BY <1>3, ChunkRows DEF NextRows
<1>5. n \in Nat /\ n < Len(NextRows) /\ Len(NextRows) <= Chunk /\ NextRows \in Seq(Row)
  BY <1>4 DEF IsChunk
<1>6. c \in Seq(Row) /\ Len(c) = n
  BY <1>5, FirstRows DEF Firsts
<1>7. end = "done"
  BY <1>4, <1>5, <1>6, BrowserAssumption DEF LastChunk, IsChunk
<1> HIDE DEF end, c, q
<1>8. /\ DOMAIN v = DOMAIN sweep /\ v.pc = "done" /\ v.t = sweep.t /\ v.cut = TRUE
      /\ v.there = sweep.there /\ v.off = sweep.off + Chunk /\ v.got = sweep.got \o c
      /\ v.removed = sweep.removed /\ v.added = sweep.added
  BY <1>3, <1>7 DEF SweepShape
<1> HIDE DEF v
<1>9. v.got \in Seq(Row) /\ v.off \in Nat
  BY <1>3, <1>6, <1>8, JoinedKeys, BrowserAssumption
<1>10. SweepShape(v)
  BY <1>3, <1>8, <1>9 DEF SweepShape
<1> QED
  BY <1>2, <1>8, <1>10 DEF SweepInv, TablesInv, SweepComplete

\* Every statement, chunk and answer preserves it.
LEMMA SweepNext == SweepInv /\ [BrowserNext]_wvars => SweepInv'
<1> SUFFICES ASSUME SweepInv, [BrowserNext]_wvars PROVE SweepInv'
  OBVIOUS
<1>1. CASE UNCHANGED <<tables, sweep, changes>>
  BY <1>1 DEF SweepInv, TablesInv, SweepComplete
<1>2. ASSUME NEW e \in Editors, NEW t \in Tables, NEW k \in Keys,
             AddRow(e, t, k) \/ ChangeRow(e, t, k) \/ RemoveRow(e, t, k)
      PROVE  SweepInv'
  BY <1>2, AddRowSweep, ChangeRowSweep, RemoveRowSweep
<1>3. ASSUME NEW e \in Editors,
             ReadTabs(e) \/ ReadItems(e) \/ ReadItemsShort(e) \/ RefreshFails(e) \/ WriteTabs(e)
      PROVE  SweepInv'
  BY <1>1, <1>3 DEF ReadTabs, ReadItems, ReadItemsShort, RefreshFails, WriteTabs
<1>4. ASSUME NEW t \in Tables, BeginSweep(t) PROVE SweepInv'
  BY <1>4, BeginSweepSweep
<1>5. CASE Answer
  BY <1>5, NoSweepShape DEF Answer, SweepInv, TablesInv, SweepComplete
<1>6. CASE ReadChunk \/ ReadChunkShort
  BY <1>6, ReadChunkSweep, ShortChunkSweep
<1> QED
  BY <1>1, <1>2, <1>3, <1>4, <1>5, <1>6 DEF BrowserNext, wvars

\* For any tables, keys, editors, chunk size and place where the database puts a
\* row: SweepComplete.
THEOREM BrowserSweep == BrowserSpec => []SweepComplete
<1>1. SweepInv => SweepComplete
  BY DEF SweepInv
<1> QED
  BY <1>1, SweepInit, SweepNext, PTL DEF BrowserSpec

-----------------------------------------------------------------------------
(* Shapes of Accounts *)

Hashes == Seq(Passwords \cup Nat)
OpStages == {"free", "login", "upgrade", "change", "reset", "setChange", "setReset"}
Mishaps == {"upgradeRace", "unsaltedChange", "staleSalt"}

\* What PasswordRules has no need of: the bounds of salts and versions, and where
\* a request can be.
AccountsShape ==
    /\ row.hash \in Hashes /\ row.salt <= saltsUsed /\ row.tv <= MaxSets
    /\ \A t \in tokens : DOMAIN t = {"tv", "pw"} /\ t = [tv |-> t.tv, pw |-> t.pw] /\ t.pw \in Passwords
    /\ \A s \in Sessions : op[s].pc \in OpStages /\ op[s].salt <= saltsUsed
    /\ mishap \subseteq Mishaps

LEMMA AccountsInitShape == AccountsInit => AccountsShape
<1> SUFFICES ASSUME AccountsInit PROVE AccountsShape
  OBVIOUS
<1>1. row = [hash |-> <<secret, NoSalt>>, salt |-> NoSalt, tv |-> 0] /\ secret \in Passwords
  BY DEF AccountsInit
<1>2. row.hash \in Hashes /\ row.salt = 0 /\ row.tv = 0
  BY <1>1 DEF Hashes, NoSalt
<1>3. NoOp.pc = "free" /\ NoOp.salt = 0 /\ 0 <= MaxSets
  BY AccountsAssumption DEF NoOp
<1> QED
  BY <1>2, <1>3 DEF AccountsInit, AccountsShape, OpStages

\* What a client sends is something that could be hashed.
LEMMA SentHash ==
    ASSUME NEW p \in Passwords, NEW x \in Sent(p), NEW n \in Nat
    PROVE  x \in Hashes /\ Append(x, n) \in Hashes
<1>1. x \in Hashes
  <2>1. <<p>> \in Hashes /\ \A s \in Nat : <<p, s>> \in Hashes
    <3>1. <<p>> \in Seq(Passwords \cup Nat)
      OBVIOUS
    <3>2. ASSUME NEW s \in Nat PROVE <<p, s>> \in Seq(Passwords \cup Nat)
      <4>1. p \in Passwords \cup Nat /\ s \in Passwords \cup Nat
        OBVIOUS
      <4> QED
        BY <4>1
    <3> QED
      BY <3>1, <3>2 DEF Hashes
  <2> QED
    BY <2>1 DEF Sent
<1> QED
  BY <1>1 DEF Hashes

\* One request goes on or ends, and stores what has the shape.
LEMMA ShapeStep ==
    ASSUME AccountsInv, AccountsShape, NEW s \in Sessions, NEW o, op' = [op EXCEPT ![s] = o],
           o.pc \in OpStages, o.salt \in Nat, o.salt <= saltsUsed',
           saltsUsed' \in Nat, saltsUsed <= saltsUsed',
           row'.hash \in Hashes, row'.salt <= saltsUsed', row'.tv <= MaxSets,
           NEW x, NEW p \in Passwords, tokens' \subseteq tokens \cup {[tv |-> x, pw |-> p]},
           mishap' \subseteq Mishaps
    PROVE  AccountsShape'
<1>1. \A t \in Sessions : op'[t] = IF t = s THEN o ELSE op[t]
  BY DEF AccountsInv
<1>2. ASSUME NEW t \in Sessions PROVE op'[t].pc \in OpStages /\ op'[t].salt <= saltsUsed'
  <2>1. op[t].salt \in Nat /\ op[t].salt <= saltsUsed /\ op[t].pc \in OpStages /\ saltsUsed \in Nat
    BY DEF AccountsInv, AccountsShape, Asked
  <2> QED
    BY <1>1, <2>1
<1> DEFINE z == [tv |-> x, pw |-> p]
<1>3. DOMAIN z = {"tv", "pw"} /\ z = [tv |-> z.tv, pw |-> z.pw] /\ z.pw \in Passwords
  OBVIOUS
<1>4. \A t \in tokens' : t \in tokens \/ t = z
  OBVIOUS
<1> HIDE DEF z
<1>5. \A t \in tokens' : DOMAIN t = {"tv", "pw"} /\ t = [tv |-> t.tv, pw |-> t.pw] /\ t.pw \in Passwords
  BY <1>3, <1>4 DEF AccountsShape
<1> QED
  BY <1>2, <1>5 DEF AccountsShape

\* A request ends.
LEMMA ShapeDone ==
    ASSUME AccountsInv, AccountsShape, NEW s \in Sessions, Done(s),
           saltsUsed' \in Nat, saltsUsed <= saltsUsed',
           row'.hash \in Hashes, row'.salt <= saltsUsed', row'.tv <= MaxSets,
           NEW x, NEW p \in Passwords, tokens' \subseteq tokens \cup {[tv |-> x, pw |-> p]},
           mishap' \subseteq Mishaps
    PROVE  AccountsShape'
<1>1. NoOp.pc \in OpStages /\ NoOp.salt \in Nat /\ NoOp.salt = 0
  BY DEF NoOp, OpStages
<1>2. NoOp.salt <= saltsUsed' /\ op' = [op EXCEPT ![s] = NoOp]
  BY <1>1 DEF Done
<1> QED
  BY <1>1, <1>2, ShapeStep

\* Requests that write nothing to the row.
LEMMA ReadingShape ==
    ASSUME AccountsInv, AccountsShape, NEW s \in Sessions,
           \/ SendLogin(s) \/ SendChange(s) \/ SendReset(s) \/ Deny(s) \/ Login(s)
           \/ LoginLegacy(s) \/ ReadRow(s)
    PROVE  AccountsShape'
<1>1. PICK p \in Passwords : TRUE
  BY AccountsAssumption
<1>2. /\ saltsUsed \in Nat /\ saltsUsed <= saltsUsed /\ row.hash \in Hashes /\ row.salt \in Nat
      /\ row.salt <= saltsUsed /\ row.tv <= MaxSets /\ mishap \subseteq Mishaps
  BY DEF AccountsInv, AccountsShape
<1>3. ASSUME NEW pc \in {"login", "change", "reset"}, NEW old, NEW new, Ask(s, pc, old, new)
      PROVE  AccountsShape'
  <2> DEFINE o == [NoOp EXCEPT !.pc = pc, !.old = old, !.new = new]
  <2>1. /\ op' = [op EXCEPT ![s] = o] /\ saltsUsed' = saltsUsed /\ row' = row
        /\ tokens' = tokens /\ mishap' = mishap
    BY <1>3 DEF Ask
  <2>2. o.pc \in OpStages /\ o.salt = 0
    BY DEF NoOp, OpStages
  <2> HIDE DEF o
  <2>3. o.salt \in Nat /\ o.salt <= saltsUsed' /\ tokens' \subseteq tokens \cup {[tv |-> 0, pw |-> p]}
    BY <1>2, <2>1, <2>2
  <2> QED
    BY <1>2, <2>1, <2>2, <2>3, ShapeStep
<1>4. CASE SendLogin(s) \/ SendChange(s) \/ SendReset(s)
  BY <1>3, <1>4 DEF SendLogin, SendChange, SendReset
<1>5. CASE Deny(s)
  <2>1. Done(s) /\ saltsUsed' = saltsUsed /\ row' = row /\ tokens' = tokens /\ mishap' = mishap
    BY <1>5 DEF Deny
  <2>2. tokens' \subseteq tokens \cup {[tv |-> 0, pw |-> p]}
    BY <2>1
  <2> QED
    BY <1>2, <2>1, <2>2, ShapeDone
<1>6. CASE Login(s)
  <2>1. PICK q \in Passwords : op[s].new = <<q>>
    BY <1>6 DEF Login, AccountsInv, Asked
  <2>2. /\ Done(s) /\ saltsUsed' = saltsUsed /\ row' = row /\ mishap' = mishap
        /\ tokens' \subseteq tokens \cup {[tv |-> row.tv, pw |-> q]}
    BY <1>6, <2>1 DEF Login, Issue
  <2> QED
    BY <1>2, <2>2, ShapeDone
<1>7. CASE LoginLegacy(s) \/ ReadRow(s)
  <2>1. PICK o : /\ op' = [op EXCEPT ![s] = o] /\ o.pc \in OpStages
                 /\ o.salt \in {op[s].salt, row.salt}
    <3>1. DOMAIN op[s] = {"pc", "old", "new", "salt", "hash", "tv"} /\ DOMAIN op = Sessions
      BY DEF AccountsInv, Asked
    <3>2. CASE LoginLegacy(s)
      <4> DEFINE o == [op[s] EXCEPT !.pc = "upgrade", !.hash = row.hash, !.tv = row.tv]
      <4>1. op' = [op EXCEPT ![s] = o]
        BY <3>1, <3>2 DEF LoginLegacy
      <4>2. o.pc \in OpStages /\ o.salt = op[s].salt
        BY <3>1 DEF OpStages
      <4> HIDE DEF o
      <4> QED
        BY <4>1, <4>2
    <3>3. CASE ReadRow(s)
      <4> DEFINE o == [op[s] EXCEPT !.pc = IF @ = "change" THEN "setChange" ELSE "setReset",
                                    !.salt = row.salt]
      <4>1. op' = [op EXCEPT ![s] = o]
        BY <3>1, <3>3 DEF ReadRow
      <4>2. o.pc \in OpStages /\ o.salt = row.salt
        BY <3>1 DEF OpStages
      <4> HIDE DEF o
      <4> QED
        BY <4>1, <4>2
    <3> QED
      BY <1>7, <3>2, <3>3
  <2>2. saltsUsed' = saltsUsed /\ row' = row /\ tokens' = tokens /\ mishap' = mishap
    BY <1>7 DEF LoginLegacy, ReadRow
  <2>3. o.salt \in Nat /\ o.salt <= saltsUsed'
    BY <1>2, <2>1, <2>2 DEF AccountsInv, AccountsShape, Asked
  <2>4. tokens' \subseteq tokens \cup {[tv |-> 0, pw |-> p]}
    BY <2>2
  <2> QED
    BY <1>2, <2>1, <2>2, <2>3, <2>4, ShapeStep
<1> QED
  BY <1>4, <1>5, <1>6, <1>7

LEMMA UpgradeShape == ASSUME AccountsInv, AccountsShape, NEW s \in Sessions, Upgrade(s) PROVE AccountsShape'
<1> DEFINE n == saltsUsed + 1
<1>1. PICK p \in Passwords : op[s].new = <<p>> /\ op[s].old \in Sent(p)
  BY DEF Upgrade, AccountsInv, Asked
<1>2. /\ saltsUsed' = n /\ row' = [row EXCEPT !.salt = n, !.hash = Append(op[s].old, n)]
      /\ mishap' \subseteq mishap \cup {"upgradeRace"} /\ Done(s)
      /\ tokens' \subseteq tokens \cup {[tv |-> op[s].tv, pw |-> p]}
  BY <1>1 DEF Upgrade, Issue
<1>3. n \in Nat /\ saltsUsed <= n /\ DOMAIN row = {"hash", "salt", "tv"} /\ row.tv <= MaxSets
  BY DEF AccountsInv, AccountsShape
<1>4. row'.salt = n /\ row'.hash = Append(op[s].old, n) /\ row'.tv = row.tv
  BY <1>2, <1>3
<1>5. row'.hash \in Hashes /\ row'.salt <= saltsUsed' /\ row'.tv <= MaxSets
  BY <1>1, <1>2, <1>3, <1>4, SentHash
<1>6. mishap' \subseteq Mishaps /\ saltsUsed' \in Nat /\ saltsUsed <= saltsUsed'
  BY <1>2, <1>3 DEF AccountsShape, Mishaps
<1> QED
  BY <1>2, <1>5, <1>6, ShapeDone

\* The row after a new password.
LEMMA StoredShape ==
    ASSUME AccountsInv, AccountsShape, NEW s \in Sessions, Done(s), NEW hash \in Hashes,
           NEW salt \in Nat, salt <= saltsUsed', NEW p \in Passwords,
           Store(hash, salt, p), tokens' = tokens, saltsUsed' \in Nat, saltsUsed <= saltsUsed',
           mishap' \subseteq Mishaps
    PROVE  AccountsShape'
<1>1. row' = [hash |-> hash, salt |-> salt, tv |-> row.tv + 1] /\ row.tv < MaxSets
  BY DEF Store
<1>2. row'.hash \in Hashes /\ row'.salt <= saltsUsed' /\ row'.tv = row.tv + 1
  BY <1>1
<1>3. row'.tv <= MaxSets
  BY <1>1, <1>2, AccountsAssumption DEF AccountsInv
<1>4. tokens' \subseteq tokens \cup {[tv |-> 0, pw |-> p]}
  OBVIOUS
<1> QED
  BY <1>2, <1>3, <1>4, ShapeDone

LEMMA SetChangeShape == ASSUME AccountsInv, AccountsShape, NEW s \in Sessions, SetChange(s) PROVE AccountsShape'
<1> DEFINE o == op[s]
<1>1. PICK p \in Passwords : o.new \in Sent(p)
  BY DEF SetChange, AccountsInv, Asked
<1>2. o.salt \in Nat /\ o.salt <= saltsUsed /\ saltsUsed \in Nat /\ mishap \subseteq Mishaps
  BY DEF AccountsInv, AccountsShape, Asked
<1>3. o.new[1] = p
  BY <1>1 DEF Sent
<1>4. CASE o.salt = NoSalt
  <2>1. /\ saltsUsed' = saltsUsed + 1
        /\ Store(Append(o.new, saltsUsed'), saltsUsed', p)
        /\ mishap' \subseteq mishap \cup {"unsaltedChange"}
        /\ tokens' = tokens /\ Done(s)
    BY <1>3, <1>4 DEF SetChange
  <2>2. saltsUsed' \in Nat /\ saltsUsed <= saltsUsed' /\ saltsUsed' <= saltsUsed'
    BY <1>2, <2>1
  <2>3. mishap' \subseteq Mishaps
    BY <1>2, <2>1 DEF Mishaps
  <2>4. Append(o.new, saltsUsed') \in Hashes
    BY <1>1, <2>2, SentHash
  <2> QED
    BY <2>1, <2>2, <2>3, <2>4, StoredShape
<1>5. CASE o.salt # NoSalt
  <2> DEFINE hash == IF Clear(o.new) THEN Append(o.new, o.salt) ELSE o.new
  <2>1. /\ Store(hash, o.salt, p)
        /\ mishap' \subseteq mishap \cup {"staleSalt"}
        /\ tokens' = tokens /\ Done(s) /\ saltsUsed' = saltsUsed
    BY <1>3, <1>5 DEF SetChange
  <2>2. hash \in Hashes
    BY <1>1, <1>2, SentHash
  <2> HIDE DEF hash
  <2>3. mishap' \subseteq Mishaps /\ saltsUsed' \in Nat /\ saltsUsed <= saltsUsed' /\ o.salt <= saltsUsed'
    BY <1>2, <2>1 DEF Mishaps
  <2> QED
    BY <1>2, <2>1, <2>2, <2>3, StoredShape
<1> QED
  BY <1>4, <1>5

LEMMA SetResetShape == ASSUME AccountsInv, AccountsShape, NEW s \in Sessions, SetReset(s) PROVE AccountsShape'
<1> DEFINE o == op[s]
           hash == IF Clear(o.new) THEN Append(o.new, o.salt) ELSE o.new
<1>1. PICK p \in Passwords : o.new \in Sent(p)
  BY DEF SetReset, AccountsInv, Asked
<1>2. o.new[1] = p
  BY <1>1 DEF Sent
<1>3. /\ o.salt \in Nat /\ saltsUsed \in Nat /\ mishap \subseteq Mishaps
      /\ row.salt \in Nat /\ row.salt <= saltsUsed
  BY DEF AccountsInv, AccountsShape, Asked
<1>4. /\ Store(hash, row.salt, p)
      /\ mishap' \subseteq mishap \cup {"staleSalt"}
      /\ tokens' = tokens /\ Done(s) /\ saltsUsed' = saltsUsed
  BY <1>2 DEF SetReset
<1>5. hash \in Hashes
  BY <1>1, <1>3, SentHash
<1> HIDE DEF hash
<1>6. mishap' \subseteq Mishaps /\ saltsUsed' \in Nat /\ saltsUsed <= saltsUsed' /\ row.salt <= saltsUsed'
  BY <1>3, <1>4 DEF Mishaps
<1> QED
  BY <1>3, <1>4, <1>5, <1>6, StoredShape

\* Every step keeps the shape.
LEMMA AccountsNextShape ==
    ASSUME AccountsInv, AccountsShape, [AccountsNext]_avars PROVE AccountsShape'
<1>1. CASE UNCHANGED avars
  BY <1>1 DEF avars, AccountsShape
<1>2. CASE Expire
  <2>1. tokens' \subseteq tokens /\ UNCHANGED <<row, secret, saltsUsed, op, mishap>>
    BY <1>2 DEF Expire
  <2> QED
    BY <2>1 DEF AccountsShape
<1>3. ASSUME NEW s \in Sessions, \/ SendLogin(s) \/ SendChange(s) \/ SendReset(s) \/ Deny(s)
                                 \/ Login(s) \/ LoginLegacy(s) \/ ReadRow(s)
      PROVE  AccountsShape'
  BY <1>3, ReadingShape
<1>4. ASSUME NEW s \in Sessions, Upgrade(s) \/ SetChange(s) \/ SetReset(s)
      PROVE  AccountsShape'
  BY <1>4, UpgradeShape, SetChangeShape, SetResetShape
<1> QED
  BY <1>1, <1>2, <1>3, <1>4 DEF AccountsNext

LEMMA AccountsTyped == AccountsInv /\ AccountsShape => AccountsTypeOK
<1> SUFFICES ASSUME AccountsInv, AccountsShape PROVE AccountsTypeOK
  OBVIOUS
<1>1. /\ row = [hash |-> row.hash, salt |-> row.salt, tv |-> row.tv]
      /\ row.hash \in Hashes /\ row.salt \in 0..saltsUsed /\ row.tv \in 0..MaxSets /\ row.tv \in Nat
  BY AccountsAssumption DEF AccountsInv, AccountsShape
<1>2. row \in [hash : Seq(Passwords \cup Nat), salt : 0..saltsUsed, tv : 0..MaxSets]
  <2> DEFINE h == row.hash
             n == row.salt
             v == row.tv
  <2>1. row = [hash |-> h, salt |-> n, tv |-> v] /\ h \in Seq(Passwords \cup Nat) /\ n \in 0..saltsUsed /\ v \in 0..MaxSets
    BY <1>1 DEF Hashes
  <2> HIDE DEF h, n, v
  <2> QED
    BY <2>1
<1>3. ASSUME NEW t \in tokens PROVE t \in [tv : 0..row.tv, pw : Passwords]
  <2> DEFINE v == t.tv
             p == t.pw
  <2>1. t = [tv |-> v, pw |-> p] /\ v \in 0..row.tv /\ p \in Passwords
    BY <1>1 DEF AccountsInv, AccountsShape
  <2> HIDE DEF v, p
  <2> QED
    BY <2>1
<1> QED
  BY <1>2, <1>3 DEF AccountsTypeOK, AccountsInv, AccountsShape, OpStages, Mishaps

-----------------------------------------------------------------------------
(* Shapes of NginxSync *)

\* Attempts and counters stay in their bounds.
NginxShape ==
    /\ ToldInv
    /\ \A s \in Syncs : sync[s].try \in 0..PushAttempts
    /\ behind \in BOOLEAN /\ edits \in 0..MaxEdits /\ outages \in 0..MaxOutages

LEMMA NginxInitShape == NginxInit => NginxShape
<1>1. 0 \in 0..PushAttempts /\ 0 \in 0..MaxEdits /\ 0 \in 0..MaxOutages
  BY NginxAssumption
<1>2. Off.try = 0
  BY DEF Off
<1>3. NginxInit => \A s \in Syncs : sync[s].try \in 0..PushAttempts
  BY <1>1, <1>2 DEF NginxInit
<1>4. NginxInit => behind \in BOOLEAN /\ edits \in 0..MaxEdits /\ outages \in 0..MaxOutages
  BY <1>1 DEF NginxInit
<1> QED
  BY <1>3, <1>4, InitToldInv DEF NginxShape

LEMMA RetryShape == ASSUME NginxShape, NEW s \in Syncs, Retry(s)
                    PROVE  behind' \in BOOLEAN /\ \A t \in Syncs : sync'[t].try \in 0..PushAttempts
<1>1. sync[s].try \in 0..PushAttempts /\ DOMAIN sync = Syncs
  BY DEF NginxShape, ToldInv
<1> DEFINE o == IF sync[s].try = PushAttempts THEN Off
                ELSE [pc |-> "push", conf |-> sync[s].conf, try |-> sync[s].try + 1]
<1>2. sync' = [sync EXCEPT ![s] = o]
  BY DEF Retry
<1>3. o.try \in 0..PushAttempts
  BY <1>1, NginxAssumption DEF Off
<1> HIDE DEF o
<1>4. \A t \in Syncs : sync'[t].try \in 0..PushAttempts
  BY <1>1, <1>2, <1>3 DEF NginxShape
<1>5. behind' \in BOOLEAN
  BY DEF Retry, NginxShape
<1> QED
  BY <1>4, <1>5

LEMMA NginxNextShape == NginxShape /\ [NginxNext]_nvars => NginxShape'
<1> SUFFICES ASSUME NginxShape, [NginxNext]_nvars PROVE NginxShape'
  OBVIOUS
<1>1. ToldInv' /\ sync \in [Syncs -> [pc : {"off", "read", "push", "write", "reload"},
                                      conf : SUBSET told, try : Nat]]
  BY NextToldInv DEF NginxShape, ToldInv
<1>2. 1 \in 0..PushAttempts /\ 0 \in 0..PushAttempts
  BY NginxAssumption
<1>3. /\ edits < MaxEdits => edits + 1 \in 0..MaxEdits
      /\ outages < MaxOutages => outages + 1 \in 0..MaxOutages
  BY NginxAssumption DEF NginxShape
<1>4. CASE UNCHANGED nvars
  BY <1>1, <1>4 DEF nvars, NginxShape
<1>5. ASSUME NEW p \in Sites, NEW path \in Paths \cup {NoPath}, Relocate(p, path),
             behind' \in BOOLEAN,
             sync' = sync \/ \E s \in Syncs : sync' = [sync EXCEPT ![s].pc = "read"]
      PROVE  NginxShape'
  <2>1. \A t \in Syncs : sync'[t].try = sync[t].try
    BY <1>1, <1>5
  <2> QED
    BY <1>1, <1>3, <1>5, <2>1 DEF Relocate, NginxShape
<1>6. ASSUME NEW s \in Syncs, ReadRows(s) PROVE NginxShape'
  BY <1>1, <1>2, <1>6 DEF ReadRows, NginxShape
<1>7. ASSUME NEW s \in Syncs, ReadFails(s) PROVE NginxShape'
  <2>1. \A t \in Syncs : sync'[t].try \in 0..PushAttempts
    BY <1>1, <1>2, <1>7 DEF ReadFails, Off, NginxShape
  <2> QED
    BY <1>1, <1>3, <1>7, <2>1 DEF ReadFails, Outage, NginxShape
<1>8. ASSUME NEW s \in Syncs, Launch(s) \/ Open(s) \/ Write(s) PROVE NginxShape'
  <2>1. \A t \in Syncs : sync'[t].try = sync[t].try
    BY <1>1, <1>8 DEF Launch, Open, Write
  <2> QED
    BY <1>1, <1>8, <2>1 DEF Launch, Open, Write, NginxShape
<1>9. ASSUME NEW s \in Syncs, Reload(s) PROVE NginxShape'
  BY <1>1, <1>2, <1>9 DEF Reload, Off, NginxShape
<1>10. ASSUME NEW s \in Syncs, PushFails(s) \/ ReloadFails(s) PROVE NginxShape'
  <2>1. Retry(s) /\ edits' = edits /\ outages' \in 0..MaxOutages
    BY <1>3, <1>10 DEF PushFails, ReloadFails, Outage, NginxShape
  <2> QED
    BY <1>1, <2>1, RetryShape DEF NginxShape
<1>11. CASE Die
  BY <1>1, <1>2, <1>3, <1>11 DEF Die, Outage, Off, NginxShape
<1>12. ASSUME NEW s \in Syncs, NEW p \in Sites, NEW path \in Paths \cup {NoPath}, EditRow(p, path, s)
       PROVE  NginxShape'
  BY <1>5, <1>12 DEF EditRow, NginxShape
<1>13. ASSUME NEW p \in Sites, NEW path \in Paths \cup {NoPath}, EditQuietly(p, path)
       PROVE  NginxShape'
  BY <1>5, <1>13 DEF EditQuietly
<1> QED
  BY <1>4, <1>6, <1>7, <1>8, <1>9, <1>10, <1>11, <1>12, <1>13 DEF NginxNext, SyncStep

LEMMA NginxTyped == NginxShape => NginxTypeOK
  BY DEF NginxShape, ToldInv, NginxTypeOK

-----------------------------------------------------------------------------
(* Shapes of RowBrowser *)

\* What the column tabs hold, and what edits read of it.
Columns == [Tables -> Seq(Row)]
ColumnsInv ==
    /\ SnapshotInv /\ SweepInv
    /\ tabs \in Columns /\ doubt \subseteq Tables
    /\ \A e \in Editors : editor[e].pc \in {"items", "write"} => editor[e].tabs \in Columns

LEMMA ColumnsInit == BrowserInit => ColumnsInv
<1>1. BrowserInit => tabs \in Columns /\ doubt \subseteq Tables
  BY DEF BrowserInit, Columns
<1>2. BrowserInit => \A e \in Editors : editor[e].pc = "free"
  BY DEF BrowserInit, NoEdit
<1> QED
  BY <1>1, <1>2, BrowserInitInv, SweepInit DEF ColumnsInv

LEMMA ColumnsNext == ColumnsInv /\ [BrowserNext]_wvars => ColumnsInv'
<1> SUFFICES ASSUME ColumnsInv, [BrowserNext]_wvars PROVE ColumnsInv'
  OBVIOUS
<1>1. SnapshotInv' /\ SweepInv' /\ SnapshotInv /\ SweepInv
  BY BrowserNextInv, SweepNext DEF ColumnsInv
<1>2. DOMAIN editor = Editors /\ \A e \in Editors : editor[e].pc # "free" => editor[e].t \in Tables
  BY <1>1 DEF SnapshotInv, EditShape, NoEdit
<1>3. CASE UNCHANGED <<tabs, editor, doubt>>
  BY <1>1, <1>3 DEF ColumnsInv
<1>4. ASSUME NEW e \in Editors, NEW t \in Tables, NEW left, NEW removes, NEW adds,
             Statement(e, t, left, removes, adds)
      PROVE  ColumnsInv'
  <2> DEFINE x == [pc |-> "tabs", t |-> t]
             busy == {f \in Editors \ {e} : editor[f].pc # "free"}
  <2>1. /\ editor' = [editor EXCEPT ![e] = x] /\ tabs' = tabs /\ x.pc = "tabs"
        /\ doubt' \subseteq doubt \cup {t} \cup {editor[f].t : f \in busy}
    BY <1>4 DEF Statement
  <2>2. doubt' \subseteq Tables
    BY <1>2, <2>1 DEF ColumnsInv
  <2> HIDE DEF x, busy
  <2>3. \A f \in Editors : editor'[f].pc \in {"items", "write"} => editor'[f].tabs \in Columns
    BY <1>2, <2>1 DEF ColumnsInv
  <2> QED
    BY <1>1, <2>1, <2>2, <2>3 DEF ColumnsInv
<1>5. ASSUME NEW e \in Editors, NEW t \in Tables, NEW k \in Keys,
             AddRow(e, t, k) \/ ChangeRow(e, t, k) \/ RemoveRow(e, t, k)
      PROVE  ColumnsInv'
  BY <1>4, <1>5 DEF AddRow, ChangeRow, RemoveRow
<1>6. ASSUME NEW e \in Editors, NEW x, editor' = [editor EXCEPT ![e] = x],
             x.pc \in {"items", "write"} => x.tabs \in Columns, tabs' \in Columns, doubt' \subseteq Tables
      PROVE  ColumnsInv'
  <2>1. \A f \in Editors : editor'[f].pc \in {"items", "write"} => editor'[f].tabs \in Columns
    BY <1>2, <1>6 DEF ColumnsInv
  <2> QED
    BY <1>1, <1>6, <2>1 DEF ColumnsInv
<1>7. ASSUME NEW e \in Editors, ReadTabs(e) PROVE ColumnsInv'
  <2> PICK column \in {tabs, [u \in Tables |-> <<>>]} :
          /\ editor' = [editor EXCEPT ![e] = [pc |-> "items", t |-> editor[e].t, tabs |-> column]]
          /\ doubt' = IF column = tabs THEN doubt ELSE doubt \cup (Tables \ {editor[e].t})
    BY <1>7 DEF ReadTabs
  <2> DEFINE x == [pc |-> "items", t |-> editor[e].t, tabs |-> column]
  <2>1. editor' = [editor EXCEPT ![e] = x] /\ tabs' = tabs /\ x.tabs = column
    BY <1>7 DEF ReadTabs
  <2>2. column \in Columns /\ doubt' \subseteq Tables
    <3>1. <<>> \in Seq(Row)
      OBVIOUS
    <3>2. [u \in Tables |-> <<>>] \in Columns
      BY <3>1 DEF Columns
    <3> QED
      BY <3>2 DEF ColumnsInv
  <2> HIDE DEF x
  <2> QED
    BY <1>6, <2>1, <2>2 DEF ColumnsInv
<1>8. ASSUME NEW e \in Editors, ReadItems(e) PROVE ColumnsInv'
  <2> DEFINE u == editor[e].t
             y == [editor[e].tabs EXCEPT ![u] = First(tables[u], Snapshot)]
             x == [pc |-> "write", t |-> u, tabs |-> y]
  <2>1. editor' = [editor EXCEPT ![e] = x] /\ tabs' = tabs /\ doubt' = doubt /\ x.tabs = y
    BY <1>8 DEF ReadItems
  <2>2. u \in Tables /\ tables[u] \in Seq(Row) /\ editor[e].tabs \in Columns
    BY <1>1, <1>2, <1>8 DEF ReadItems, SweepInv, TablesInv, ColumnsInv
  <2>3. First(tables[u], Snapshot) \in Seq(Row)
    BY <2>2, FirstRows, BrowserAssumption DEF Firsts
  <2>4. y \in Columns
    BY <2>2, <2>3 DEF Columns
  <2> HIDE DEF x, y
  <2> QED
    BY <1>6, <2>1, <2>4 DEF ColumnsInv
<1>9. ASSUME NEW e \in Editors, ReadItemsShort(e) PROVE ColumnsInv'
  <2> DEFINE u == editor[e].t
             rs == First(tables[u], Snapshot)
  <2> PICK n \in 0..(Len(rs) - 1) :
        editor' = [editor EXCEPT ![e] = [pc |-> "write", t |-> u, tabs |-> [@.tabs EXCEPT ![u] = First(rs, n)]]]
    BY <1>9 DEF ReadItemsShort
  <2> DEFINE y == [editor[e].tabs EXCEPT ![u] = First(rs, n)]
             x == [pc |-> "write", t |-> u, tabs |-> y]
  <2>1. editor' = [editor EXCEPT ![e] = x] /\ tabs' = tabs /\ doubt' = doubt \cup {u} /\ x.tabs = y
    BY <1>2, <1>9 DEF ReadItemsShort
  <2>2. u \in Tables /\ tables[u] \in Seq(Row) /\ editor[e].tabs \in Columns
    BY <1>1, <1>2, <1>9 DEF ReadItemsShort, SweepInv, TablesInv, ColumnsInv
  <2>3. rs \in Seq(Row)
    BY <2>2, FirstRows, BrowserAssumption DEF Firsts
  <2>4. n \in Nat
    OBVIOUS
  <2> HIDE DEF rs
  <2>5. First(rs, n) \in Seq(Row)
    BY <2>3, <2>4, FirstRows DEF Firsts
  <2>6. y \in Columns
    BY <2>2, <2>5 DEF Columns
  <2> HIDE DEF x, y
  <2> QED
    BY <1>6, <2>1, <2>2, <2>6 DEF ColumnsInv
<1>10. ASSUME NEW e \in Editors, RefreshFails(e) \/ WriteTabs(e) PROVE ColumnsInv'
  <2>1. editor' = [editor EXCEPT ![e] = NoEdit] /\ NoEdit.pc = "free"
    BY <1>10 DEF RefreshFails, WriteTabs, NoEdit
  <2>2. tabs' \in Columns /\ doubt' \subseteq Tables
    BY <1>2, <1>10 DEF RefreshFails, WriteTabs, ColumnsInv
  <2> QED
    BY <1>6, <2>1, <2>2
<1> QED
  BY <1>3, <1>5, <1>7, <1>8, <1>10, <1>9 DEF BrowserNext, wvars, BeginSweep, ReadChunk, ReadChunkShort, Take, Answer

LEMMA BrowserTyped == ColumnsInv => BrowserTypeOK
<1> SUFFICES ASSUME ColumnsInv PROVE BrowserTypeOK
  OBVIOUS
<1>1. tables \in [Tables -> Seq(Row)] /\ tabs \in [Tables -> Seq(Row)] /\ doubt \subseteq Tables
  BY DEF ColumnsInv, SweepInv, TablesInv, Columns
<1>2. \A t \in Tables : Cardinality(KeysOf(tables[t])) = Len(tables[t])
  BY KeysCounted DEF ColumnsInv, SweepInv, TablesInv
<1>3. \A e \in Editors : editor[e].pc \in {"free", "tabs", "items", "write"}
  BY DEF ColumnsInv, SnapshotInv, EditShape, NoEdit
<1>4. /\ sweep.pc \in {"off", "read", "done", "tooLarge"} /\ sweep.got \in Seq(Row)
      /\ sweep.there \subseteq Keys /\ changes \in 0..MaxChanges
  BY DEF ColumnsInv, SweepInv, SweepShape, TablesInv
<1> QED
  BY <1>1, <1>2, <1>3, <1>4 DEF BrowserTypeOK

-----------------------------------------------------------------------------
(* All of them side by side *)

AllInv ==
    /\ AccessInv /\ AccountsInv /\ AccountsShape /\ GuessInv /\ RowsInv /\ NginxShape /\ ColumnsInv

\* Only the component in focus moves, and no other variable of theirs.
LEMMA OneMoves ==
    ASSUME [Next]_<<rest, focus>>
    PROVE  /\ [AccessNext]_xvars /\ [AccountsNext]_avars /\ [RecoveryNext]_fvars
           /\ [RowsNext]_rowvars /\ [NginxNext]_nvars /\ [BrowserNext]_wvars
  BY DEF Next, rest

\* For any people, sessions, codes, projects, Syncs and tables: RequestsTypeOK.
THEOREM RequestsTypeCorrect == Spec => []RequestsTypeOK
<1>1. Init => AllInv
  BY AccessInitInv, AccountsInitInv, AccountsInitShape, RecoveryInitInv, RowsInitInv,
     NginxInitShape, ColumnsInit DEF Init, AllInv
<1>2. AllInv /\ [Next]_<<rest, focus>> => AllInv'
  BY OneMoves, AccessNextInv, AccountsNextInv, AccountsNextShape, RecoveryNextInv, RowsNextInv,
     NginxNextShape, ColumnsNext DEF AllInv
<1>3. AllInv => RequestsTypeOK
  <2> SUFFICES ASSUME AllInv PROVE RequestsTypeOK
    OBVIOUS
  <2>1. AccountsTypeOK /\ NginxTypeOK /\ BrowserTypeOK
    BY AccountsTyped, NginxTyped, BrowserTyped DEF AllInv
  <2>2. RecoveryTypeOK
    BY DEF AllInv, GuessInv
  <2>3. AccessTypeOK
    <3>1. ASSUME NEW c \in Calls
          PROVE  call[c].kind = "none" \/
                 (/\ {call[c].by, call[c].of} \subseteq People /\ call[c].role \in Roles
                  /\ call[c].seen \cup call[c].seenOf \subseteq Account)
      BY DEF AllInv, AccessInv, Entered, NoCall
    <3> QED
      BY <3>1 DEF AllInv, AccessInv, AccessTypeOK
  <2>4. RowsTypeOK
    <3>1. ASSUME NEW s \in Slots
          PROVE  Free(s) \/ (request[s].n \in 1..asked /\ request[s].p \in Projects)
      <4>1. Remembers(request[s], asked, excused)
        BY DEF AllInv, RowsInv
      <4>2. CASE Free(s)
        BY <4>2
      <4>3. CASE ~Free(s)
        <5>1. request[s] \in Creation \cup Deletion \cup RowEdit \cup ListEdit /\ request[s].n <= asked
          BY <4>1, <4>3 DEF Remembers, Free
        <5>2. request[s].n \in 1..MaxRequests /\ request[s].p \in Projects
          BY <5>1 DEF Creation, Deletion, RowEdit, ListEdit
        <5>3. asked \in Nat
          BY DEF AllInv, RowsInv, Marks
        <5> QED
          BY <5>1, <5>2, <5>3
      <4> QED
        BY <4>2, <4>3
    <3> QED
      BY <3>1 DEF AllInv, RowsInv, TableInv, RowsTypeOK
  <2> QED
    BY <2>1, <2>2, <2>3, <2>4 DEF RequestsTypeOK
<1> QED
  BY <1>1, <1>2, <1>3, PTL DEF Spec


\* Each component alone behaves as its own module says, whatever stands beside it.
THEOREM RequestsComponents ==
    Spec => AccessSpec /\ AccountsSpec /\ RecoverySpec /\ RowsSpec /\ NginxSpec /\ BrowserSpec
<1>1. Init => AccessInit /\ AccountsInit /\ RecoveryInit /\ RowsInit /\ NginxInit /\ BrowserInit
  BY DEF Init
<1>2. [Next]_<<rest, focus>> =>
          /\ [AccessNext]_xvars /\ [AccountsNext]_avars /\ [RecoveryNext]_fvars
          /\ [RowsNext]_rowvars /\ [NginxNext]_nvars /\ [BrowserNext]_wvars
  BY OneMoves
<1> QED
  BY <1>1, <1>2, PTL
  DEF Spec, AccessSpec, AccountsSpec, RecoverySpec, RowsSpec, NginxSpec, BrowserSpec

\* So what is proved of the components holds of the system that is model-checked.
THEOREM RequestsSafe ==
    Spec => /\ [](/\ OnlyEntitled /\ PasswordRules /\ GuessesBounded /\ PortsDistinct
                  /\ SettledIsFresh /\ SnapshotFresh /\ SweepComplete)
            /\ EditsStick /\ ImplementsPublisher
  BY RequestsComponents, AccessEntitled, AccountsRules, RecoveryBounded, RowsPorts, RowsEditsStick,
     SettledIsFreshHolds, SyncImplementsPublisher, BrowserSnapshot, BrowserSweep, PTL
===============================================================================
