------------------------------- MODULE Access -------------------------------
(* Who may do what: RequireAuth reads role and status of the account when a    *)
(* request begins, the handler reads its list of projects when it checks, and  *)
(* acts in a later statement, while administrators change, disable and delete  *)
(* accounts and the first registration becomes the administrator.  Covers the  *)
(* readers of handlers/projects.go, the handlers that call CheckProjectView or *)
(* CheckProjectAccess, users.go with its resets of passwords by others,         *)
(* notifications.go and HandleRegister.                                        *)
EXTENDS Naturals, FiniteSets

CONSTANTS
    People,        \* user ids
    Apps,          \* project ids
    InText,        \* pairs <<p, q>>: p's id is a proper substring of q's id
    All, Global,   \* "all" in a list of projects; a notification of no project
    Calls,         \* requests in flight at one time
    MaxCalls       \* bound: requests

ASSUME AccessAssumption == All \notin Apps /\ Global \notin Apps /\ MaxCalls \in Nat

VARIABLES
    people,        \* table users: role, status and project_access of each row
    notes,         \* projects (or Global) that have notifications
    call,          \* call[c]: kind, caller, role of X-Role, what it may touch, and of
                   \* a reset whose password and the list it has read
    made           \* requests made

xvars == <<people, notes, call, made>>

Roles == {"super_admin", "project_admin", "viewer"}
Account == [role : Roles, active : BOOLEAN, list : SUBSET (Apps \cup {All})]
Known == DOMAIN people
NoCall == [kind |-> "none"]
Kinds == {"view", "edit", "clear", "manage", "reset"}
RowOf(u, table) == IF u \in DOMAIN table THEN {table[u]} ELSE {}
List(u) == IF u \in Known THEN people[u].list ELSE {}
WithRow(u, r) == [v \in Known \cup {u} |-> IF v = u THEN r ELSE people[v]]

\* The table holds an administrator and somebody else, or nobody yet.
AccessInit ==
    /\ \/ people = <<>>
       \/ \E a, u \in People, r \in Account :
             /\ a # u
             /\ people = [v \in {a, u} |-> IF v = u THEN r
                            ELSE [role |-> "super_admin", active |-> TRUE, list |-> {All}]]
    /\ notes = Apps \cup {Global}
    /\ call = [c \in Calls |-> NoCall]
    /\ made = 0

\* History of each request in flight: what the rows of its caller and of whose
\* password it resets were since it began, that the table was empty, and that it
\* went on after a query of a role, or a count, that found nothing.
Watched(k, table) ==
    IF k.kind = "none" THEN k
    ELSE [k EXCEPT !.seen = @ \cup RowOf(k.by, table), !.seenOf = @ \cup RowOf(k.of, table),
                   !.empty = @ \/ DOMAIN table = {}]
Request(kind, pc, u, t, role, blind) ==
    [kind |-> kind, pc |-> pc, by |-> u, of |-> t, role |-> role, may |-> {}, list |-> {},
     seen |-> RowOf(u, people), seenOf |-> RowOf(t, people), empty |-> Known = {}, blind |-> blind]
Call(c, k) ==
    /\ call[c].kind = "none" /\ made < MaxCalls /\ made' = made + 1
    /\ call' = [call EXCEPT ![c] = k]
Return(c, table) ==
    call' = [d \in Calls |-> IF d = c THEN NoCall ELSE Watched(call[d], table)]

\* RequireAuth: the role and status of the row, not of the token; then
\* RequireSuperAdmin for "manage".  t: whose password a "reset" is about.
Enter(c, u, kind, t) ==
    /\ u \in Known /\ people[u].active
    /\ kind = "manage" => people[u].role = "super_admin"
    /\ kind # "reset" => t = u
    /\ Call(c, Request(kind, "check", u, t, people[u].role, FALSE))
    /\ UNCHANGED <<people, notes>>

\* Mutant of OnList: an id is looked up in the text of the list.
OnListLike(list) == {p \in Apps : p \in list \/ \E q \in list : <<p, q>> \in InText}

\* ListProjects, GetProject, ProjectStats, CheckProjectView, CheckProjectAccess:
\* exact members of project_access; "all" means nothing to them.
OnList(list) == {p \in Apps : p \in list}

\* What a handler lets a caller touch, from X-Role and the list.
Allowed(kind, role, list) ==
    IF role = "super_admin" THEN Apps \cup {Global}
    ELSE CASE kind = "view" -> OnList(list)
           [] kind = "edit" -> IF role = "project_admin" THEN OnList(list) ELSE {}
           [] kind = "clear" -> IF All \in list THEN Apps \cup {Global}
                                ELSE OnList(list) \cup {Global}
           [] OTHER -> {}

\* The handler reads the list.  For notifications (visibleClause) it only asks
\* for "all": the statement itself reads the list.
Consult(c) ==
    LET k == call[c]
        list == IF k.kind = "clear" THEN List(k.by) \cap {All} ELSE List(k.by)
    IN  /\ k.kind \in Kinds \ {"reset"} /\ k.pc = "check"
        /\ call' = [call EXCEPT ![c].pc = "act", ![c].may = Allowed(k.kind, k.role, list)]
        /\ UNCHANGED <<people, notes, made>>

\* What the request's last statement shows or changes.
Touched(c) ==
    IF call[c].kind = "clear" THEN call[c].may \cup Allowed("clear", call[c].role, List(call[c].by))
    ELSE call[c].may

\* ResetPassword: an administrator goes on, a viewer is refused; for a project
\* administrator the target must not be an administrator.  No row and a query that
\* fails leave the role empty, which is none.
ConsultRole(c) ==
    LET k == call[c]
        Go(pc, blind) == call' = [call EXCEPT ![c].pc = pc, ![c].blind = blind]
    IN  /\ k.kind = "reset" /\ k.pc = "check"
        /\ CASE k.role = "super_admin" -> Go("act", FALSE)
             [] k.role = "project_admin" ->
                    \/ Go("mine", TRUE)
                    \/ /\ k.of \in Known
                       /\ IF people[k.of].role = "super_admin" THEN Return(c, people)
                          ELSE Go("mine", FALSE)
             [] OTHER -> Return(c, people)
        /\ UNCHANGED <<people, notes, made>>

\* usersShareProject: the caller's list, ...
ConsultOwn(c) ==
    /\ call[c].kind = "reset" /\ call[c].pc = "mine"
    /\ call' = [call EXCEPT ![c].pc = "theirs", ![c].list = List(call[c].by)]
    /\ UNCHANGED <<people, notes, made>>

\* ... and the target's: any word in both, "all" too.  A list that cannot be read
\* is empty.
ConsultTheirs(c) ==
    /\ call[c].kind = "reset" /\ call[c].pc = "theirs"
    /\ \/ Return(c, people)
       \/ /\ call[c].list \cap List(call[c].of) # {}
          /\ call' = [call EXCEPT ![c].pc = "act"]
    /\ UNCHANGED <<people, notes, made>>

\* The answer of a reader, the change of a project, or that of a password, which
\* is in Accounts.
Act(c) ==
    /\ call[c].kind \in {"view", "edit", "reset"} /\ call[c].pc = "act"
    /\ Return(c, people)
    /\ UNCHANGED <<people, notes, made>>

\* ReadNotification, ReadAllNotifications, DeleteNotification, ClearNotifications.
ClearNotes(c) ==
    /\ call[c].kind = "clear" /\ call[c].pc = "act"
    /\ notes' \in {notes \ Touched(c)} \cup {notes \ {n} : n \in Touched(c)}
    /\ Return(c, people)
    /\ UNCHANGED <<people, made>>

\* CreateUser, UpdateUser (role, status and list at once) and DeleteUser.
Manage(c) ==
    /\ call[c].kind = "manage" /\ call[c].pc = "act"
    /\ \E u \in People :
          people' \in {WithRow(u, r) : r \in Account} \cup {[v \in Known \ {u} |-> people[v]]}
    /\ Return(c, people')
    /\ UNCHANGED <<notes, made>>

\* HandleRegister counts the users; a count that fails is zero ...
FirstRole(count) == IF count = 0 THEN "super_admin" ELSE "viewer"

Count(c, u) ==
    /\ \E fails \in BOOLEAN :
          LET count == IF fails THEN 0 ELSE Cardinality(Known)
          IN  Call(c, Request("register", "act", u, u, FirstRole(count), fails))
    /\ UNCHANGED <<people, notes>>

\* ... and inserts a row, unless the name is taken.
Enrol(c) ==
    LET k == call[c]
    IN  /\ k.kind = "register"
        /\ people' = IF k.by \in Known THEN people
                     ELSE WithRow(k.by, [role |-> k.role, active |-> TRUE,
                                         list |-> IF k.role = "viewer" THEN {} ELSE {All}])
        /\ Return(c, people')
        /\ UNCHANGED <<notes, made>>

AccessNext == \E c \in Calls :
    \/ \E u, t \in People, kind \in Kinds : Enter(c, u, kind, t)
    \/ \E u \in People : Count(c, u)
    \/ Consult(c) \/ ConsultRole(c) \/ ConsultOwn(c) \/ ConsultTheirs(c)
    \/ Act(c) \/ ClearNotes(c) \/ Manage(c) \/ Enrol(c)

AccessSpec == AccessInit /\ [][AccessNext]_xvars

------------------------------------------------------------------------------
\* Rows and requests are of the shapes above.
AccessTypeOK ==
    /\ Known \subseteq People /\ \A u \in Known : people[u] \in Account
    /\ notes \subseteq Apps \cup {Global} /\ made \in 0..MaxCalls
    /\ \A c \in Calls : call[c].kind = "none" \/
          /\ {call[c].by, call[c].of} \subseteq People /\ call[c].role \in Roles
          /\ call[c].seen \cup call[c].seenOf \subseteq Account

\* What a role and a list that the caller had since the request began allow it.
Rights(c) ==
    {p \in Apps \cup {Global} : \E r, s \in call[c].seen :
        \/ r.role = "super_admin"
        \/ p \in s.list /\ (call[c].kind = "edit" => r.role = "project_admin")
        \/ call[c].kind = "clear" /\ (p = Global \/ All \in s.list)}

\* Whose password the caller may reset: an administrator everybody's, a project
\* administrator that of an account which shared a project with the caller and was
\* no administrator, for some rows that the two had since the request began.
MayReset(c) ==
    LET k == call[c]
        shared == \E s \in k.seen, t \in k.seenOf : s.list \cap t.list # {}
        lesser == \E t \in k.seenOf : t.role # "super_admin"
    IN  \E r \in k.seen :
          r.role = "super_admin" \/ (r.role = "project_admin" /\ shared /\ (lesser \/ k.blind))

\* What a request shows or changes belongs to its caller: a role and a list the
\* account had since the request began allow it (projects.go:192-239,
\* notifications.go:21-37).  Only administrators create, change and delete
\* accounts; passwords are reset as MayReset says, except that the role of the
\* target is no obstacle when the query for it found nothing or failed
\* (users.go:208-210); an account registers as administrator into a table that
\* was empty since it counted, or after a count that failed (auth.go:342-347).
OnlyEntitled == \A c \in Calls :
    /\ call[c].kind \in {"view", "edit", "clear"} /\ call[c].pc = "act" => Touched(c) \subseteq Rights(c)
    /\ call[c].kind = "manage" => \E r \in call[c].seen : r.role = "super_admin"
    /\ call[c].kind = "reset" /\ call[c].pc = "act" => MayReset(c)
    /\ call[c].kind = "register" /\ call[c].role = "super_admin" => call[c].empty \/ call[c].blind

\* "The first registered account becomes super_admin" (README.md), and no later
\* one, as long as its count of the users does not fail.  Does not hold: two
\* requests may both count none (auth.go:343).
FirstIsAdministrator ==
    [][\A c \in Calls : Enrol(c) /\ call[c].role = "super_admin" /\ ~call[c].blind =>
          Known \in {{}, {call[c].by}}]_xvars
==============================================================================
