---------------------------- MODULE ProjectRows ----------------------------
(* The rows of projects and of users.project_access under the handlers of      *)
(* handlers/projects.go, refreshOne of nginx.go and the port manager.  A       *)
(* handler reads a row in one statement and writes it in another; no           *)
(* transaction, no version column.  Contents are abstracted to the requests    *)
(* that wrote them.  Each request has an id, 1..MaxRequests.                    *)
EXTENDS Naturals, FiniteSets

CONSTANTS
    Projects,      \* project ids
    Resembles,     \* pairs <<p, q>>: p's id is a proper substring of q's id
    CloneId,       \* CloneId[p]: the id CloneProject gives to a copy of p
    Members,       \* users whose access is a list
    Slots,         \* requests in flight at one time
    PortRange,     \* StartPort..EndPort
    NoPort,        \* an empty port, smaller than any other
    MaxRequests    \* bound: requests

ASSUME RowsAssumption ==
    /\ NoPort \notin PortRange /\ PortRange \subseteq Nat
    /\ CloneId \in [Projects -> Projects] /\ MaxRequests \in Nat

VARIABLES
    rows,          \* table of projects: a function of the ids that exist
    access,        \* access[u]: project_access of u
    request,       \* request[s]: what was asked for, and what it read so far
    asked,         \* requests made
    excused        \* history: two rows may share a port

rowvars == <<rows, access, request, asked, excused>>

None == [kind |-> "none"]
Failed == [kind |-> "failed"]    \* the last request of a slot ended by a failed statement
Marks == 0..MaxRequests
Quoted == MaxRequests + 1        \* in tabs or features: the list is inside a JSON string
KeptColumns == {"text", "tags", "port"}   \* columns an update keeps unless it names them
Free(s) == request[s] \in {None, Failed}
Existing == DOMAIN rows
Present(p) == p \in Existing
Overlaid(was, columns) ==
    [c \in DOMAIN was |-> IF c \in DOMAIN columns THEN columns[c] ELSE was[c]]
Change(p, columns) == IF Present(p) THEN [rows EXCEPT ![p] = Overlaid(@, columns)] ELSE rows
Insert(p, r) ==                                     \* fails if the id exists
    [q \in Existing \cup {p} |-> IF Present(q) THEN rows[q] ELSE r]

\* Row a creation inserts: text and tags were written by request n; tabs and
\* features collect entries; wraps counts the JSON strings around the tags.
NewRow(n, port, auto) == [text |-> n, tags |-> n, port |-> port, auto |-> auto,
                          tabs |-> {}, features |-> {}, pinned |-> FALSE, wraps |-> 0]

RowsInit ==
    /\ rows = <<>>
    /\ access = [u \in Members |-> {}]
    /\ request = [s \in Slots |-> None]
    /\ asked = 0 /\ excused = FALSE

Begin(s, r) ==
    /\ Free(s) /\ asked < MaxRequests
    /\ asked' = asked + 1
    /\ request' = [request EXCEPT ![s] = r]
Finish(s) == request' = [request EXCEPT ![s] = None] /\ UNCHANGED asked

\* A request that is one statement.
AtOnce(s) == Free(s) /\ asked < MaxRequests /\ asked' = asked + 1 /\ UNCHANGED request

\* The INSERT, UPDATE or DELETE fails, or allocHost finds no machine.  AddMember,
\* RemoveMember, PinProject, the snapshot and the sync take no notice: they answer
\* as if it had been done, as when an UPDATE finds no row of the user.
WriteFails(s) ==
    /\ ~Free(s)
    /\ request' = [request EXCEPT ![s] = Failed]
    /\ UNCHANGED <<rows, access, asked, excused>>

Doing(s, kind) == ~Free(s) /\ request[s].kind = kind

------------------------------------------------------------------------------
(* Creation, deletion and ports. *)

TakenBy(p) == {rows[q].port : q \in Existing \ {p}}

\* Mutant of FreePorts: the rows are not asked, only the operating system.
AnyPort(p, found, bound) == PortRange \ bound

FreePorts(p, found, bound) == PortRange \ ({rows[q].port : q \in found \ {p}} \cup bound)

\* Allocate, under its mutex: the port the row has, or the lowest that no other
\* row has and nothing listens on (bound), or none.  found: the rows its queries
\* found, all of them unless a query failed.
Allocated(p, found, bound) ==
    LET free == FreePorts(p, found, bound)
    IN  IF p \in found /\ rows[p].port \in PortRange THEN rows[p].port
        ELSE IF free = {} THEN NoPort
        ELSE CHOOSE x \in free : \A y \in free : x <= y

\* Allocate also writes the port to a row of that id, if there is one.
WritePort(p, port) ==
    IF port = NoPort THEN rows ELSE Change(p, [port |-> port])

\* CreateProject up to Allocate; port is the one typed, if any.
AskCreate(s, p) ==
    \E typed \in PortRange \cup {NoPort}, auto \in BOOLEAN,
       found \in SUBSET Existing, bound \in SUBSET PortRange :
       LET port == IF typed = NoPort THEN Allocated(p, found, bound) ELSE typed
       IN  /\ Begin(s, [kind |-> "create", p |-> p, port |-> port, auto |-> auto,
                      seen |-> TakenBy(p), n |-> asked + 1])
           /\ rows' \in {rows} \cup (IF typed = NoPort THEN {WritePort(p, port)} ELSE {})
           /\ excused' = (excused \/ typed # NoPort \/ found # Existing)
           /\ UNCHANGED access

\* The INSERT of CreateProject.
InsertRow(s) ==
    /\ Doing(s, "create")
    /\ LET r == request[s]
       IN  /\ rows' = Insert(r.p, NewRow(r.n, r.port, r.auto))
           /\ excused' = (excused \/ TakenBy(r.p) # r.seen)
    /\ Finish(s) /\ UNCHANGED access

\* POST /api/runtime/ports/allocate/{id}.
AllocateRoute(s, p) ==
    /\ AtOnce(s)
    /\ \E found \in SUBSET Existing, bound \in SUBSET PortRange :
          /\ rows' \in {rows, WritePort(p, Allocated(p, found, bound))}
          /\ excused' = (excused \/ found # Existing)
    /\ UNCHANGED access

\* DeleteProject: PortMgr.Free, which ignores a failure, then the DELETE.
AskDelete(s, p) ==
    /\ Begin(s, [kind |-> "delete", p |-> p, n |-> asked + 1])
    /\ rows' \in {rows, Change(p, [port |-> NoPort])}
    /\ UNCHANGED <<access, excused>>

DeleteRow(s) ==
    /\ Doing(s, "delete")
    /\ rows' = [p \in Existing \ {request[s].p} |-> rows[p]]
    /\ Finish(s) /\ UNCHANGED <<access, excused>>

------------------------------------------------------------------------------
(* Reading a row and writing it back. *)

\* What a handler may read of a row: a snapshot and a pin go on with nothing when
\* the query fails.
Readings(p, kind) ==
    {rows[p]} \cup CASE kind = "tabs" -> {[rows[p] EXCEPT !.tabs = {}]}
                     [] kind = "pin" -> {[rows[p] EXCEPT !.pinned = FALSE]}
                     [] OTHER -> {}

\* UpdateProject and CloneProject read every column; SyncProject and refreshOne
\* the features, refreshTabsSnapshot the tabs, PinProject the flag.  A project
\* that does not exist ends an update, a clone, a sync and a snapshot alike.
AskEdit(s, p, kind) ==
    /\ Present(p)
    /\ \E named \in (IF kind = "update" THEN SUBSET KeptColumns ELSE {{}}), auto \in BOOLEAN,
          row \in Readings(p, kind) :
          /\ kind # "update" => ~auto
          /\ Begin(s, [kind |-> kind, p |-> p, named |-> named, auto |-> auto,
                     seen |-> row, n |-> asked + 1])
          /\ excused' = (excused \/ "port" \in named)
    /\ UNCHANGED <<rows, access>>

\* What UpdateProject writes: tags it did not receive are the text of the
\* column, encoded once more; auto_update is the request's even when absent.
Merged(r, port) ==
    [text  |-> IF "text" \in r.named THEN r.n ELSE r.seen.text,
     tags  |-> IF "tags" \in r.named THEN r.n ELSE r.seen.tags,
     wraps |-> IF "tags" \in r.named THEN 0 ELSE r.seen.wraps + 1,
     port  |-> IF "port" \in r.named THEN port ELSE r.seen.port,
     auto  |-> r.auto]

\* UpdateProject's UPDATE; of no row, if the project was deleted.
WriteUpdate(s) ==
    /\ Doing(s, "update")
    /\ LET r == request[s] IN
       \E port \in PortRange :
          /\ "port" \notin r.named => port = CHOOSE x \in PortRange : TRUE
          /\ rows' = Change(r.p, Merged(r, port))
          /\ excused' = (excused \/ (Present(r.p) /\ rows[r.p].port # r.seen.port))
    /\ Finish(s) /\ UNCHANGED access

\* Column an edit of one column writes, from the value it read.  A list inside a
\* string is lost to a snapshot and keeps a sync from changing it.
Edited(r) ==
    CASE r.kind = "tabs" -> [tabs |-> (IF Quoted \in r.seen.tabs THEN {} ELSE r.seen.tabs) \cup {r.n}]
      [] r.kind = "features" ->
            [features |-> IF Quoted \in r.seen.features THEN r.seen.features
                          ELSE r.seen.features \cup {r.n}]
      [] r.kind = "pin"      -> [pinned |-> ~r.seen.pinned]

WriteEdit(s) ==
    /\ \E kind \in {"tabs", "features", "pin"} : Doing(s, kind)
    /\ LET r == request[s]
       IN  rows' = Change(r.p, Edited(r))
    /\ Finish(s) /\ UNCHANGED <<access, excused>>

\* CloneProject: no port; tags, tabs and features encoded once more.
WriteClone(s) ==
    /\ Doing(s, "clone")
    /\ LET r == request[s]
           copy == [r.seen EXCEPT !.port = NoPort, !.auto = FALSE, !.wraps = @ + 1,
                                  !.tabs = @ \cup {Quoted}, !.features = @ \cup {Quoted}]
       IN  rows' = Insert(CloneId[r.p], copy)
    /\ Finish(s) /\ UNCHANGED <<access, excused>>

------------------------------------------------------------------------------
(* Membership. *)

\* AddMember and RemoveMember read the list, which is empty when the query fails.
AskMember(s, p, u, kind) ==
    /\ \E list \in {access[u], {}} :
          Begin(s, [kind |-> kind, p |-> p, u |-> u, seen |-> list, n |-> asked + 1])
    /\ UNCHANGED <<rows, access, excused>>

\* Mutant of Already: membership by substring.
AlreadyLike(p, list) == p \in list \/ \E q \in list : <<p, q>> \in Resembles

Already(p, list) == p \in list

WriteMember(s) ==
    /\ Doing(s, "add") \/ Doing(s, "remove")
    /\ LET r == request[s]
           new == IF r.kind = "remove" THEN r.seen \ {r.p}
                  ELSE IF Already(r.p, r.seen) THEN access[r.u] ELSE r.seen \cup {r.p}
       IN  access' = [access EXCEPT ![r.u] = new]
    /\ Finish(s) /\ UNCHANGED <<rows, excused>>

\* UpdateUser replaces the list by the one of its form.
SetAccess(s, u) ==
    /\ AtOnce(s)
    /\ \E list \in SUBSET Projects : access' = [access EXCEPT ![u] = list]
    /\ UNCHANGED <<rows, excused>>

------------------------------------------------------------------------------
RowsNext == \E s \in Slots :
    \/ \E p \in Projects :
          \/ AskCreate(s, p) \/ AllocateRoute(s, p) \/ AskDelete(s, p)
          \/ \E kind \in {"update", "tabs", "features", "pin", "clone"} : AskEdit(s, p, kind)
          \/ \E u \in Members, kind \in {"add", "remove"} : AskMember(s, p, u, kind)
    \/ \E u \in Members : SetAccess(s, u)
    \/ InsertRow(s) \/ DeleteRow(s) \/ WriteUpdate(s) \/ WriteEdit(s)
    \/ WriteClone(s) \/ WriteMember(s) \/ WriteFails(s)

RowsSpec == RowsInit /\ [][RowsNext]_rowvars

RowRecord == [text : Marks, tags : Marks, port : PortRange \cup {NoPort}, auto : BOOLEAN,
              tabs : SUBSET (Marks \cup {Quoted}), features : SUBSET (Marks \cup {Quoted}), pinned : BOOLEAN, wraps : Marks]

\* Rows, lists and requests are of the shapes the handlers build.
RowsTypeOK ==
    /\ Existing \subseteq Projects /\ \A p \in Existing : rows[p] \in RowRecord
    /\ access \in [Members -> SUBSET Projects]
    /\ \A s \in Slots : Free(s) \/ (request[s].n \in 1..asked /\ request[s].p \in Projects)
    /\ asked \in Marks /\ excused \in BOOLEAN

\* Two projects share a port only if somebody typed it, two requests overlapped,
\* or a query of Allocate failed: else Allocate never hands a port out twice
\* (portmgr.go:20-43), nor does a failed deletion or UPDATE, a clone or an update
\* that keeps the port.
PortsShared == \E p, q \in Existing : p # q /\ rows[p].port = rows[q].port /\ rows[p].port # NoPort
PortsDistinct == excused \/ ~PortsShared

\* A request whose UPDATE took effect leaves behind what it was asked for and what
\* it read.  When the list is still what it read, a grant adds its project and a
\* removal takes it away, and nothing else; when it read nothing, because the query
\* failed, or another request wrote in between, the grant stands but the others'
\* may be lost.  An update changes a column it does not name only back to the
\* value it read (projects.go:659-817, 1519-1566).
Ends(s) == ~Free(s) /\ request'[s] = None
EditSticks(s) ==
    LET r == request[s]
    IN  /\ r.kind \in {"add", "remove"} /\ r.seen = access[r.u] =>
              access'[r.u] = IF r.kind = "add" THEN r.seen \cup {r.p} ELSE r.seen \ {r.p}
        /\ r.kind = "add" => r.p \in access'[r.u] \/ (r.p \in r.seen /\ access' = access)
        /\ r.kind = "add" => access'[r.u] \subseteq access[r.u] \cup r.seen \cup {r.p}
        /\ r.kind = "remove" => r.p \notin access'[r.u]
        /\ r.kind = "update" /\ Present(r.p) => \A c \in KeptColumns :
              IF c \in r.named THEN c # "port" => rows'[r.p][c] = r.n
              ELSE rows'[r.p][c] \in {rows[r.p][c], r.seen[c]}
EditsStick == [][\A s \in Slots : Ends(s) => EditSticks(s)]_rowvars

\* Tags stay readable: ListProjects and GetProject undo one string at most.
TagsReadable == \A p \in Existing : rows[p].wraps <= 1
==============================================================================
