----------------------------- MODULE RowBrowser -----------------------------
(* The data browser of handlers/projects.go on the tables of one data source:  *)
(* InsertTableRow, UpdateTableRow and DeleteTableRow, each followed by         *)
(* refreshTabsSnapshot, and ProjectTables with a search or a sort, which reads *)
(* the table in chunks (readAllItems).  The adapters read without ORDER BY: a  *)
(* table is a sequence, in which the database puts a new or updated row where  *)
(* it likes.                                                                   *)
EXTENDS Naturals, Sequences, FiniteSets
SE == INSTANCE SequencesExt

CONSTANTS
    Tables,
    Keys,          \* primary keys
    Editors,       \* edits in flight at one time
    Chunk,         \* rows of a chunk (readAllChunk, 500)
    MaxRead,       \* rows after which a sweep gives up (readAllMax, a million)
    Snapshot,      \* rows of a snapshot (500)
    MaxChanges     \* bound: edits

ASSUME BrowserAssumption ==
    {Chunk, Snapshot} \subseteq Nat \ {0} /\ {MaxRead, MaxChanges} \subseteq Nat

VARIABLES
    tables,        \* tables[t]: its rows, a key and the edit that wrote it
    tabs,          \* column tabs of the project: a snapshot of each table
    editor,        \* editor[e]: where an edit is, its table, the tabs and rows it read
    sweep,         \* the chunked read, with history of what changed meanwhile and of
                   \* rows that a query did not return
    doubt,         \* history: tables whose snapshot overlapping edits or failed
                   \* queries may have spoilt
    changes        \* edits so far

wvars == <<tables, tabs, editor, sweep, doubt, changes>>

NoEdit == [pc |-> "free"]
NoSweep == [pc |-> "off", t |-> CHOOSE t \in Tables : TRUE, off |-> 0, got |-> <<>>,
            there |-> {}, removed |-> 0, added |-> 0, cut |-> FALSE]
KeysOf(rows) == {rows[i].key : i \in DOMAIN rows}
First(rows, n) == SubSeq(rows, 1, IF n < Len(rows) THEN n ELSE Len(rows))
At(rows, k) == CHOOSE i \in DOMAIN rows : rows[i].key = k
Without(rows, k) == IF k \in KeysOf(rows) THEN SE!RemoveAt(rows, At(rows, k)) ELSE rows
Placed(rows, r) == {SE!InsertAt(rows, i, r) : i \in 1..(Len(rows) + 1)}

BrowserInit ==
    /\ tables \in [Tables -> {[i \in DOMAIN q |-> [key |-> q[i], by |-> 0]] :
                                q \in UNION {SE!SetToSeqs(K) : K \in {K \in SUBSET Keys : IsFiniteSet(K)}}}]
    /\ tabs = [t \in Tables |-> <<>>]
    /\ editor = [e \in Editors |-> NoEdit]
    /\ sweep = NoSweep
    /\ doubt = Tables /\ changes = 0

\* A statement of an edit on table t: what it leaves, and what the sweep saw of it.
Statement(e, t, rows, removes, adds) ==
    LET busy == {f \in Editors \ {e} : editor[f].pc # "free"}
    IN  /\ editor[e].pc = "free" /\ changes < MaxChanges
        /\ changes' = changes + 1
        /\ tables' = [tables EXCEPT ![t] = rows]
        /\ editor' = [editor EXCEPT ![e] = [pc |-> "tabs", t |-> t]]
        /\ doubt' = IF busy = {} THEN doubt \ {t} ELSE doubt \cup {t} \cup {editor[f].t : f \in busy}
        /\ sweep' = IF sweep.pc = "read" /\ sweep.t = t
                    THEN [sweep EXCEPT !.removed = @ + removes, !.added = @ + adds,
                                       !.there = @ \cap KeysOf(rows)]
                    ELSE sweep
        /\ UNCHANGED tabs

\* InsertTableRow, and UpdateTableRow without a key value.
AddRow(e, t, k) ==
    /\ k \notin KeysOf(tables[t])
    /\ \E rows \in Placed(tables[t], [key |-> k, by |-> changes + 1]) : Statement(e, t, rows, 0, 1)

\* An update of no row is no error.
ChangeRow(e, t, k) ==
    IF k \in KeysOf(tables[t])
    THEN \E rows \in Placed(Without(tables[t], k), [key |-> k, by |-> changes + 1]) :
             Statement(e, t, rows, 1, 1)
    ELSE Statement(e, t, tables[t], 0, 0)

RemoveRow(e, t, k) ==
    LET rows == Without(tables[t], k)
    IN  Statement(e, t, rows, Len(tables[t]) - Len(rows), 0)

\* refreshTabsSnapshot reads the column tabs, or goes on without, ...
ReadTabs(e) ==
    LET t == editor[e].t
    IN  /\ editor[e].pc = "tabs"
        /\ \E column \in {tabs, [u \in Tables |-> <<>>]} :
              /\ editor' = [editor EXCEPT ![e] = [pc |-> "items", t |-> t, tabs |-> column]]
              /\ doubt' = IF column = tabs THEN doubt ELSE doubt \cup (Tables \ {t})
        /\ UNCHANGED <<tables, tabs, sweep, changes>>

\* ... the first rows of the table, ...
ReadItems(e) ==
    /\ editor[e].pc = "items"
    /\ editor' = [editor EXCEPT ![e] =
           [pc |-> "write", t |-> @.t, tabs |-> [@.tabs EXCEPT ![editor[e].t] =
                First(tables[editor[e].t], Snapshot)]]]
    /\ UNCHANGED <<tables, tabs, sweep, doubt, changes>>

\* ... or fewer, without an error, when the query of the PostgreSQL adapter fails or
\* breaks off, ...
ReadItemsShort(e) ==
    LET t == editor[e].t
        rows == First(tables[t], Snapshot)
    IN  /\ editor[e].pc = "items"
        /\ \E n \in 0..(Len(rows) - 1) :
              editor' = [editor EXCEPT ![e] =
                  [pc |-> "write", t |-> t, tabs |-> [@.tabs EXCEPT ![t] = First(rows, n)]]]
        /\ doubt' = doubt \cup {t}
        /\ UNCHANGED <<tables, tabs, sweep, changes>>

\* ... and ends on an error of another adapter; the error of the UPDATE is ignored.
RefreshFails(e) ==
    /\ editor[e].pc \in {"items", "write"}
    /\ doubt' = doubt \cup {editor[e].t}
    /\ editor' = [editor EXCEPT ![e] = NoEdit]
    /\ UNCHANGED <<tables, tabs, sweep, changes>>

\* Mutant of WriteTabs: the snapshot is put where the table has none.
WriteTabsOnce(e) ==
    /\ editor[e].pc = "write"
    /\ tabs' = [tabs EXCEPT ![editor[e].t] = IF @ = <<>> THEN editor[e].tabs[editor[e].t] ELSE @]
    /\ editor' = [editor EXCEPT ![e] = NoEdit]
    /\ UNCHANGED <<tables, sweep, doubt, changes>>

\* The UPDATE writes the whole column.
WriteTabs(e) ==
    /\ editor[e].pc = "write"
    /\ tabs' = editor[e].tabs
    /\ editor' = [editor EXCEPT ![e] = NoEdit]
    /\ UNCHANGED <<tables, sweep, doubt, changes>>

BeginSweep(t) ==
    /\ sweep.pc = "off"
    /\ sweep' = [NoSweep EXCEPT !.pc = "read", !.t = t, !.there = KeysOf(tables[t])]
    /\ UNCHANGED <<tables, tabs, editor, doubt, changes>>

\* Mutant of LastChunk: a chunk that is full may be the last one.
LastChunkFull(chunk) == Len(chunk) <= Chunk

LastChunk(chunk) == Len(chunk) < Chunk

\* readAllItems: one chunk.
NextRows == First(SubSeq(tables[sweep.t], sweep.off + 1, Len(tables[sweep.t])), Chunk)
Take(chunk, cut) ==
    /\ sweep.pc = "read"
    /\ sweep' = [sweep EXCEPT
           !.got = @ \o chunk,
           !.off = @ + Chunk,
           !.cut = cut,
           !.pc = IF LastChunk(chunk) THEN "done"
                  ELSE IF sweep.off + Chunk < MaxRead THEN "read" ELSE "tooLarge"]
    /\ UNCHANGED <<tables, tabs, editor, doubt, changes>>

ReadChunk == Take(NextRows, FALSE)

\* A query that fails or breaks off is fewer rows and no error, and so the last chunk.
ReadChunkShort == \E n \in 0..(Len(NextRows) - 1) : Take(First(NextRows, n), TRUE)

\* ProjectTables filters, sorts, cuts out the page, and answers; or a chunk ended in
\* an error, and it answers that.
Answer ==
    /\ sweep.pc \in {"read", "done", "tooLarge"}
    /\ sweep' = NoSweep
    /\ UNCHANGED <<tables, tabs, editor, doubt, changes>>

BrowserNext ==
    \/ \E e \in Editors :
          \/ \E t \in Tables, k \in Keys : AddRow(e, t, k) \/ ChangeRow(e, t, k) \/ RemoveRow(e, t, k)
          \/ ReadTabs(e) \/ ReadItems(e) \/ ReadItemsShort(e) \/ RefreshFails(e) \/ WriteTabs(e)
    \/ (\E t \in Tables : BeginSweep(t)) \/ ReadChunk \/ ReadChunkShort \/ Answer

BrowserSpec == BrowserInit /\ [][BrowserNext]_wvars

-----------------------------------------------------------------------------
(* Properties *)

Row == [key : Keys, by : 0..MaxChanges]

\* Tables, snapshots and requests are of the shapes above; no key twice in a table.
BrowserTypeOK ==
    /\ tables \in [Tables -> Seq(Row)] /\ tabs \in [Tables -> Seq(Row)]
    /\ \A t \in Tables : Cardinality(KeysOf(tables[t])) = Len(tables[t])
    /\ \A e \in Editors : editor[e].pc \in {"free", "tabs", "items", "write"}
    /\ sweep.pc \in {"off", "read", "done", "tooLarge"} /\ sweep.got \in Seq(Row)
    /\ sweep.there \subseteq Keys /\ doubt \subseteq Tables /\ changes \in 0..MaxChanges

\* Once the edits have ended, the snapshot of a table that was edited since is
\* what a reader would read now, unless edits overlapped or a query failed: an
\* edit of another table does not bring an older snapshot back (projects.go,
\* refreshTabsSnapshot).
SnapshotFresh ==
    (\A e \in Editors : editor[e].pc = "free") =>
        \A t \in Tables \ doubt : tabs[t] = First(tables[t], Snapshot)

\* "sweeps a table in capped chunks so search/sort sees every row" (readall.go:13),
\* as long as no query fails or breaks off (SweepWhole): of the rows that were
\* there all the time it misses at most one for each row removed or moved
\* meanwhile, and it shows one twice at most for each added or moved.
SweepComplete ==
    sweep.pc = "done" /\ ~sweep.cut =>
        /\ Cardinality(sweep.there \ KeysOf(sweep.got)) <= sweep.removed
        /\ Len(sweep.got) - Cardinality(KeysOf(sweep.got)) <= sweep.added

\* The same sentence with no exception: on a table that nobody changes, a sweep
\* that ends without an error has every row.  It does not hold: the adapter's
\* failed query is an empty page (source_postgres.go:65-67, 100), which ends the
\* sweep as its last chunk (readall.go:38-40).
SweepWhole ==
    sweep.pc = "done" /\ sweep.removed = 0 => sweep.there \subseteq KeysOf(sweep.got)

=============================================================================
