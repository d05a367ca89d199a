------------------------------- MODULE Backups -------------------------------
(* The backup files of the projects: RunScheduledBackups, backups made and     *)
(* deleted by requests, dumps that fail or are cut off, the encrypted copies   *)
(* tgbackup makes beside them, for the pass and for requests, and those it      *)
(* leaves behind, restarts of the server.                                      *)
EXTENDS Naturals, FiniteSets

CONSTANTS
    Scheduled,    \* projects with a data source and an interval
    Unscheduled,  \* projects backed up by requests only
    Looks,        \* pairs <<p, q>>: the names of q's files start with p's id and "_"
    Interval,     \* Interval[p]
    Retention,    \* Retention[p]: 0 keeps every file
    MaxHours,     \* bound of the clock
    MaxMishaps    \* bound: failed or cut-off dumps, requests, deaths of the server

ASSUME BackupsAssumption ==
    /\ Interval \in [Scheduled -> Nat \ {0}] /\ Retention \in [Scheduled -> Nat]
    /\ Looks \subseteq Scheduled \X (Scheduled \cup Unscheduled)
    /\ {MaxHours, MaxMishaps} \subseteq Nat

VARIABLES
    now,       \* clock
    files,     \* the directory: project, modification time and kind of each file
    pass,      \* the scheduler's goroutine
    copying,   \* the copies that requests are uploading
    checked,   \* history: the projects a pass dealt with in this hour, unless a file
               \* that passes for a backup of theirs was removed since
    mishaps    \* mishaps so far

kvars == <<now, files, pass, copying, checked, mishaps>>

BackedUp == Scheduled \cup Unscheduled
File(p, kind) == [of |-> p, at |-> now, kind |-> kind]
IdlePass == [pc |-> "idle", todo |-> {}, due |-> {}]

\* Whose files the pass takes for backups of p: any whose name has the prefix.
Named(p) == {p} \cup {q \in BackedUp : <<p, q>> \in Looks}
Taken(p) == {f \in files : f.of \in Named(p)}

BackupsInit ==
    /\ now = 0 /\ files = {} /\ pass = IdlePass
    /\ copying = {} /\ checked = {} /\ mishaps = 0

Mishap == mishaps < MaxMishaps /\ mishaps' = mishaps + 1

HourPasses ==
    /\ now < MaxHours
    /\ now' = now + 1 /\ checked' = {}
    /\ UNCHANGED <<files, pass, copying, mishaps>>

\* RunScheduledBackups: the rows of the scheduled projects.
PassBegins ==
    /\ pass.pc = "idle"
    /\ pass' = [pc |-> "look", todo |-> Scheduled, due |-> {}]
    /\ UNCHANGED <<now, files, copying, checked, mishaps>>

PassEnds ==
    /\ pass.pc = "look" /\ pass.todo = {}
    /\ pass' = IdlePass
    /\ UNCHANGED <<now, files, copying, checked, mishaps>>

\* Mutant of Due: an interval that has just passed is not due.
DueLate(p) == \A f \in Taken(p) : now - f.at > Interval[p]

\* No file yet, or the latest is older than the interval.
Due(p) == \A f \in Taken(p) : now - f.at >= Interval[p]

\* The next project: the latest file, the removal of expired ones, and a dump if
\* the latest, removed or not, is due.
LookAt(p) ==
    /\ pass.pc = "look" /\ p \in pass.todo
    /\ files' = {f \in files : ~(f \in Taken(p) /\ Retention[p] > 0 /\ now - f.at > Retention[p])}
    /\ IF Due(p) THEN pass' = [pass EXCEPT !.pc = "dump", !.todo = @ \ {p}, !.due = {p}] /\ UNCHANGED checked
                 ELSE pass' = [pass EXCEPT !.todo = @ \ {p}] /\ checked' = checked \cup {p}
    /\ UNCHANGED <<now, copying, mishaps>>

\* doBackup: the tool wrote the whole file, ...
Dump(p) ==
    /\ pass.pc = "dump" /\ pass.due = {p}
    /\ files' = files \cup {File(p, "whole")}
    /\ pass' = [pass EXCEPT !.pc = "upload"]
    /\ checked' = checked \cup {p}
    /\ UNCHANGED <<now, copying, mishaps>>

\* ... failed before it wrote, or after five minutes or an error in the middle,
\* and what it wrote stays.
DumpFails(p) ==
    /\ pass.pc = "dump" /\ pass.due = {p}
    /\ Mishap
    /\ files' \in {files, files \cup {File(p, "part")}}
    /\ pass' = [pass EXCEPT !.pc = "look", !.due = {}]
    /\ UNCHANGED <<now, copying, checked>>

\* tgbackup.Upload: the copy is removed, except when it cannot be opened.
Upload(p) ==
    /\ pass.pc = "upload" /\ pass.due = {p}
    /\ pass' = [pass EXCEPT !.pc = "look", !.due = {}]
    /\ UNCHANGED <<now, files, copying, checked, mishaps>>

UploadLeavesCopy(p) ==
    /\ pass.pc = "upload" /\ pass.due = {p}
    /\ Mishap
    /\ files' = files \cup {File(p, "copy")}
    /\ pass' = [pass EXCEPT !.pc = "look", !.due = {}]
    /\ UNCHANGED <<now, copying, checked>>

\* The server dies in a pass or an upload.  A dump or a copy in the making stays
\* as it is.
Crash ==
    /\ pass.pc # "idle" \/ copying # {}
    /\ Mishap
    /\ \/ UNCHANGED files
       \/ \E p \in pass.due :
              files' = files \cup {File(p, IF pass.pc = "dump" THEN "part" ELSE "copy")}
    /\ pass' = IdlePass /\ copying' = {}
    /\ UNCHANGED <<now, checked>>

\* CreateBackup by a request, and DeleteBackup.
Create(p) ==
    /\ Mishap
    /\ \E kind \in {"whole", "part"} : files' = files \cup {File(p, kind)}
    /\ UNCHANGED <<now, pass, copying, checked>>

Gone(f) == files' = files \ {f} /\ checked' = {p \in checked : f \notin Taken(p)}

Delete ==
    /\ Mishap
    /\ \E f \in files : Gone(f)
    /\ UNCHANGED <<now, pass, copying>>

\* UploadBackupToTG by a request: gpg writes a copy of any file, however old,
\* beside it, and the directory says it is of today.
CopyBegins ==
    /\ Mishap
    /\ \E f \in files : /\ files' = files \cup {File(f.of, "copy")}
                        /\ copying' = copying \cup {File(f.of, "copy")}
    /\ UNCHANGED <<now, pass, checked>>

\* The copy is removed after the post; it stays if gpg fails in the middle or the
\* copy cannot be opened.
CopyEnds ==
    /\ \E f \in copying : /\ copying' = copying \ {f}
                          /\ Gone(f) \/ UNCHANGED <<files, checked>>
    /\ UNCHANGED <<now, pass, mishaps>>

BackupsNext ==
    \/ HourPasses \/ PassBegins \/ PassEnds \/ Crash \/ Delete \/ CopyBegins \/ CopyEnds
    \/ \E p \in Scheduled :
        LookAt(p) \/ Dump(p) \/ DumpFails(p) \/ Upload(p) \/ UploadLeavesCopy(p)
    \/ \E p \in BackedUp : Create(p)

BackupsSpec == BackupsInit /\ [][BackupsNext]_kvars

-----------------------------------------------------------------------------
(* Properties *)

BackupsTypeOK ==
    /\ now \in 0..MaxHours /\ mishaps \in 0..MaxMishaps
    /\ files \subseteq [of : BackedUp, at : 0..now, kind : {"whole", "part", "copy"}]
    /\ pass \in [pc : {"idle", "look", "dump", "upload"}, todo : SUBSET Scheduled,
                 due : SUBSET Scheduled]
    /\ copying \subseteq [of : BackedUp, at : 0..now, kind : {"copy"}]
    /\ checked \subseteq Scheduled

Own(p) == {f \in files : f.of = p}

\* After a pass has dealt with a project it has a whole backup younger than its
\* interval: unless something else that is as young passes for one (a part of a
\* dump, a copy, also one that UploadBackupToTG is making of an old backup, or
\* another project's file whose name has its id as a prefix), or the retention of
\* a project that takes the same files, itself the first, is shorter than its
\* interval.  It says nothing of a project one of whose files was removed since,
\* be it a backup by DeleteBackup or such a copy at the end of its upload: what
\* the pass went by may have been that file, and the next pass decides again.
FreshBackup ==
    \A p \in checked :
        \/ \E f \in Own(p) : f.kind = "whole" /\ now - f.at < Interval[p]
        \/ \E f \in Taken(p) : (f.of # p \/ f.kind # "whole") /\ now - f.at < Interval[p]
        \/ \E q \in Scheduled : Named(q) \cap Named(p) # {} /\ Retention[q] \in 1..(Interval[p] - 1)

=============================================================================
