----------------------------- MODULE NginxSync -----------------------------
(* nginx.go: most handlers that change a row start a goroutine Sync, which     *)
(* reads the rows, builds a configuration and pushes it to Web1 over ssh: tee   *)
(* writes the file, then nginx -t && reload.  Goroutines are not serialised.    *)
(* A configuration is the set of its locations <<project, base path>>, whose    *)
(* upstreams are left out; texts that overlap may also leave Broken, a piece    *)
(* nginx -t refuses.                                                           *)
EXTENDS Naturals, FiniteSets

CONSTANTS
    Sites,
    Paths,         \* base paths that pass bpRe
    NoPath,        \* none, or one that bpRe refuses, or no port and no backend
    Syncs,         \* goroutines at one time
    PushAttempts,      \* pushes of one Sync (3)
    Broken,
    MaxEdits,      \* bound: changes of rows
    MaxOutages     \* bound: queries and ssh commands that fail, deaths of the server

ASSUME NginxAssumption ==
    NoPath \notin Paths /\ PushAttempts \in Nat \ {0} /\ {MaxEdits, MaxOutages} \subseteq Nat

VARIABLES
    base,          \* base[p]: base path of row p, or NoPath
    sync,          \* sync[s]: where the goroutine is, what it built, its attempt
    file,          \* /etc/nginx/sites-available/lambs-managed.conf
    live,          \* what nginx runs
    told,          \* history: base paths the rows had
    behind,        \* history: nginx may run something else than the rows say
    edits, outages \* counted for the bounds

nvars == <<base, sync, file, live, told, behind, edits, outages>>

Off == [pc |-> "off", conf |-> {}, try |-> 0]
Pushing(s) == sync[s].pc \notin {"off", "read"}
Locations == {<<p, base[p]>> : p \in {q \in Sites : base[q] # NoPath}}
Loadable(conf) == Broken \notin conf /\ \A e, f \in conf : e[2] = f[2] => e = f

NginxInit ==
    /\ base = [p \in Sites |-> NoPath]
    /\ sync = [s \in Syncs |-> Off]
    /\ file = {} /\ live = {} /\ told = {}
    /\ behind = FALSE /\ edits = 0 /\ outages = 0

Outage == outages < MaxOutages /\ outages' = outages + 1

\* The location of a row changes.
Relocate(p, path) ==
    /\ edits < MaxEdits /\ base[p] # path
    /\ base' = [base EXCEPT ![p] = path]
    /\ told' = told \cup (IF path = NoPath THEN {} ELSE {<<p, path>>})
    /\ edits' = edits + 1
    /\ UNCHANGED <<file, live, outages>>

\* CreateProject, UpdateProject, DeleteProject: the row changes, go nginx.Sync().
EditRow(p, path, s) ==
    /\ sync[s].pc = "off"
    /\ Relocate(p, path)
    /\ sync' = [sync EXCEPT ![s].pc = "read"]
    /\ UNCHANGED behind

\* No Sync: the route that allocates a port, CreateProject of an id that exists,
\* which allocates before its INSERT fails, DeleteProject that frees the port
\* before its DELETE fails.
EditQuietly(p, path) ==
    /\ Relocate(p, path)
    /\ behind' = TRUE
    /\ UNCHANGED sync

\* PatchProjectStatus, and main at boot: a Sync without a change.
Launch(s) ==
    /\ sync[s].pc = "off"
    /\ sync' = [sync EXCEPT ![s].pc = "read"]
    /\ UNCHANGED <<base, file, live, told, behind, edits, outages>>

\* A query that fails ends the Sync, without another attempt; rows that break off
\* (rows.Err is not asked) are taken for all of them.
ReadFails(s) ==
    /\ sync[s].pc = "read" /\ Outage
    /\ \/ sync' = [sync EXCEPT ![s] = Off]
       \/ \E part \in SUBSET Locations :
              sync' = [sync EXCEPT ![s] = [pc |-> "push", conf |-> part, try |-> 1]]
    /\ behind' = TRUE
    /\ UNCHANGED <<base, file, live, told, edits>>

\* Sync's query and buildConfig.
ReadRows(s) ==
    /\ sync[s].pc = "read"
    /\ sync' = [sync EXCEPT ![s] = [pc |-> "push", conf |-> Locations, try |-> 1]]
    /\ behind' = \E t \in Syncs \ {s} : Pushing(t)
    /\ UNCHANGED <<base, file, live, told, edits, outages>>

\* tee opens the file, which empties it.
Open(s) ==
    /\ sync[s].pc = "push"
    /\ sync' = [sync EXCEPT ![s].pc = "write"]
    /\ file' = {}
    /\ UNCHANGED <<base, live, told, behind, edits, outages>>

\* tee writes its text over what another tee wrote since; the end of a longer
\* text stays.
Write(s) ==
    /\ sync[s].pc = "write"
    /\ sync' = [sync EXCEPT ![s].pc = "reload"]
    /\ \E tail \in SUBSET file :
          file' \in {sync[s].conf \cup tail} \cup
                    (IF file = {} THEN {} ELSE {sync[s].conf \cup tail \cup {Broken}})
    /\ UNCHANGED <<base, live, told, behind, edits, outages>>

\* Mutant of Retry: an attempt that failed counts as a success.
RetryNot(s) ==
    /\ sync' = [sync EXCEPT ![s] = Off]
    /\ UNCHANGED behind

\* Mutant of Retry: the loop makes one attempt more.
RetryOnceMore(s) ==
    LET last == sync[s].try > PushAttempts
    IN  /\ sync' = [sync EXCEPT ![s] =
                     IF last THEN Off ELSE [pc |-> "push", conf |-> @.conf, try |-> @.try + 1]]
        /\ behind' = (behind \/ last)

\* The next of PushAttempts pushes after a pause, or the configuration stays stale.
Retry(s) ==
    LET last == sync[s].try = PushAttempts
    IN  /\ sync' = [sync EXCEPT ![s] =
                     IF last THEN Off ELSE [pc |-> "push", conf |-> @.conf, try |-> @.try + 1]]
        /\ behind' = (behind \/ last)

\* tee ends early.
Torn(s) == \E part \in SUBSET sync[s].conf : file' \in {part, part \cup {Broken}}

\* ssh fails: before tee opened the file, or while it was being written.
PushFails(s) ==
    /\ sync[s].pc \in {"push", "write"} /\ Outage
    /\ IF sync[s].pc = "push" THEN UNCHANGED file ELSE Torn(s)
    /\ Retry(s)
    /\ UNCHANGED <<base, live, told, edits>>

\* Mutant of Tested: reload without nginx -t.
Untested(conf) == TRUE

\* nginx -t.
Tested(conf) == Loadable(conf)

\* nginx -t && systemctl reload nginx.
Reload(s) ==
    /\ sync[s].pc = "reload" /\ Tested(file)
    /\ live' = file
    /\ sync' = [sync EXCEPT ![s] = Off]
    /\ UNCHANGED <<base, file, told, behind, edits, outages>>

\* nginx -t refuses the file, or ssh fails, after the reload perhaps.
ReloadFails(s) ==
    /\ sync[s].pc = "reload"
    /\ \/ ~Tested(file) /\ UNCHANGED <<live, outages>>
       \/ Outage /\ live' \in {live} \cup (IF Tested(file) THEN {file} ELSE {})
    /\ Retry(s)
    /\ UNCHANGED <<base, file, told, edits>>

\* The server dies, and its goroutines with it; the ssh commands are taken to end
\* with them.
Die ==
    /\ Outage
    /\ sync' = [s \in Syncs |-> Off]
    /\ behind' = TRUE
    /\ UNCHANGED file \/ \E s \in Syncs : sync[s].pc = "write" /\ Torn(s)
    /\ UNCHANGED <<base, live, told, edits>>

SyncStep(s) ==
    \/ Launch(s) \/ ReadRows(s) \/ ReadFails(s) \/ Open(s) \/ Write(s) \/ Reload(s)
    \/ PushFails(s) \/ ReloadFails(s)

NginxNext ==
    \/ \E p \in Sites, path \in Paths \cup {NoPath} :
          EditQuietly(p, path) \/ \E s \in Syncs : EditRow(p, path, s)
    \/ \E s \in Syncs : SyncStep(s)
    \/ Die

NginxSpec == NginxInit /\ [][NginxNext]_nvars

\* Goroutines, file and configuration are of the shapes above.
NginxTypeOK ==
    /\ base \in [Sites -> Paths \cup {NoPath}]
    /\ told \subseteq Sites \X Paths
    /\ file \subseteq told \cup {Broken} /\ live \subseteq told
    /\ \A s \in Syncs : /\ sync[s].pc \in {"off", "read", "push", "write", "reload"}
                        /\ sync[s].conf \subseteq told /\ sync[s].try \in 0..PushAttempts
    /\ behind \in BOOLEAN /\ edits \in 0..MaxEdits /\ outages \in 0..MaxOutages

\* When every Sync has ended, nginx runs the locations the rows have (nginx.go:
\* an outage must not leave the configuration stale), unless the last Sync to read
\* the rows read them while another was pushing, or since then one gave up after
\* its three attempts, a query failed or broke off, the server died, or a row
\* changed where no Sync is launched.
SettledIsFresh == (~behind /\ \A s \in Syncs : sync[s].pc = "off") => live = Locations

\* Whatever overlaps or fails, nginx runs only locations that rows had, and no
\* path of two projects.  It may run too few: a file that another Sync has just
\* emptied, or written in part, passes nginx -t when what is there is well formed.
Publisher == INSTANCE ConfigPublisher WITH said <- told, routed <- live
ImplementsPublisher == Publisher!PublisherSpec
==============================================================================
