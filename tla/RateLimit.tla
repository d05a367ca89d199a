------------------------------ MODULE RateLimit ------------------------------
(* auth.RateLimit: a sliding window of time stamps per client address, shared  *)
(* by login, registration and password recovery.  A request reads the clock    *)
(* before it takes the mutex, so stamps may be recorded out of order.          *)
EXTENDS Naturals, FiniteSets, Sequences

CONSTANTS
    Clients,      \* addresses clientIP returns
    Requests,     \* requests between time.Now() and the mutex at one time
    Max,          \* requests allowed per window (5)
    Window,       \* its length (a minute)
    SweepAbove,   \* number of known addresses above which stale ones are swept
    MaxClock,     \* bound of the clock
    NoClient

ASSUME LimitAssumption == Max \in Nat \ {0} /\ Window \in Nat \ {0}
ASSUME ClientAssumption == NoClient \notin Clients

VARIABLES
    clock,
    req,       \* req[r]: address and time stamp of a request outside the mutex
    known,     \* keys of loginLimiter.hits
    hits,      \* hits[c]: the grants of c whose stamps are still recorded
    grants     \* history: grants[c][i] is the stamp and the time of grant i

lvars == <<clock, req, known, hits, grants>>

NoRequest == [client |-> NoClient, stamp |-> 0]

LimitInit ==
    /\ clock = 0
    /\ req = [r \in Requests |-> NoRequest]
    /\ known = {}
    /\ hits = [c \in Clients |-> {}]
    /\ grants = [c \in Clients |-> <<>>]

Tick ==
    /\ clock < MaxClock
    /\ clock' = clock + 1
    /\ UNCHANGED <<req, known, hits, grants>>

Arrive(r, c) ==
    /\ req[r] = NoRequest
    /\ req' = [req EXCEPT ![r] = [client |-> c, stamp |-> clock]]
    /\ UNCHANGED <<clock, known, hits, grants>>

\* Addresses whose last recorded stamp is older than the window of stamp `now`.
Stale(now) ==
    {c \in known : \/ hits[c] = {}
                   \/ \E i \in hits[c] : /\ \A j \in hits[c] : j <= i
                                         /\ now > grants[c][i].stamp + Window}

Swept(now) == IF Cardinality(known) > SweepAbove THEN Stale(now) ELSE {}

\* Mutant of Kept: the boundary of the window counts as outside it.
KeptShort(c, now) ==
    IF c \in Swept(now) THEN {} ELSE {i \in hits[c] : now < grants[c][i].stamp + Window - 1}

\* The hits of c the mutex holder keeps: those within the window before now.
Kept(c, now) ==
    IF c \in Swept(now) THEN {} ELSE {i \in hits[c] : now < grants[c][i].stamp + Window}

\* The critical section of a request: sweep, filter, and either the 429 ...
Refuse(r) ==
    LET c == req[r].client
        now == req[r].stamp
    IN  /\ c # NoClient
        /\ Cardinality(Kept(c, now)) >= Max
        /\ hits' = [d \in Clients |-> IF d = c THEN Kept(c, now)
                                      ELSE IF d \in Swept(now) THEN {} ELSE hits[d]]
        /\ known' = (known \ Swept(now)) \cup {c}
        /\ req' = [req EXCEPT ![r] = NoRequest]
        /\ UNCHANGED <<clock, grants>>

\* ... or the stamp recorded and the handler called.
Grant(r) ==
    LET c == req[r].client
        now == req[r].stamp
    IN  /\ c # NoClient
        /\ Cardinality(Kept(c, now)) < Max
        /\ grants' = [grants EXCEPT ![c] = Append(@, [stamp |-> now, at |-> clock])]
        /\ hits' = [d \in Clients |-> IF d = c THEN Kept(c, now) \cup {Len(grants[c]) + 1}
                                      ELSE IF d \in Swept(now) THEN {} ELSE hits[d]]
        /\ known' = (known \ Swept(now)) \cup {c}
        /\ req' = [req EXCEPT ![r] = NoRequest]
        /\ UNCHANGED clock

LimitNext ==
    \/ Tick
    \/ \E r \in Requests : (\E c \in Clients : Arrive(r, c)) \/ Refuse(r) \/ Grant(r)

LimitSpec == LimitInit /\ [][LimitNext]_lvars

-----------------------------------------------------------------------------
(* Properties *)

LimitTypeOK ==
    /\ clock \in Nat
    /\ req \in [Requests -> [client : Clients \cup {NoClient}, stamp : Nat]]
    /\ known \subseteq Clients
    /\ grants \in [Clients -> Seq([stamp : Nat, at : Nat])]
    /\ \A c \in Clients : hits[c] \subseteq 1..Len(grants[c])
    /\ hits \in [Clients -> SUBSET Nat]

\* Of Max + 1 requests in a row that one address gets through, the last comes a
\* whole window after the time stamp of one of the others: also when stamps are
\* recorded out of order, and when a sweep forgets the address.
WindowBound ==
    \A c \in Clients : \A j \in (Max + 1)..Len(grants[c]) :
        \E m \in (j - Max)..(j - 1) : grants[c][j].at >= grants[c][m].stamp + Window

=============================================================================
