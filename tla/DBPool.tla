-------------------------------- MODULE DBPool --------------------------------
(* The connection pool of db.DB.  Some goroutines ask for a connection while   *)
(* their own rows are still open: the boot loop, the auto-updater and          *)
(* RefreshAll; the pool makes them wait for it without limit.                  *)
EXTENDS Naturals, FiniteSets

CONSTANTS
    Goroutines,   \* that use db.DB at one time
    Nesting,      \* those that query while their own rows are open: one for the
                  \* boot loop, one for the updater, one for each RefreshAll request
    Size          \* dbMaxConns: any positive LAMBS_DB_MAX_CONNS, or 30

ASSUME PoolAssumption ==
    IsFiniteSet(Goroutines) /\ Nesting \subseteq Goroutines /\ Size \in Nat \ {0}

VARIABLE at   \* at[g]: where goroutine g is

pvars == <<at>>

Places == {"off", "wantFirst", "first", "wantSecond", "second"}
In(places) == {g \in Goroutines : at[g] \in places}
InUse == Cardinality(In({"first", "wantSecond"})) + 2 * Cardinality(In({"second"}))
Go(g, here, there) == at[g] = here /\ at' = [at EXCEPT ![g] = there]

PoolInit == at = [g \in Goroutines |-> "off"]

\* db.DB.Query: waits while every connection is in use ...
Query(g) == Go(g, "off", "wantFirst")

\* ... and keeps the connection until its rows are read to the end or closed.
TakeFirst(g) == InUse < Size /\ Go(g, "wantFirst", "first")
CloseRows(g) == Go(g, "first", "off")

\* A query or Exec inside the loop over rows.
QueryInLoop(g) == g \in Nesting /\ Go(g, "first", "wantSecond")
TakeSecond(g) == InUse < Size /\ Go(g, "wantSecond", "second")
QueryDone(g) == Go(g, "second", "first")

PoolNext == \E g \in Goroutines :
    \/ Query(g) \/ TakeFirst(g) \/ CloseRows(g)
    \/ QueryInLoop(g) \/ TakeSecond(g) \/ QueryDone(g)

PoolSpec == PoolInit /\ [][PoolNext]_pvars

-----------------------------------------------------------------------------
(* Properties *)

PoolTypeOK ==
    /\ at \in [Goroutines -> Places]
    /\ In({"wantSecond", "second"}) \subseteq Nesting
    /\ InUse <= Size

\* Whoever waits for a connection, one is free or somebody holds one who does
\* not wait ("30 covers the burst", db.go, comment at SetMaxOpenConns).  Does not
\* hold: as many RefreshAll requests at once as there are connections have all
\* of them in their hands and wait for another, and every handler behind them.
NoWedge ==
    In({"wantFirst", "wantSecond"}) # {} => InUse < Size \/ In({"first", "second"}) # {}

=============================================================================
