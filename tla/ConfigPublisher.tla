-------------------------- MODULE ConfigPublisher --------------------------
(* What nginx.go promises about the configuration nginx runs, whatever happens *)
(* on the way there: every location belongs to a project whose row had that     *)
(* base path at some time, and no path is given to two projects.                *)
EXTENDS Naturals

CONSTANTS Sites, Paths

VARIABLES said,    \* pairs <<p, path>>: row p had that base path
          routed   \* pairs nginx routes

Clear(conf) == \A e, f \in conf : e[2] = f[2] => e = f

PublisherInit == said = {} /\ routed = {}

\* A row is given a base path.
Tell == \E e \in Sites \X Paths : said' = said \cup {e} /\ UNCHANGED routed

\* nginx loads a configuration.
Load == routed' \in {conf \in SUBSET said : Clear(conf)} /\ UNCHANGED said

PublisherNext == Tell \/ Load
PublisherSpec == PublisherInit /\ [][PublisherNext]_<<said, routed>>
==============================================================================
