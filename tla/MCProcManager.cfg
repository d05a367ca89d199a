\* Two requests stop and restart one project while anybody may start it.
SPECIFICATION FairSpec
CONSTANTS
    Projects = {p1}
    Handles = {h1, h2}
    Callers = {c1, c2}
    None = None
INVARIANTS
    TypeOK
    NoStaleEntry
    StopOutlivesProcess
PROPERTIES
    StopReturns
