\* Two sockets, one client, and the idle monitor.
SPECIFICATION FairSpec
CONSTANTS
    Projects = {p1}
    Handles = {h1, h2}
    Callers = {idler}
    None = None
    Listeners = {l1, l2}
    Conns = {k1}
    IdleMonitor = idler
INVARIANTS
    TypeOK
    ListenersConsistent
    CounterExact
PROPERTIES
    ImplementsProcManager
    IdlePassEnds
