\* Two projects, two requests at a time, one name run by systemd.
CONSTANTS
    Projects = {p1, p2}
    Names = {a}
    Systemd = {a}
    Hanging = {}
    States = {s1, s2}
    Handles = {h1, h2}
    Workers = {w1, w2}
    Health = hm
    MaxRefused = 1
    MaxRequests = 2
    None = None
SYMMETRY Symmetry
SPECIFICATION Spec
INVARIANTS
    OneProcessPerState
    FlagMeansLaunch
    RegisteredIsReferenced
