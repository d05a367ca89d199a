\* One task, run by two goroutines at a time, here or by the agent.
SPECIFICATION Spec
CONSTANTS
    Tasks = {t1}
    Lingering = {}
    Runs = {r1, r2}
    MaxMinute = 2
    Crons = {{0, 1}}
    MaxQueue = 1
    MaxCrashes = 1
    None = None
INVARIANTS
    TypeOK
    GuardExact
    OncePerMinute
PROPERTIES
    NoMissedMinute
SYMMETRY MCSymmetry
