\* One goroutine; the command may leave a descendant behind.
SPECIFICATION FairSpec
CONSTANTS
    Tasks = {t1}
    Lingering = {t1}
    Runs = {r1}
    MaxMinute = 1
    Crons = {{0, 1}}
    MaxQueue = 2
    MaxCrashes = 1
    None = None
PROPERTIES
    RunsEnd
