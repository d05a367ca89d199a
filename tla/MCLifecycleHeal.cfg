\* The health monitor and the boot loop, with room for a second process of the
\* project.
SPECIFICATION FairSpec
CONSTANTS
    Projects = {p1}
    Handles = {h1, h2}
    Callers = {idler, r1}
    None = None
    Listeners = {}
    Conns = {}
    IdleMonitor = idler
    Requests = {r1}
    Units = {}
    OffStatuses = {"offline"}
    Remote = {}
    Proxied = {}
    RuntimeEnabled = TRUE
    MaxGo = 1
    MaxCrashes = 0
PROPERTIES
    OnlineHeals
