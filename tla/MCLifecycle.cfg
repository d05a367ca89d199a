\* Requests, goroutines, boot loop and a proxied connection around one project,
\* with a restart of the server anywhere.
SPECIFICATION CrashSpec
CONSTANTS
    Projects = {p1}
    Handles = {h1}
    Callers = {idler, r1}
    None = None
    Listeners = {l1}
    Conns = {k1}
    IdleMonitor = idler
    Requests = {r1}
    Units = {}
    OffStatuses = {"offline"}
    Remote = {}
    Proxied = {p1}
    RuntimeEnabled = FALSE
    MaxGo = 1
    MaxCrashes = 1
INVARIANTS
    RegistriesConsistent
PROPERTIES
    ImplementsTCPProxy
