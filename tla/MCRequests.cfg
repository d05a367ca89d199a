SPECIFICATION Spec
CONSTANTS
    Sessions = {s1, s2}
    Passwords = {p1, p2}
    MaxSets = 1
    Verifiers = {v1, v2}
    Mailers = {m1}
    MaxAttempts = 2
    MaxFails = 3
    MaxCodes = 2
    app = app
    app2 = app2
    Projects = {app, app2}
    Resembles <- MCResembles
    CloneId <- MCCloneId
    Members = {u1}
    Slots = {t1, t2}
    PortRange = {1, 2}
    NoPort = 0
    MaxRequests = 3
    Sites = {a1, b1}
    Paths = {x, y}
    NoPath = NoPath
    Syncs = {y1, y2}
    PushAttempts = 2
    Broken = Broken
    MaxEdits = 2
    MaxOutages = 1
    People = {u1, u2}
    Apps = {app, app2}
    InText <- MCResembles
    All = All
    Global = Global
    Calls = {c1, c2}
    MaxCalls = 2
    tab = t1
    k1 = k1
    k2 = k2
    Tables = {t1, t2}
    Keys = {k1, k2, k3}
    Editors = {e1, e2}
    Chunk = 1
    MaxRead = 3
    Snapshot = 1
    MaxChanges = 2
INVARIANTS
    RequestsTypeOK
    PasswordRules
    GuessesBounded
    PortsDistinct
    SettledIsFresh
    OnlyEntitled
    SnapshotFresh
    SweepComplete
PROPERTIES
    EditsStick
    ImplementsPublisher
CHECK_DEADLOCK FALSE
