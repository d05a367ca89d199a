SPECIFICATION Spec
CONSTANTS
    Updaters = {u1, u2}
    MaxCommit = 3
    Bad = {1, 3}
    Attempts = 3
    HealthGate = TRUE
    MaxUpdates = 3
    MaxFaults = 3
    Clients = {c1}
    Requests = {r1, r2}
    Max = 2
    Window = 2
    SweepAbove = 0
    MaxClock = 5
    NoClient = NoClient
    Minutes = 2
    Hours = 2
    MonthDays <- MCMonthDays
    WeekDays = 3
    ScanDays = 6
    Expressions <- MCExpressions
    Times <- MCTimes
    Goroutines = {g1, g2, g3, g4}
    Nesting = {g1, g2}
    Size = 2
    app = app
    app_x = app_x
    Scheduled = {app, app_x}
    Unscheduled = {}
    Looks <- MCLooks
    Interval <- MCInterval
    Retention <- MCRetention
    MaxHours = 3
    MaxMishaps = 2
INVARIANTS
    BackgroundTypeOK
    BadExcused
    WindowBound
    NextIsLeast
    FreshBackup
PROPERTIES
    MessageWakes
CHECK_DEADLOCK FALSE
