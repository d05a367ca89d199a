\* One project, one request at a time, the health monitor, refused launches and
\* a stop_cmd that may hang.
CONSTANTS
    Projects = {p1}
    Names = {a}
    Systemd = {}
    Hanging = {a}
    States = {s1, s2}
    Handles = {h1, h2}
    Workers = {w1}
    Health = hm
    MaxRefused = 1
    MaxRequests = 3
    None = None
SPECIFICATION FairSpec
PROPERTIES
    ServiceHeals
    PassesEnd
