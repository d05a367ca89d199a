\* The attach of the boot loop and one DELETE.
CONSTANTS
    Projects = {p1}
    Names = {a}
    Systemd = {}
    Hanging = {}
    States = {s1, s2}
    Handles = {h1, h2}
    Workers = {w1, w2}
    Health = hm
    MaxRefused = 1
    MaxRequests = 1
    None = None
SYMMETRY Symmetry
SPECIFICATION Spec
INVARIANT NoGhostReference
