SPECIFICATION Spec
CONSTANTS
    file = file  webhook = webhook
    Procs = {p1, p2}
    Publishers <- FileOnly
    Events = {}
    Free = Free
    None = None
    MaxVersion = 2
    MaxSnapshots = 1
CHECK_DEADLOCK FALSE
SYMMETRY Symmetry
INVARIANTS
    GapIsVisible
