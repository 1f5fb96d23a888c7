SPECIFICATION Spec
CONSTANTS
    Procs = {p1, p2, p3}
    Free = Free
    NoInstant = NoInstant
    Keeps = {2, 3}
    Instants = {1}
    BatchSize = 1
    MaxVersion = 3
    MaxTime = 1
SYMMETRY Symmetry
INVARIANTS
    TypeOK OnlyARaceDoomsCurrent NewestKept
