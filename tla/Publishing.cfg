SPECIFICATION Spec
CONSTANTS
    file = file  webhook = webhook
    Procs = {p1, p2}
    Publishers <- QueueThenFile
    Events = {"publisher", "receiver", "crash", "republish"}
    Free = Free
    None = None
    MaxVersion = 2
    MaxSnapshots = 2
SYMMETRY Symmetry
INVARIANTS
    TypeOK EverySnapshotTried RecordedWasReceived
