SPECIFICATION FairSpec
CONSTANTS
    web = web  cli = cli  a = a  b = b  c = c
    Processes = {web, cli}
    Threads = {a, b, c}
    ProcessOf <- MCProcessOf
    Window <- MixedWindow
    Outer = {c}
    Free = Free
    Dropped = Dropped
    MaxAttempts = 2
INVARIANTS
    TypeOK LabelNeverAhead OwnWritesAreRead
PROPERTIES
    CatchesUp
