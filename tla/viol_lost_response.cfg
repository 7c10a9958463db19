SPECIFICATION FairSpec
CONSTANTS
    Posts = 0
    Size = 1
    PostTasks = {p1, p2}
    BackTasks = {b1, b2}
    None = None
    Capacity = 1
    MaxArrays = 1
    MaxIds = 2
    MaxBreaks = 1
    Faults = {}
INVARIANTS BufferedUntilReceived
CHECK_DEADLOCK FALSE
