SPECIFICATION FairSpec
CONSTANTS
    Posts = 1
    Size = 1
    PostTasks = {p1, p2}
    BackTasks = {b1, b2}
    None = None
    Capacity = 1
    MaxArrays = 2
    MaxIds = 2
    MaxBreaks = 1
    Faults = {"streamError", "terminate"}
INVARIANTS TypeOK MessagesOnce
PROPERTIES ResponsesInOrder ResponsesArrive
CHECK_DEADLOCK FALSE
