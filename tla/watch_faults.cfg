SPECIFICATION Spec
CONSTANTS
    i1 = i1
    i2 = i2
    l1 = l1
    l2 = l2
    Docs = {d1}
    Missing = Missing
    Instances = {i1, i2}
    Writers = {i1, i2}
    Listeners = {l1}
    Home <- OneListener
    Targets = {"documents", "query"}
    Watched = {d1}
    Collection = {d1}
    Capacity = 1
    Callers = {"lockKept", "lockDropped", "unaware"}
    NoResume = NoResume
    MaxCommits = 2
    ClockSteps = {1}
    Faults = {"earlyListen", "tailFails", "earlyFailure", "historyLost", "readFails", "hangUp", "deny"}
INVARIANTS TypeOK NoticesOnceInOrder
CHECK_DEADLOCK FALSE
