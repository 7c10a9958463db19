SPECIFICATION Spec
CONSTANTS
    i1 = i1
    i2 = i2
    l1 = l1
    l2 = l2
    Docs = {d1}
    Missing = Missing
    Instances = {i1, i2}
    Writers = {i1}
    Listeners = {l1, l2}
    Home <- ListenerEach
    Targets = {"documents"}
    Watched = {d1}
    Collection = {}
    Capacity = 1
    Callers = {"lockKept", "lockDropped", "unaware"}
    NoResume = NoResume
    MaxCommits = 2
    ClockSteps = {1}
    Faults = {"tailFails"}
INVARIANTS DocumentsConverge
CHECK_DEADLOCK FALSE
