SPECIFICATION Spec
CONSTANTS
    d1 = d1
    d2 = d2
    Docs = {d1}
    Requests = {r1, r2}
    NoRow = NoRow
    WriteSets <- FewBatches
    Instances = {i1}
    Tokens = {}
    NoToken = NoToken
    NoHolder = NoHolder
    Surfaces = {"commit"}
    MaxAttempts = 1
    MaxTries = 2
    ClockSteps = {1}
    Faults = {"unknown"}
INVARIANTS EveryCommitPublished
CHECK_DEADLOCK FALSE
