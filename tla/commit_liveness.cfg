SPECIFICATION FairSpec
CONSTANTS
    d1 = d1
    d2 = d2
    Docs = {d1}
    Requests = {r1, r2}
    NoRow = NoRow
    WriteSets <- FewBatches
    Instances = {i1}
    Tokens = {t1}
    NoToken = NoToken
    NoHolder = NoHolder
    Surfaces = {"commit", "stream"}
    MaxAttempts = 2
    MaxTries = 2
    ClockSteps = {0}
    Faults = {"transient", "unknown", "storage", "disconnect", "clear", "reread"}
PROPERTIES RequestsEnd LockIsReturned
CHECK_DEADLOCK FALSE
