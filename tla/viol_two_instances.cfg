SPECIFICATION Spec
CONSTANTS
    d1 = d1
    d2 = d2
    Docs = {d1}
    Requests = {r1, r2}
    NoRow = NoRow
    WriteSets <- FewBatches
    Instances = {i1, i2}
    Tokens = {t1}
    NoToken = NoToken
    NoHolder = NoHolder
    Surfaces = {"commit"}
    MaxAttempts = 1
    MaxTries = 1
    ClockSteps = {1}
    Faults = {}
PROPERTIES ValidatedReadsHold
CHECK_DEADLOCK FALSE
