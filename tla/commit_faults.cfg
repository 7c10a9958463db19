SPECIFICATION Spec
CONSTANTS
    d1 = d1
    d2 = d2
    Docs = {d1}
    Requests = {r1, r2}
    NoRow = NoRow
    WriteSets <- OneDocBatches
    Instances = {i1, i2}
    Tokens = {t1}
    NoToken = NoToken
    NoHolder = NoHolder
    Surfaces = {"commit", "single"}
    MaxAttempts = 2
    MaxTries = 2
    ClockSteps = {1}
    Faults = {"transient", "storage", "unknown", "disconnect", "crash", "roaming", "deny"}
SYMMETRY Symmetry
INVARIANTS TypeOK MutualExclusion NoLostUpdate CommitsOnce AnswersTruthful PublishedInOrder
PROPERTIES ExactRowDeltas
CHECK_DEADLOCK FALSE
