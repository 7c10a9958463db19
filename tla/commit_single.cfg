SPECIFICATION Spec
CONSTANTS
    d1 = d1
    d2 = d2
    Docs = {d1, d2}
    Requests = {r1, r2, r3}
    NoRow = NoRow
    WriteSets <- CrossBatches
    Instances = {i1}
    Tokens = {t1}
    NoToken = NoToken
    NoHolder = NoHolder
    Surfaces = {"commit"}
    MaxAttempts = 2
    MaxTries = 1
    ClockSteps = {1}
    Faults = {"transient"}
SYMMETRY Symmetry
INVARIANTS EveryCommitPublished
PROPERTIES Serializable ExactDeltas
CHECK_DEADLOCK FALSE
