SPECIFICATION MCSpec
CONSTANTS
    Width = 15
    MantissaBits = 8
    Missing = Missing
    Compared <- CompareValues
    KeyOf <- EncodeValue
    MaxDepth = 3
    Rows <- MCRows
    Batches <- MCBatches
    MaxCommits = 1
    Masks <- MCMasks
    Updates <- MCUpdates
    Watched <- Paths2
    Known <- MCKnown
    Queried <- MCQueried
    PageSizes = {1}
    Processes = {p1, p2}
    Writers = {p1}
    Paths <- MCPaths
    Changes <- MCChanges
    Registries <- MCRegistries
    Slots = 1
    MaxAttempts = 2
    CommitLimit = 2
    CrashLimit = 1
INVARIANTS TriggersTypeOK ValuesMean WritesMean PlansKeepResults CursorsTile DispatchedOnce OwedOnTheWay
PROPERTIES DeliveriesEnd
CHECK_DEADLOCK FALSE
