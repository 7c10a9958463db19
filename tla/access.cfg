SPECIFICATION MCSpec
SYMMETRY Symmetry
CONSTANTS
    Instances = {i1, i2}
    Tasks = {t1, t2, t3}
    None = None
    Mixes = {{"access", "revoke", "watchFails"}, {"assertion", "create"},
             {"exchange", "crash"}, {"signIn"},
             {"identity", "signOut"}, {"refresh", "crash"}}
    Assertions = {a1}
    Routes = {"keyId"}
    Untracked = {}
    RequireJti = FALSE
    CheckRevoked = TRUE
    AccountTTL = 1
    RefreshTTL = 1
    AssertionEnd = 1
    Leeway = 1
    ReadTime = 1
    MaxClock = 2
    Absent = Absent
    Live = Live
    Revoked = Revoked
    FirstSession = s0
    KeyMixes = {{"mint", "check", "rotate"}, {"mint", "seal"}, {"seal", "drop"}, {"mint", "drop"}}
    TokenTTL = 1
    RefreshInterval = 2
    Throttle = 1
    Slack = 0
    OpTime = 0
    LastSecond = 4
    Checks = {c1, c2}
    KeyIds = {"k1", "k2"}
    KeySets = {{"k1"}, {"k2"}, {"k1", "k2"}}
    Interval = 1
    FetchTime = 1
    LastMinute = 3
    MaxSteps = 60
    MaxCallDepth = 2
    MaxLookups = 2
    Largest = 7
    Anywhere = Anywhere
    NoRules = NoRules
    Database = "(default)"
INVARIANTS TypesOK StaleHasCause RedeemedOnce TokensVerify GrantsAreStatements ListsHoldForEveryId
PROPERTIES DecisionsRecent RetiredStopsSigning RefusedOnlyWhenThrottled NoKeyRefusedForLong
CHECK_DEADLOCK FALSE
