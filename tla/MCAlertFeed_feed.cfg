SPECIFICATION FairSpec
CONSTANTS
    x1 = x1
    x2 = x2
    r1 = r1
    r2 = r2
    Null = Null
    Txns = {x1, x2}
    Rules = {r1, r2}
    Match <- MCMatch
    Kinds <- MCKinds
    Live <- MCLive
    Lag = 1
    Lookback = 3
    Limit = 1
    CommitDelay = 1
    MaxTime = 4
    MaxWrites = 2
    MaxEvents = 1
INVARIANTS
    NoRowSkipped
PROPERTIES
    EventuallyAlerted
CHECK_DEADLOCK FALSE
