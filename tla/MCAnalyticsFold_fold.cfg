SPECIFICATION Spec
CONSTANTS
    t1 = t1
    t2 = t2
    X = X
    Y = Y
    Z = Z
    all = all
    built = built
    rec = rec
    None = None
    Txns = {t1, t2}
    Names = {X, Y, Z}
    Switched = {X}
    RecordNames = {X}
    Unusable = {Z}
    Rows <- MCRows
    Initial <- MCInitial
    LastInstant = 4
    DayLength = 2
    Pad = 1
    MaxSpan = 3
    MaxSlice = 2
    MaxAttempts = 2
    Metrics = {all, built, rec}
    RecordMetrics = {rec}
    Filter <- MCFilter
    Built = {built}
    MaxTickets = 4
    MaxChanges = 1
    MaxFlips = 1
    MaxEvents = 2
INVARIANTS
    FactsFollowSource
    
    RecordsFollowFacts
    TotalsExact
CHECK_DEADLOCK FALSE
