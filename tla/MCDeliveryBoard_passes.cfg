SPECIFICATION Spec
CONSTANTS
    Null = Null
    Deliveries = {d1}
    DayLen = 2
    Warn = 1
    Gone = 1
    Grace = 1
    Lookback = 3
    Departures = {1, 2}
    Expected = {1}
    Rhythms = {0}
    MaxTime = 4
    MaxStale = 1
    MaxCalls = 2
    MaxScans = 1
    MaxEvents = 1
INVARIANTS
    OneOpenRow
    
    ReopenedWhenOvertaken
    
PROPERTIES
    ClosedIsFinal
CHECK_DEADLOCK FALSE
