SPECIFICATION Spec
CONSTANTS
    nA = nA
    nB = nB
    Null = Null
    Tenants = {nA, nB}
    Tables <- MCTables
    Grain <- MCGrain
    RetentionDays <- MCRetentionDays
    Ahead = 1
    StaleAfter = 1
    HoldMax = 1
    MaxDay = 3
    MaxArrivals = 1
    MaxMoves = 1
    MaxEvents = 1
SYMMETRY TenantSymmetry
PROPERTIES
    CreationNotPrevented
CHECK_DEADLOCK FALSE
