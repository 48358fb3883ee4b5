SPECIFICATION FairSpec
CONSTANTS
    tA = tA
    tB = tB
    rA = rA
    rB = rB
    cA = cA
    cB = cB
    Null = Null
    Tenants = {tA, tB}
    Rules = {rA, rB}
    Channels = {cA, cB}
    RuleOf <- MCRuleOf
    Owner <- MCOwner
    Stub = {cB}
    Window = 1
    BurstCap = 1
    RateLimit = 1
    Batch = 2
    MaxAttempts = 2
    MaxTime = 2
    MaxAlerts = 2
    MaxRows = 5
    MaxEvents = 1
INVARIANTS
    
    DeadIsEarned
    Paced
    BurstCapped
    SummaryComplete
PROPERTIES
    QuietTenantServed
    
    ImplementsLedger
CHECK_DEADLOCK FALSE
