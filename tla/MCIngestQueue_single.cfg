SPECIFICATION FairSpec
CONSTANTS
    w1 = w1
    w2 = w2
    o1 = o1
    o2 = o2
    c1 = c1
    Workers = {w1}
    Objects = {o1, o2}
    Customers = {c1}
    CustomerOf <- MCCustomerOf
    Lines <- MCLines
    Content <- MCContent
    TimeOf <- MCTimeOf
    Zones = {"utc", "cet"}
    MaxAttempts = 2
    BatchSize = 2
    DeleteIngested = TRUE
    MaxResets = 1
PROPERTY Settles
