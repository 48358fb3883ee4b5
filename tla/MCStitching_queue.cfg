SPECIFICATION FairSpec
CONSTANTS
    Entries = {1, 2, 3, 4, 5}
    TimeOf <- MCTimeOf
    StreamOf <- MCStreamOf
    KindOf <- MCKindOf
    Tickets = {1, 2}
    Batch <- MCBatch
    Pad = 2
    Gap = 1
    MaxWindow = 4
    MaxAttempts = 2
    CrossPads = {"shadow", "on"}
    Ranges <- MCRanges
    MaxIncidents = 1
INVARIANTS
    NoneForgottenUnraced
    StitchedExceptAtEdges
    OneRowPerId
    RowsDescribeLines
PROPERTIES
    IdsCarried
    Drains
CHECK_DEADLOCK FALSE
