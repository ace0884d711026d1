SPECIFICATION Spec
CONSTANTS
    a = a
    b = b
    c = c
    Ids <- MCIds
    MayDepend <- MCChain
    InitialDeps <- MCChainOnly
    Indicated <- MCIndicatedBoth
    Told <- MCTold
    Policies = {TRUE, FALSE}
    Requests <- MCRequests
    MaxEdits = 2
    MaxRefreshes = 3
    MaxFaults = 1
INVARIANTS
    StateIsEarned
    SuccessIsCurrent
    PlannedIsRetried
    InputsCurrent
PROPERTIES
    NoFalseDeletion
