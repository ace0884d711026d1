SPECIFICATION Spec
CONSTANTS
    a = a
    b = b
    c = c
    Ids <- MCIds
    MayDepend <- MCChain
    InitialDeps <- MCChainOnly
    Indicated <- MCIndicated
    Told <- MCTold
    Policies = {FALSE}
    Requests <- MCAware
    MaxEdits = 1
    MaxRefreshes = 1
    MaxFaults = 1
INVARIANTS
    FailedIsRetried
