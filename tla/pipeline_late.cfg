SPECIFICATION Spec
CONSTANTS
    a = a
    b = b
    c = c
    Ids <- MCIds
    MayDepend <- MCFork
    InitialDeps <- MCForkLater
    Indicated <- MCIndicated
    Told <- MCTold
    Policies = {FALSE}
    Requests <- MCAware
    MaxEdits = 3
    MaxRefreshes = 1
    MaxFaults = 0
PROPERTIES
    DependenciesFirst
