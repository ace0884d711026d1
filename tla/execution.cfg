SPECIFICATION FairSpec
CONSTANTS
    w1 = w1
    w2 = w2
    w3 = w3
    NoItem = NoItem
    Items <- MCItems3
    Plans <- MCPlans3
    Workers <- MCWorkers3
INVARIANTS
    NothingForgotten
    FullStrength
PROPERTIES
    ImplementsOrderedRun
    ExecutionEnds
