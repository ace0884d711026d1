SPECIFICATION MCSpec
CONSTANTS
    Items <- MCItems
    Plans <- MCPlans
    r1 = r1
    r2 = r2
    r3 = r3
    Resources <- MCResources
    Named <- MCNamed
    TagsOf <- MCTagsOf
    Leaves <- MCLeaves
    MaxOperators = 2
    Classes <- MCClasses
    Atoms <- MCAtoms
    Absent = Absent
    MaxNested = 2
    Ids = {i1, i2}
    States = {s1, s2}
    None = None
    Deleted = Deleted
    Unasked = Unasked
    Transactions = {t1, t2}
    Universe = {u1, u2}
    MaxConcurrency = 2
    MaxAttempts = 2
INVARIANTS
    BlockedByCycles
    CyclesExact
    ReportsShortestCycle
    SelectsAsWritten
    MergeDoesBoth
    FingerprintsTell
    ResultAdds
    StatusMeans
    MetricsAgree
PROPERTIES
    KeepsPromise
CHECK_DEADLOCK FALSE
