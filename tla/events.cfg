SPECIFICATION MCSpec
CONSTANTS
    h1 = h1
    h2 = h2
    c1 = c1
    Handlers <- MCHandlers
    Callers <- MCCallers
    MaxEvents = 3
    MaxChanges = 4
    Threads = {t1, t2, t3}
    LoopThreads = {t2}
    WorkThreads = {t3}
INVARIANTS
    InOrder
PROPERTIES
    DrainDelivers
    DrainEnds
    ThreadReturns
    NothingLeftBehind
    CloseFinishes
