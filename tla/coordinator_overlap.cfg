SPECIFICATION Spec
CONSTANTS
    c1 = c1
    c2 = c2
    c3 = c3
    k1 = k1
    a = a
    b = b
    NoCall = NoCall
    Calls <- MCCalls3
    Closers <- MCClosers
    Ids <- MCIds
    Policies = {"QUEUE", "SKIP_IF_RUNNING", "CANCEL_PREVIOUS"}
    Requests <- MCFewRequests
SYMMETRY Symmetry
INVARIANTS
    OneRefreshAtATime
    NobodyStranded
    NewestWins
    AnsweredOnce
    CloseDrains
PROPERTIES
    ServedInOrder
