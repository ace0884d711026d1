SPECIFICATION Spec
CONSTANTS
    c1 = c1
    c2 = c2
    c3 = c3
    k1 = k1
    a = a
    b = b
    NoCall = NoCall
    Calls <- MCCalls3
    Closers = {}
    Ids <- MCIds
    Policies = {"COALESCE"}
    Requests <- MCRequests
SYMMETRY SymmetryWithIds
INVARIANTS
    CoalescingKeepsWork
    CancelledWhenAbandoned
