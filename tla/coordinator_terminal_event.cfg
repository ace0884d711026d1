SPECIFICATION Spec
CONSTANTS
    c1 = c1
    c2 = c2
    c3 = c3
    k1 = k1
    a = a
    b = b
    NoCall = NoCall
    Calls <- MCCalls2
    Closers <- MCClosers
    Ids <- MCIds
    Policies = {"COALESCE", "QUEUE", "SKIP_IF_RUNNING", "CANCEL_PREVIOUS"}
    Requests <- MCFewRequests
INVARIANTS
    ExactlyOneTerminalEvent
