SPECIFICATION FairSpec
CONSTANTS
    s1 = s1
    Interval = 2
    Immediately = TRUE
    Stoppers <- MCStoppers
    MaxTime = 8
    MaxStarts = 2
    MaxPauses = 2
INVARIANTS
    NoOverlap
    SleepsForAReason
PROPERTIES
    OneRunPerSlot
    StopEnds
