SPECIFICATION FairSpec
CONSTANTS
    MaxCount = 4
    MaxWorkers = 3
    Radix = 2
    Passes = 2
    InsertionLimit = 3
    ParallelMinimum = 4
    Garbage = Garbage
INVARIANTS
    BuffersOutliveThreads
    ScattersDisjoint
    SortedStably
PROPERTY SortEnds
