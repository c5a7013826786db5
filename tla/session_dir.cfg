CONSTANTS
    p1 = p1
    p2 = p2
    p3 = p3
    n1 = n1
    Proc <- Procs
    Name <- OneName
    File <- TwoFiles
    Chunks = 2
    Work <- ThreeJobs
    Faults <- AllFaults
SPECIFICATION LiveSpec
INVARIANTS
    LeftoversExplained
    BegunSessionsKept
    EndsCounted
PROPERTIES
    TornReadExplained
    AllDone
