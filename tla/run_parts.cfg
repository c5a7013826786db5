CONSTANTS
    Entries <- Directory
    Chunks <- Writes
    BUFSIZ = 3
    MaxWrites = 2
    MaxFaults = 1
SPECIFICATION Spec
INVARIANTS
    LinesRelayed
    NotKilledByRelay
    StatusIsTrue
PROPERTIES
    RunEnds
