CONSTANTS
    Base <- Location
    Others <- Neighbours
    Dirs <- HostDirs
    Links <- ChrootLinks
    NamePrefix <- BeginningOf
    Fstabs <- Tables
    MaxFaults = 1
    MaxOther = 2
SPECIFICATION Spec
INVARIANTS
    MountedWhereNamed
    UnmountedExactly
