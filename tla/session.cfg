CONSTANTS
    s1 = s1
    s2 = s2
    Slots <- TwoSlots
    TypeOf <- BlockAndFile
    MaxChroots = 2
    Faults <- AllFaults
SPECIFICATION LiveSpec
INVARIANTS
    
    
    SessionErrorReported
    StopDiscipline
PROPERTIES
    CollisionHarmless
    
    Terminates
