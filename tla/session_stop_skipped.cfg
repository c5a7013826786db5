CONSTANTS
    s1 = s1
    s2 = s2
    Slots <- OneSlot
    TypeOf <- OneDirectory
    MaxChroots = 1
    Faults <- PamFaults
SPECIFICATION Spec
INVARIANT StopAlwaysRun
