\* u32 has 3 bits; the clock may be set to 0, 3 or the last second but one.
CONSTANTS
    MAX_U32 = 7
    Epochs = {0, 3, 6}
    TicksPerSecond = 2
    MaxTicks = 5
SPECIFICATION Spec
INVARIANTS
    TypeOK
    UniqueUntilMax
