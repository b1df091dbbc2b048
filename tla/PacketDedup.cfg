CONSTANTS
    Packets <- MCPackets
    Trace = "Trace"
    ZERO_HASH = ZERO_HASH
    N = 3
    MaxDups = 2
SPECIFICATION Spec
INVARIANTS
    TypeOK
    NoRepeats
PROPERTIES
    ImplementsWindow
