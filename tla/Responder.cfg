\* At the end of the bounds nothing is heard any more and the responder waits.
CHECK_DEADLOCK FALSE
CONSTANTS
    Others <- MCOthers
    Hops = {1}
    NodeName = "rak4631"
    NoPacket = NoPacket
    Trace = "Trace"
    ZERO_HASH = ZERO_HASH
    N = 3
    TX_Q = 1
    RX_Q = 1
    MaxHeard = 4
    MaxClock = 1
    MaxStarts = 2
SPECIFICATION FairSpec
INVARIANTS
    TypeOK
    EchoIgnored
    AnsweredOnce
    CommandsAnswered
PROPERTIES
    AlwaysListensAgain
