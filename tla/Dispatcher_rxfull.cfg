\* The clock of the model stops at MaxClock, and what waits for a later instant with it.
CHECK_DEADLOCK FALSE
CONSTANTS
    r1 = r1
    r2 = r2
    r3 = r3
    p1 = p1
    p2 = p2
    p3 = p3
    NoRequest = NoRequest
    Requests = {r1}
    Packets = {p1, p2}
    Priority <- MCPriority
    DelayMs <- MCDelayMs
    Estimate <- MCEstimate
    SentAsFlood <- MCSentAsFlood
    HeardAsFlood <- MCHeardAsFlood
    RawDelayMs <- MCRawDelayMs
    TX_Q = 1
    RX_Q = 1
    CadTimeoutMs = 1
    CadRetryMinMs = 1
    CadRetryMaxMs = 2
    MinRxDelayThresholdMs = 1
    MaxRxDelayMs = 4
    BudgetFactor = 1
    WindowMs = 40
    MinReserveMs = 1
    Overrun = 0
    MaxLag = 1
    Horizon = 2
    MaxClock = 9
SPECIFICATION Spec
PROPERTY DroppedOnlyWhenChannelFull
