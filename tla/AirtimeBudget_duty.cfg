CONSTANTS
    BudgetFactor = 1
    WindowMs = 6
    MinReserveMs = 1
    Estimates = {6}
    Overrun = 0
    MaxClock = 40
SPECIFICATION Spec
INVARIANT DutyCycleKept
