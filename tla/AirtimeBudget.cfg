\* Duty cycle 1/8 of a window of 16 ms; packets of 2 and 4 ms against a budget of 2 ms.
CONSTANTS
    BudgetFactor = 7
    WindowMs = 16
    MinReserveMs = 1
    Estimates = {2, 4}
    Overrun = 1
    MaxClock = 20
SPECIFICATION Spec
INVARIANTS
    TypeOK
    AirtimeBound
