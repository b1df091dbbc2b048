\* An iteration may take 0, 1 or 2 ms; half of each is credited, truncated.
\* The reserve is all of the budget, so a send alone does not earn the next one.
CONSTANTS
    BudgetFactor = 1
    WindowMs = 8
    MinReserveMs = 4
    Waiting = 6
    MaxIdleMs = 2
SPECIFICATION Spec
PROPERTY CreditArrives
