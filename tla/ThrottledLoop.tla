--------------------------- MODULE ThrottledLoop ---------------------------
(* The dispatcher while packets wait for budget: the most urgent one is back *)
(* in the queue with a send_after that has passed (Throttled in              *)
(* Dispatcher.tla), so Timer::at fires at once and every iteration refills   *)
(* the budget again.  The clock is the time since the last refill, which is  *)
(* finite without a bound on time.                                           *)
EXTENDS DutyCycle

CONSTANTS
    Waiting,      \* the estimated airtime of each waiting packet
    MaxIdleMs     \* the longest an iteration without a send may take

VARIABLES budget, idle

vars == <<budget, idle>>

Init == budget = MaxBudgetMs /\ idle = 0

Tick == idle < MaxIdleMs /\ idle' = idle + 1 /\ UNCHANGED budget

\* One iteration: refill, and nothing else while the budget is too small ...
Throttled ==
    /\ ~CanTransmit(Refilled(budget, idle), Waiting)
    /\ budget' = Refilled(budget, idle)
    /\ idle' = 0

\* ... or a send of `Waiting` ms, all of them since the refill.
Transmit ==
    /\ CanTransmit(Refilled(budget, idle), Waiting)
    /\ budget' = Deducted(Refilled(budget, idle), Waiting)
    /\ idle' = Waiting

Iterate == Throttled \/ Transmit

Next == Tick \/ Iterate

Spec == Init /\ [][Next]_vars /\ WF_vars(Tick) /\ WF_vars(Iterate)

\* "Budget refills over time at `duty_cycle` rate" (duty_cycle.rs 5): time is all
\* a waiting packet needs, so there is budget for one again and again.
CreditArrives == []<>CanTransmit(Refilled(budget, idle), Waiting)
=============================================================================
