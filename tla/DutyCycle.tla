----------------------------- MODULE DutyCycle -----------------------------
(* The arithmetic of DutyCycleTracker (crates/meshcore-dispatch/src/         *)
(* duty_cycle.rs): the transmit-airtime budget of the dispatcher, in whole   *)
(* milliseconds.  The f32 ratio 1 / (1 + airtime_budget_factor) followed by  *)
(* "as u32" is integer division by 1 + BudgetFactor: the factor is a natural *)
(* number here, and the truncation is the code's.                            *)
EXTENDS Integers

CONSTANTS
    BudgetFactor,   \* config.airtime_budget_factor
    WindowMs,       \* config.duty_cycle_window_ms
    MinReserveMs    \* config.min_tx_budget_reserve_ms

ASSUME BudgetAssumption ==
    BudgetFactor \in Nat /\ WindowMs \in Nat /\ MinReserveMs \in Nat

\* What `x * duty_cycle` leaves after the cast to u32.
DutyShare(x) == x \div (1 + BudgetFactor)

MaxBudgetMs == DutyShare(WindowMs)

\* Mutant: the cap at max_budget_ms is forgotten.
Refilled_Uncapped(budget, elapsed) == budget + DutyShare(elapsed)

\* refill(): credit for the time since the last refill, capped at the maximum.
Refilled(budget, elapsed) ==
    LET filled == budget + DutyShare(elapsed)
    IN  IF filled < MaxBudgetMs THEN filled ELSE MaxBudgetMs

\* can_transmit(): half of the estimate (MIN_TX_BUDGET_AIRTIME_DIV = 2), and the
\* reserve.
CanTransmit(budget, estimate) ==
    budget >= estimate \div 2 /\ budget >= MinReserveMs

\* deduct(): saturating subtraction of the measured airtime.
Deducted(budget, airtime) == IF airtime < budget THEN budget - airtime ELSE 0
=============================================================================
