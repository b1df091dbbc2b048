-------------------------- MODULE DutyCycleProofs --------------------------
(* What the arithmetic of the airtime budget guarantees, for every           *)
(* configuration.                                                            *)
EXTENDS DutyCycle, TLAPS

\* Truncated shares: two parts together never get more than the whole.
LEMMA ShareIsSuperadditive ==
    ASSUME NEW a \in Nat, NEW b \in Nat
    PROVE  /\ DutyShare(a) \in Nat
           /\ DutyShare(b) \in Nat
           /\ DutyShare(a + b) \in Nat
           /\ DutyShare(a) + DutyShare(b) <= DutyShare(a + b)
  BY BudgetAssumption, SMTT(60) DEF DutyShare

\* The configured budget is a number of milliseconds.
LEMMA MaxBudgetIsNat == MaxBudgetMs \in Nat
  BY ShareIsSuperadditive, BudgetAssumption DEF MaxBudgetMs

\* refill() stays within the maximum, never lowers the budget, and never credits
\* more than the share of the elapsed time.
LEMMA RefillIsBounded ==
    ASSUME NEW b \in 0..MaxBudgetMs, NEW elapsed \in Nat
    PROVE  /\ Refilled(b, elapsed) \in 0..MaxBudgetMs
           /\ b <= Refilled(b, elapsed)
           /\ Refilled(b, elapsed) <= b + DutyShare(elapsed)
  <1>1. MaxBudgetMs \in Nat /\ DutyShare(elapsed) \in Nat
    BY MaxBudgetIsNat, ShareIsSuperadditive
  <1> QED
    BY <1>1 DEF Refilled

\* deduct() against a budget that covers half of the estimate: the airtime is at
\* most twice what is charged, but for the rounding and the overrun.
LEMMA ChargeCoversHalf ==
    ASSUME NEW b \in Nat, NEW est \in Nat, NEW air \in Nat,
           NEW overrun \in Nat, CanTransmit(b, est), air <= est + overrun
    PROVE  /\ Deducted(b, air) \in 0..b
           /\ air + 2 * Deducted(b, air) <= 2 * b + 1 + overrun
  <1>1. est <= 2 * b + 1
    BY SMTT(30) DEF CanTransmit
  <1> QED
    BY <1>1 DEF Deducted
=============================================================================
