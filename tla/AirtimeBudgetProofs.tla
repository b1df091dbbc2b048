------------------------ MODULE AirtimeBudgetProofs ------------------------
(* The airtime budget for every configuration: types, and the bound on what  *)
(* the dispatcher can put on the air.                                        *)
EXTENDS AirtimeBudget, DutyCycleProofs

\* The allowance of AirtimeBound per sent packet.
LEMMA AllowanceGrows ==
    ASSUME NEW n \in Nat
    PROVE  /\ Overrun \in Nat
           /\ (1 + Overrun) * n \in Nat
           /\ (1 + Overrun) * (n + 1) = (1 + Overrun) * n + 1 + Overrun
  <1>1. Overrun \in Nat
    BY AirtimeAssumption
  <1> QED
    BY <1>1

-----------------------------------------------------------------------------
\* The code behaviour: every field of the tracker keeps its range, in particular
\* the budget never leaves 0..max_budget_ms and the refill clock never runs ahead.
THEOREM TypeCorrect == Spec => []TypeOK
  <1>1. Init => TypeOK
    BY ShareIsSuperadditive, BudgetAssumption DEF Init, TypeOK, MaxBudgetMs, NoTx
  <1>2. TypeOK /\ [Next]_vars => TypeOK'
    <2> SUFFICES ASSUME TypeOK, [Next]_vars PROVE TypeOK'
      OBVIOUS
    <2> USE DEF TypeOK
    <2>0. MaxBudgetMs \in Nat
      BY MaxBudgetIsNat
    <2>1. CASE Tick
      BY <2>1, <2>0 DEF Tick, NoTx
    <2>2. Refill => budget' \in 0..MaxBudgetMs /\ lastRefill' = clock
      BY RefillIsBounded DEF Refill
    <2>3. CASE Poll
      BY <2>2, <2>3 DEF Poll
    <2>4. CASE \E est \in Estimates : Commit(est)
      BY <2>2, <2>4 DEF Commit
    <2>5. CASE StartSend
      BY <2>5 DEF StartSend, NoTx
    <2>6. CASE SendOk
      <3>1. clock - txStart \in Nat
        BY <2>6 DEF SendOk, NoTx
      <3>2. Deducted(budget, clock - txStart) \in 0..MaxBudgetMs
        BY <3>1, <2>0 DEF Deducted
      <3> QED
        BY <2>6, <3>1, <3>2 DEF SendOk
    <2>7. CASE SendErr
      BY <2>7 DEF SendErr
    <2>8. CASE UNCHANGED vars
      BY <2>8 DEF vars
    <2> QED
      BY <2>1, <2>3, <2>4, <2>5, <2>6, <2>7, <2>8 DEF Next
  <1> QED
    BY <1>1, <1>2, PTL DEF Spec

\* What was checked before the wait for a clear channel still holds when the
\* packet is on the air: nothing spends the budget in between, although both
\* the wait and the send suspend the dispatcher (dispatcher.rs 208-222).
DecisionStillCovered ==
    sending # NoTx => CanTransmit(budget, sending)

\* The code behaviour: between can_transmit (dispatcher.rs 208) and deduct (227)
\* the dispatcher is suspended twice, and the budget is untouched.
THEOREM DecisionHolds == Spec => []DecisionStillCovered
  <1>1. Init => DecisionStillCovered
    BY DEF Init, DecisionStillCovered
  <1>2. DecisionStillCovered /\ [Next]_vars => DecisionStillCovered'
    BY DEF DecisionStillCovered, Next, vars, Tick, Poll, Commit, StartSend,
           SendOk, SendErr, CanTransmit
  <1> QED
    BY <1>1, <1>2, PTL DEF Spec

-----------------------------------------------------------------------------
\* What is on the books: airtime already used, plus twice what may still be
\* spent, against what was granted up to the last refill.  Unlike AirtimeBound
\* it is inductive: a refill and a charge each move both sides.
Books ==
    airtime + 2 * budget
        <= 2 * (MaxBudgetMs + DutyShare(lastRefill)) + (1 + Overrun) * sent

\* Only a committed packet is on the air.
OnAirIsCommitted == txStart # NoTx => sending # NoTx

\* One refill keeps the books.
LEMMA RefillKeepsBooks ==
    ASSUME TypeOK, Books, Refill, airtime' = airtime, sent' = sent
    PROVE  Books'
  <1> DEFINE gap == clock - lastRefill
  <1>1. gap \in Nat /\ lastRefill \in Nat /\ lastRefill + gap = clock
    BY DEF TypeOK
  <1>2. /\ DutyShare(gap) \in Nat
        /\ DutyShare(lastRefill) \in Nat
        /\ DutyShare(clock) \in Nat
        /\ DutyShare(lastRefill) + DutyShare(gap) <= DutyShare(clock)
    BY <1>1, ShareIsSuperadditive
  <1>3. budget' \in Nat /\ budget' <= budget + DutyShare(gap)
    BY <1>1, RefillIsBounded DEF Refill, TypeOK
  <1>4. MaxBudgetMs \in Nat
    BY MaxBudgetIsNat
  <1>5. (1 + Overrun) * sent \in Nat
    BY AllowanceGrows DEF TypeOK
  <1> HIDE DEF gap
  <1>6. airtime \in Nat /\ budget \in Nat
    BY DEF TypeOK
  <1> QED
    BY <1>2, <1>3, <1>4, <1>5, <1>6 DEF Books, Refill

\* The code behaviour: with can_transmit asking for half of the estimate, the
\* total airtime never exceeds twice the budget the configuration grants (plus
\* one rounding and one overrun per packet), for every configuration and any
\* interleaving of polls, waits and sends.
THEOREM AirtimeIsBounded == Spec => []AirtimeBound
  <1>1. Init => Books
    <2>1. MaxBudgetMs \in Nat /\ DutyShare(0) \in Nat
      BY MaxBudgetIsNat, ShareIsSuperadditive
    <2> QED
      BY <2>1, AirtimeAssumption DEF Init, Books
  <1>2. /\ TypeOK /\ TypeOK' /\ DecisionStillCovered /\ OnAirIsCommitted
        /\ Books /\ [Next]_vars
        => Books'
    <2> SUFFICES ASSUME TypeOK, TypeOK', DecisionStillCovered, OnAirIsCommitted,
                        Books, [Next]_vars
                 PROVE  Books'
      OBVIOUS
    <2>1. CASE Tick
      BY <2>1 DEF Tick, Books
    <2>2. CASE Poll
      BY <2>2, RefillKeepsBooks DEF Poll
    <2>3. CASE \E est \in Estimates : Commit(est)
      BY <2>3, RefillKeepsBooks DEF Commit
    <2>4. CASE StartSend
      BY <2>4 DEF StartSend, Books
    <2>5. CASE SendOk
      <3> DEFINE air == clock - txStart
      <3>0. lastRefill \in Nat
        BY DEF TypeOK
      <3>1. MaxBudgetMs \in Nat /\ DutyShare(lastRefill) \in Nat
        BY <3>0, MaxBudgetIsNat, ShareIsSuperadditive
      <3>2. sending # NoTx
        BY <2>5 DEF SendOk, OnAirIsCommitted
      <3>3. air \in Nat /\ sending \in Nat /\ budget \in Nat /\ sent \in Nat
        BY <2>5, <3>2, <3>1, AirtimeAssumption DEF SendOk, TypeOK, NoTx
      <3>4. budget' = Deducted(budget, air) /\ airtime' = airtime + air
            /\ sent' = sent + 1 /\ lastRefill' = lastRefill
        BY <2>5 DEF SendOk
      <3>5. /\ Overrun \in Nat
            /\ (1 + Overrun) * sent \in Nat
            /\ (1 + Overrun) * (sent + 1) = (1 + Overrun) * sent + 1 + Overrun
        BY <3>3, AllowanceGrows
      <3>6. air + 2 * Deducted(budget, air) <= 2 * budget + 1 + Overrun
        <4>1. air <= sending + Overrun /\ CanTransmit(budget, sending)
          BY <2>5, <3>2, <3>3, <3>5 DEF SendOk, DecisionStillCovered
        <4> HIDE DEF air
        <4> QED
          BY <4>1, <3>3, <3>5, ChargeCoversHalf
      <3>7. airtime \in Nat /\ budget' \in Nat
        BY <3>1 DEF TypeOK
      <3> HIDE DEF air
      <3> QED
        BY <3>3, <3>4, <3>5, <3>6, <3>1, <3>7 DEF Books
    <2>6. CASE SendErr
      BY <2>6 DEF SendErr, Books
    <2>7. CASE UNCHANGED vars
      BY <2>7 DEF vars, Books
    <2> QED
      BY <2>1, <2>2, <2>3, <2>4, <2>5, <2>6, <2>7 DEF Next
  <1>3. TypeOK /\ Books => AirtimeBound
    <2> SUFFICES ASSUME TypeOK, Books PROVE AirtimeBound
      OBVIOUS
    <2>1. clock - lastRefill \in Nat /\ lastRefill \in Nat
          /\ lastRefill + (clock - lastRefill) = clock
      BY DEF TypeOK
    <2>2. /\ DutyShare(lastRefill) <= DutyShare(clock)
          /\ DutyShare(lastRefill) \in Nat /\ DutyShare(clock) \in Nat
      BY <2>1, ShareIsSuperadditive
    <2>3. MaxBudgetMs \in Nat
      BY MaxBudgetIsNat
    <2>4. (1 + Overrun) * sent \in Nat /\ airtime \in Nat /\ budget \in Nat
      BY <2>3, AllowanceGrows DEF TypeOK
    <2> QED
      BY <2>2, <2>3, <2>4 DEF Books, AirtimeBound
  <1>4. Init => OnAirIsCommitted
    BY DEF Init, OnAirIsCommitted
  <1>5. OnAirIsCommitted /\ [Next]_vars => OnAirIsCommitted'
    <2> SUFFICES ASSUME OnAirIsCommitted, [Next]_vars PROVE OnAirIsCommitted'
      OBVIOUS
    <2>1. CASE \E est \in Estimates : Commit(est)
      BY <2>1, AirtimeAssumption DEF Commit, OnAirIsCommitted, NoTx
    <2> QED
      BY <2>1 DEF OnAirIsCommitted, Next, vars, Tick, Poll, StartSend, SendOk, SendErr
  <1> QED
    BY <1>1, <1>2, <1>3, <1>4, <1>5, TypeCorrect, DecisionHolds, PTL DEF Spec
=============================================================================
