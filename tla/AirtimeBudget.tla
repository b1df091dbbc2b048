--------------------------- MODULE AirtimeBudget ---------------------------
(* The life of the dispatcher's airtime budget: what maybe_transmit          *)
(* (dispatcher.rs) does to DutyCycleTracker, iteration after iteration, with *)
(* everything else of the dispatcher left out.  Dispatcher.tla implements    *)
(* this module (property BudgetIsKept there).                                *)
EXTENDS DutyCycle

CONSTANTS
    Estimates,  \* estimate_airtime_ms of the packets that may be sent
    Overrun,    \* by how much a send may outlast its estimate, in ms
    MaxClock    \* bound of the model: the clock stops here

ASSUME AirtimeAssumption ==
    /\ Estimates \subseteq Nat
    /\ Overrun \in Nat
    /\ MaxClock \in Nat

VARIABLES
    clock,       \* Instant::now(), in ms
    budget,      \* DutyCycleTracker.budget_ms
    lastRefill,  \* DutyCycleTracker.last_refill
    sending,     \* estimate of the packet that passed can_transmit, or NoTx
    txStart,     \* tx_start of the send in progress, or NoTx
    airtime,     \* DispatcherStats.total_air_time_ms
    sent         \* DispatcherStats.sent_flood + sent_direct

vars == <<clock, budget, lastRefill, sending, txStart, airtime, sent>>

NoTx == -1

TypeOK ==
    /\ clock \in Nat
    /\ budget \in 0..MaxBudgetMs
    /\ lastRefill \in 0..clock
    /\ sending \in Estimates \cup {NoTx}
    /\ txStart \in 0..clock \cup {NoTx}
    /\ airtime \in Nat
    /\ sent \in Nat

Init ==
    /\ clock = 0
    /\ budget = MaxBudgetMs
    /\ lastRefill = 0
    /\ sending = NoTx
    /\ txStart = NoTx
    /\ airtime = 0
    /\ sent = 0

Tick ==
    /\ clock < MaxClock
    /\ clock' = clock + 1
    /\ UNCHANGED <<budget, lastRefill, sending, txStart, airtime, sent>>

Refill ==
    /\ budget' = Refilled(budget, clock - lastRefill)
    /\ lastRefill' = clock

\* maybe_transmit returns early: nothing is ready, or the budget is too small.
Poll ==
    /\ sending = NoTx
    /\ Refill
    /\ UNCHANGED <<clock, sending, txStart, airtime, sent>>

\* maybe_transmit commits to a packet whose estimated airtime is `est`; the
\* wait for a clear channel comes next.
Commit(est) ==
    /\ sending = NoTx
    /\ Refill
    /\ CanTransmit(budget', est)
    /\ sending' = est
    /\ UNCHANGED <<clock, txStart, airtime, sent>>

\* The channel is clear, or the wait for it timed out: send() starts.
StartSend ==
    /\ sending # NoTx /\ txStart = NoTx
    /\ txStart' = clock
    /\ UNCHANGED <<clock, budget, lastRefill, sending, airtime, sent>>

\* Mutant: the airtime is counted but not deducted.
SendOk_Uncharged ==
    /\ txStart # NoTx
    /\ clock - txStart \in 1..(sending + Overrun)
    /\ airtime' = airtime + (clock - txStart)
    /\ sent' = sent + 1
    /\ sending' = NoTx /\ txStart' = NoTx
    /\ UNCHANGED <<clock, budget, lastRefill>>

\* send() succeeded; the airtime is measured with the clock.  The radio (external)
\* needs some time, and at most Overrun more than estimate_airtime_ms said.
SendOk ==
    /\ txStart # NoTx
    /\ clock - txStart \in 1..(sending + Overrun)
    /\ budget' = Deducted(budget, clock - txStart)
    /\ airtime' = airtime + (clock - txStart)
    /\ sent' = sent + 1
    /\ sending' = NoTx /\ txStart' = NoTx
    /\ UNCHANGED <<clock, lastRefill>>

\* send() failed: the packet is lost and nothing is charged.
SendErr ==
    /\ txStart # NoTx
    /\ sending' = NoTx /\ txStart' = NoTx
    /\ UNCHANGED <<clock, budget, lastRefill, airtime, sent>>

Next ==
    \/ Tick
    \/ Poll
    \/ \E est \in Estimates : Commit(est)
    \/ StartSend
    \/ SendOk
    \/ SendErr

Spec == Init /\ [][Next]_vars
-----------------------------------------------------------------------------
\* The airtime of all successful sends is at most twice the initial budget and
\* the duty-cycle share of the time that passed, plus, per send, the rounding of
\* est / 2 and the overrun of its estimate.  The factor two is the price of
\* can_transmit asking for half of the estimate and deduct saturating at zero.
AirtimeBound ==
    airtime <= 2 * (MaxBudgetMs + DutyShare(clock)) + (1 + Overrun) * sent

\* "1.0 = 50% TX / 50% RX duty cycle" (types.rs 34): the airtime stays within
\* the initial budget and the share of the time that passed, but for the last
\* packet.
DutyCycleKept ==
    \E last \in Estimates :
        airtime <= MaxBudgetMs + DutyShare(clock) + last + Overrun
=============================================================================
