------------------------------ MODULE RxDelay ------------------------------
(* RxDelayQueue and calc_rx_delay (crates/meshcore-dispatch/src/rx_delay.rs):*)
(* weak flood packets are held back, to let stronger copies arrive first.    *)
(* An entry is a record with the fields packet and deliver_at.               *)
EXTENDS HeaplessVec

CONSTANTS
    MinRxDelayThresholdMs,  \* config.min_rx_delay_threshold_ms
    MaxRxDelayMs            \* config.max_rx_delay_ms

ASSUME RxDelayAssumption == MinRxDelayThresholdMs \in Nat /\ MaxRxDelayMs \in Nat

NoDelay == -1

\* calc_rx_delay() on the raw product (10^(0.85 - snr/4) - 1) * airtime_ms,
\* rounded to an integer: NoDelay is None, otherwise Some(delay_ms).
CalcRxDelay(raw) ==
    IF raw < MinRxDelayThresholdMs THEN NoDelay
    ELSE IF raw > MaxRxDelayMs THEN MaxRxDelayMs
    ELSE raw

RxEntry(packet, deliverAt) == [packet |-> packet, deliver_at |-> deliverAt]

\* Mutant: pop_ready does not look at deliver_at.
RxReady_All(queue, now) == 1..Len(queue)

RxReady(queue, now) == {i \in 1..Len(queue) : queue[i].deliver_at <= now}

\* Mutant: the first ready entry.
RxBest_First(queue, now) ==
    CHOOSE i \in RxReady(queue, now) : \A j \in RxReady(queue, now) : i <= j

\* The index pop_ready removes: the earliest entry, the first of equals.
RxBest(queue, now) ==
    CHOOSE i \in RxReady(queue, now) :
        \A j \in RxReady(queue, now) \ {i} :
            \/ queue[i].deliver_at < queue[j].deliver_at
            \/ queue[i].deliver_at = queue[j].deliver_at /\ i < j

RxNextReadyTime(queue) == Earliest({queue[i].deliver_at : i \in 1..Len(queue)})
=============================================================================
