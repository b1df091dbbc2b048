----------------------- MODULE DispatcherProperties -----------------------
(* What the dispatcher owes the mesh layer and the air.                      *)
EXTENDS Dispatcher

Outcomes == {"none", "sent", "lost", "dropped"}
Fates == {"none", "delivered", "dropped"}

TypeOK ==
    /\ clock \in Nat /\ since \in 0..clock
    /\ pc \in {"drain", "deliver", "transmit", "cad", "backoff", "send", "wait"}
    /\ txIn \in Seq(Requests) /\ Len(txIn) <= TX_Q
    /\ rxOut \in Seq(Packets) /\ Len(rxOut) <= RX_Q
    /\ txQueue \in Seq([request : Requests, priority : Nat, send_after : Nat])
    /\ Len(txQueue) <= TX_Q
    /\ rxDelayQueue \in Seq([packet : Packets, deliver_at : Nat])
    /\ Len(rxDelayQueue) <= RX_Q
    /\ current \in Requests \cup {NoRequest}
    /\ cadDeadline \in Nat \cup {NoTime} /\ retryAt \in Nat \cup {NoTime}
    /\ budget \in 0..MaxBudgetMs /\ lastRefill \in 0..clock
    /\ stats \in [total_air_time_ms : Nat, sent_flood : Nat, sent_direct : Nat,
                  recv_flood : Nat, recv_direct : Nat]
    /\ submittedAt \in [Requests -> 0..clock \cup {NoTime}]
    /\ outcome \in [Requests -> Outcomes]
    /\ heardAt \in [Packets -> 0..clock \cup {NoTime}]
    /\ fate \in [Packets -> Fates]

-----------------------------------------------------------------------------
Injective(seq) == \A i, j \in 1..Len(seq) : seq[i] = seq[j] => i = j

QueuedRequests == [i \in 1..Len(txQueue) |-> txQueue[i].request]
DelayedPackets == [i \in 1..Len(rxDelayQueue) |-> rxDelayQueue[i].packet]

Occupants(seq) == {seq[i] : i \in 1..Len(seq)}

\* A submitted request is in exactly one place until it is sent, lost or dropped:
\* no path of the loop loses one (the entry popped and put back when the budget is
\* short, dispatcher.rs 199-211), forgets one, or has one twice.
RequestsAccounted ==
    /\ Injective(txIn) /\ Injective(QueuedRequests)
    /\ Occupants(txIn) \cap Occupants(QueuedRequests) = {}
    /\ current \notin Occupants(txIn) \cup Occupants(QueuedRequests)
    /\ Occupants(txIn) \cup Occupants(QueuedRequests) \cup ({current} \ {NoRequest})
         = {r \in Requests : submittedAt[r] # NoTime /\ outcome[r] = "none"}

\* A frame that was heard is held exactly once in the delay queue, or it has been
\* delivered or dropped; the channel holds delivered frames only, each once.
PacketsAccounted ==
    /\ Injective(DelayedPackets) /\ Injective(rxOut)
    /\ Occupants(DelayedPackets)
         = {p \in Packets : heardAt[p] # NoTime /\ fate[p] = "none"}
    /\ \A p \in Occupants(rxOut) : fate[p] = "delivered"

\* A request is never committed to the radio before its delay has passed since it
\* was submitted, however long it waited in the channel or went back to the queue.
NeverEarly ==
    current # NoRequest => clock >= submittedAt[current] + DelayMs[current]

\* A frame that calc_rx_delay holds back is delivered when its delay has passed,
\* never before: a stronger copy heard meanwhile overtakes it.
HeldBackLongEnough ==
    [][\A p \in Packets :
         fate[p] = "none" /\ fate'[p] = "delivered" /\ HeardAsFlood[p] =>
           clock >= heardAt'[p] + CalcRxDelay(RawDelayMs[p])]_vars

\* A busy channel holds a transmission back for the CAD timeout and one backoff
\* (with the lag of two awaits), never longer, however often it is polled.
LongestRetry ==
    IF CadRetryMinMs >= CadRetryMaxMs THEN CadRetryMinMs ELSE CadRetryMaxMs - 1

CadIsBounded ==
    pc \in {"cad", "backoff"} =>
        cadDeadline # NoTime /\ clock <= cadDeadline + LongestRetry + 2 * MaxLag

\* The counters tell what happened: a failed send or a dropped request is not
\* counted as sent, every frame heard is counted once.
StatsAreTrue ==
    /\ stats.sent_flood
         = Cardinality({r \in Requests : outcome[r] = "sent" /\ SentAsFlood[r]})
    /\ stats.sent_direct
         = Cardinality({r \in Requests : outcome[r] = "sent" /\ ~SentAsFlood[r]})
    /\ stats.recv_flood + stats.recv_direct
         = Cardinality({p \in Packets : heardAt[p] # NoTime})

\* The dispatcher implements the airtime budget on its own: nothing of the loop,
\* the queues or the channel wait spends, refills or checks it in another way.
Budget == INSTANCE AirtimeBudget WITH
    Estimates <- {Estimate[r] : r \in Requests},
    sending <- IF current = NoRequest THEN -1 ELSE Estimate[current],
    txStart <- IF pc = "send" THEN since ELSE -1,
    airtime <- stats.total_air_time_ms,
    sent <- stats.sent_flood + stats.sent_direct

BudgetIsKept == Budget!Spec

-----------------------------------------------------------------------------
\* The dispatcher implements StoreAndForward: its vectors are sets, whatever swap_remove
\* and put-back do to their order; a commit overlooks nothing that was submitted or is due
\* (dispatcher.rs 88-101); only a full queue or channel drops anything.
Promise == INSTANCE StoreAndForward WITH
    waiting <- Occupants(txQueue),
    held <- Occupants(rxDelayQueue)

DispatchesAsPromised == Promise!Spec

\* How long the loop may be away from its queues: a channel wait and a send.
Away(from, to) ==
    \/ to <= from
    \/ \E r \in Requests :
          to <= from + CadTimeoutMs + LongestRetry + 2 * MaxLag + Estimate[r] + Overrun

\* A frame is never held back longer than its delay, one transmission and the lag of a
\* timer: due frames go first in every iteration (dispatcher.rs 94), and the loop comes back
\* to them after each send.
DeliveredInTime ==
    \A i \in 1..Len(rxDelayQueue) :
        Away(rxDelayQueue[i].deliver_at + MaxLag, clock)

\* The delay of a request counts from when it is taken from the channel (tx_queue.rs 50), at
\* most one transmission after it was submitted.
ScheduledInTime ==
    \A i \in 1..Len(txQueue) :
        LET r == txQueue[i].request
        IN  Away(submittedAt[r] + DelayMs[r], txQueue[i].send_after)

\* No less urgent request is committed before one that was submitted without a delay, and
\* one with a delay is overtaken only until that, and a channel wait and a send, have passed
\* since it was submitted: wherever it is by then, in the channel (dispatcher.rs 88-91), or
\* in the queue behind what a short budget put back (208-211) and swap_remove moved.
UrgentNotOvertaken ==
    [][\A r \in Requests :
         /\ current = NoRequest /\ current' # NoRequest
         /\ submittedAt[r] # NoTime /\ outcome[r] = "none"
         /\ Priority[r] < Priority[current']
         => /\ DelayMs[r] > 0
            /\ Away(submittedAt[r] + DelayMs[r], clock)]_vars

-----------------------------------------------------------------------------
\* Whatever the air brings and however slow the mesh layer is, every request
\* accepted into the channel leaves the dispatcher.
EveryRequestResolved ==
    \A r \in Requests : (submittedAt[r] # NoTime) ~> (outcome[r] # "none")

\* Every frame heard is delivered or dropped, with no other event needed to wake
\* the dispatcher up for a frame it holds back.
EveryPacketResolved ==
    \A p \in Packets : (heardAt[p] # NoTime) ~> (fate[p] # "none")

-----------------------------------------------------------------------------
\* "If delay queue is full, deliver immediately." (dispatcher.rs 181): a frame is
\* dropped only when the channel to the mesh layer is full.
DroppedOnlyWhenChannelFull ==
    [][\A p \in Packets :
         fate[p] = "none" /\ fate'[p] = "dropped" => Len(rxOut) = RX_Q]_vars
=============================================================================
