---------------------------- MODULE Dispatcher ----------------------------
(* The event loop of Dispatcher::run (crates/meshcore-dispatch/src/          *)
(* dispatcher.rs) with its two queues, its airtime budget, the two channels  *)
(* that connect it to the mesh layer, and the radio as its environment.      *)
(*                                                                           *)
(* All tasks share one cooperative executor: between two awaits the          *)
(* dispatcher runs alone, in less than a millisecond, so the mesh task and   *)
(* the clock move only while it is suspended (Awaiting).                     *)
EXTENDS TxQueue, RxDelay, DutyCycle, FiniteSets

CONSTANTS
    Requests,           \* TxRequests the mesh layer may submit, each once
    Priority, DelayMs,  \* their fields (functions on Requests)
    Estimate,           \* estimate_airtime_ms(wire_len) of each
    SentAsFlood,        \* route_type().is_flood() of each
    Packets,            \* well-formed frames that may arrive from the air, each once
    HeardAsFlood,       \* route_type().is_flood() of each
    RawDelayMs,         \* see CalcRxDelay
    NoRequest,
    TX_Q, RX_Q,         \* capacities of queues and channels
    CadTimeoutMs, CadRetryMinMs, CadRetryMaxMs,
    Overrun,            \* a send lasts at most this longer than its estimate
    MaxLag,             \* a due timer, or channel_active, takes at most this
    Horizon,            \* bound of the model: inputs arrive up to here
    MaxClock            \* bound of the model: the clock stops here

ASSUME DispatcherAssumption ==
    /\ NoRequest \notin Requests
    /\ Priority \in [Requests -> Nat]
    /\ DelayMs \in [Requests -> Nat]
    /\ Estimate \in [Requests -> Nat \ {0}]
    /\ SentAsFlood \in [Requests -> BOOLEAN]
    /\ HeardAsFlood \in [Packets -> BOOLEAN]
    /\ RawDelayMs \in [Packets -> Int]
    /\ TX_Q \in Nat \ {0} /\ RX_Q \in Nat \ {0}
    /\ CadTimeoutMs \in Nat /\ CadRetryMinMs \in Nat /\ CadRetryMaxMs \in Nat
    /\ Overrun \in Nat /\ MaxLag \in Nat \ {0}
    /\ Horizon \in Nat /\ MaxClock \in Nat

VARIABLES
    clock,          \* Instant::now(), in ms
    pc,             \* where run() is
    since,          \* when it got there
    txIn,           \* the channel mesh -> dispatcher
    rxOut,          \* the channel dispatcher -> mesh
    txQueue,        \* Dispatcher.tx_queue
    rxDelayQueue,   \* Dispatcher.rx_delay_queue
    current,        \* the entry popped for transmission, while in flight
    cadDeadline,    \* local `deadline` of wait_for_clear_channel
    retryAt,        \* when its backoff timer fires
    budget,         \* DutyCycleTracker.budget_ms
    lastRefill,     \* DutyCycleTracker.last_refill
    stats,          \* DispatcherStats
    submittedAt,    \* history: when each request entered txIn
    outcome,        \* history: how each request left the dispatcher
    heardAt,        \* history: when each frame was received
    fate            \* history: how each frame left the dispatcher

txVars == <<txIn, txQueue, current, submittedAt, outcome>>
rxVars == <<rxOut, rxDelayQueue, heardAt, fate>>
cadVars == <<cadDeadline, retryAt>>
dutyVars == <<budget, lastRefill>>
vars == <<clock, pc, since, txVars, rxVars, cadVars, dutyVars, stats>>

Init ==
    /\ clock = 0 /\ pc = "drain" /\ since = 0
    /\ txIn = <<>> /\ rxOut = <<>>
    /\ txQueue = <<>> /\ rxDelayQueue = <<>>
    /\ current = NoRequest
    /\ cadDeadline = NoTime /\ retryAt = NoTime
    /\ budget = MaxBudgetMs /\ lastRefill = 0
    /\ stats = [total_air_time_ms |-> 0, sent_flood |-> 0, sent_direct |-> 0,
                recv_flood |-> 0, recv_direct |-> 0]
    /\ submittedAt = [r \in Requests |-> NoTime]
    /\ outcome = [r \in Requests |-> "none"]
    /\ heardAt = [p \in Packets |-> NoTime]
    /\ fate = [p \in Packets |-> "none"]

Awaiting == pc \in {"cad", "backoff", "send", "wait"}

\* run() moves on; the instant is the same for every step of one slice.
Goto(label) == pc' = label /\ since' = clock

-----------------------------------------------------------------------------
\* The mesh layer: tx_in.send(req).await, which waits while the channel is full...
Submit(r) ==
    /\ Awaiting /\ clock <= Horizon
    /\ submittedAt[r] = NoTime
    /\ Len(txIn) < TX_Q
    /\ txIn' = Append(txIn, r)
    /\ submittedAt' = [submittedAt EXCEPT ![r] = clock]
    /\ UNCHANGED <<clock, pc, since, txQueue, current, outcome, rxVars, cadVars,
                   dutyVars, stats>>

\* ... and rx_out.receive().await.
TakeRx ==
    /\ Awaiting
    /\ rxOut # <<>>
    /\ rxOut' = Tail(rxOut)
    /\ UNCHANGED <<clock, pc, since, txVars, rxDelayQueue, heardAt, fate, cadVars,
                   dutyVars, stats>>

-----------------------------------------------------------------------------
\* Mutant: the full queue is not noticed.
Push_Unbounded(r) ==
    /\ txQueue' = Append(txQueue, TxEntry(r, Priority[r], clock + DelayMs[r]))
    /\ UNCHANGED outcome

\* tx_queue.push(): the delay counts from here; a full queue drops the request.
Push(r) ==
    IF Len(txQueue) = TX_Q
    THEN /\ outcome' = [outcome EXCEPT ![r] = "dropped"]
         /\ UNCHANGED txQueue
    ELSE /\ txQueue' = Append(txQueue, TxEntry(r, Priority[r], clock + DelayMs[r]))
         /\ UNCHANGED outcome

\* rx_out.try_send(): a full channel drops the frame.
TrySend(p) ==
    IF Len(rxOut) = RX_Q
    THEN fate' = [fate EXCEPT ![p] = "dropped"] /\ UNCHANGED rxOut
    ELSE fate' = [fate EXCEPT ![p] = "delivered"] /\ rxOut' = Append(rxOut, p)

\* tx_in.try_receive() / tx_in.receive(), then push.
Receive ==
    /\ txIn # <<>>
    /\ txIn' = Tail(txIn)
    /\ Push(Head(txIn))

\* 1. Drain pending TX submissions.
Drain ==
    /\ pc = "drain"
    /\ Receive
    /\ UNCHANGED <<clock, pc, since, current, submittedAt, rxVars, cadVars, dutyVars,
                   stats>>

\* Mutant: one submission is taken per iteration.
DrainDone_AfterOne ==
    /\ pc = "drain"
    /\ Goto("deliver")
    /\ UNCHANGED <<clock, txVars, rxVars, cadVars, dutyVars, stats>>

DrainDone ==
    /\ pc = "drain" /\ txIn = <<>>
    /\ Goto("deliver")
    /\ UNCHANGED <<clock, txVars, rxVars, cadVars, dutyVars, stats>>

\* 2. Deliver the delayed packets that are due.
Deliver ==
    /\ pc = "deliver" /\ RxReady(rxDelayQueue, clock) # {}
    /\ LET i == RxBest(rxDelayQueue, clock)
       IN  /\ rxDelayQueue' = SwapRemove(rxDelayQueue, i)
           /\ TrySend(rxDelayQueue[i].packet)
    /\ UNCHANGED <<clock, pc, since, txVars, heardAt, cadVars, dutyVars, stats>>

DeliverDone ==
    /\ pc = "deliver" /\ RxReady(rxDelayQueue, clock) = {}
    /\ Goto("transmit")
    /\ UNCHANGED <<clock, txVars, rxVars, cadVars, dutyVars, stats>>

-----------------------------------------------------------------------------
\* 3. maybe_transmit: every call refills the budget first.
Refill ==
    /\ budget' = Refilled(budget, clock - lastRefill)
    /\ lastRefill' = clock

NothingReady ==
    /\ pc = "transmit" /\ TxReady(txQueue, clock) = {}
    /\ Refill
    /\ Goto("wait")
    /\ UNCHANGED <<clock, txVars, rxVars, cadVars, stats>>

\* Mutant: the popped entry is forgotten when the budget is too small.
Throttled_NotPutBack ==
    /\ pc = "transmit" /\ TxReady(txQueue, clock) # {}
    /\ Refill
    /\ LET i == TxBest(txQueue, clock)
       IN  /\ ~CanTransmit(budget', Estimate[txQueue[i].request])
           /\ txQueue' = SwapRemove(txQueue, i)
    /\ Goto("wait")
    /\ UNCHANGED <<clock, txIn, current, submittedAt, outcome, rxVars, cadVars, stats>>

\* Not enough budget: the popped entry goes back, to the end of the queue.
Throttled ==
    /\ pc = "transmit" /\ TxReady(txQueue, clock) # {}
    /\ Refill
    /\ LET i == TxBest(txQueue, clock)
       IN  /\ ~CanTransmit(budget', Estimate[txQueue[i].request])
           /\ txQueue' = Append(SwapRemove(txQueue, i), txQueue[i])
    /\ Goto("wait")
    /\ UNCHANGED <<clock, txIn, current, submittedAt, outcome, rxVars, cadVars, stats>>

Commit ==
    /\ pc = "transmit" /\ TxReady(txQueue, clock) # {}
    /\ Refill
    /\ LET i == TxBest(txQueue, clock)
       IN  /\ CanTransmit(budget', Estimate[txQueue[i].request])
           /\ txQueue' = SwapRemove(txQueue, i)
           /\ current' = txQueue[i].request
    /\ cadDeadline' = clock + CadTimeoutMs
    /\ Goto("cad")
    /\ UNCHANGED <<clock, txIn, submittedAt, outcome, rxVars, retryAt, stats>>

\* wait_for_clear_channel: channel_active() answers Ok(false) or Err, or the
\* channel is busy past the deadline: transmit.
StartSend ==
    /\ pc = "cad"
    /\ cadDeadline' = NoTime
    /\ Goto("send")
    /\ UNCHANGED <<clock, txVars, rxVars, retryAt, dutyVars, stats>>

ChannelClear == StartSend

ChannelBusyTimeout == StartSend /\ clock >= cadDeadline

\* rng.next_u32(min, max), in [min, max).
RetryDelays ==
    IF CadRetryMinMs >= CadRetryMaxMs THEN {CadRetryMinMs}
    ELSE CadRetryMinMs..(CadRetryMaxMs - 1)

\* Mutant: the deadline is not checked between retries.
ChannelBusyRetry_Forever ==
    /\ pc = "cad"
    /\ \E delay \in RetryDelays : retryAt' = clock + delay
    /\ Goto("backoff")
    /\ UNCHANGED <<clock, txVars, rxVars, cadDeadline, dutyVars, stats>>

ChannelBusyRetry ==
    /\ pc = "cad" /\ clock < cadDeadline
    /\ \E delay \in RetryDelays : retryAt' = clock + delay
    /\ Goto("backoff")
    /\ UNCHANGED <<clock, txVars, rxVars, cadDeadline, dutyVars, stats>>

RetryElapsed ==
    /\ pc = "backoff" /\ clock >= retryAt
    /\ retryAt' = NoTime
    /\ Goto("cad")
    /\ UNCHANGED <<clock, txVars, rxVars, cadDeadline, dutyVars, stats>>

\* Mutant: the airtime is counted but not deducted.
SendOk_Uncharged ==
    /\ pc = "send" /\ clock > since
    /\ stats' = [stats EXCEPT
                   !.total_air_time_ms = @ + (clock - since),
                   !.sent_flood = IF SentAsFlood[current] THEN @ + 1 ELSE @,
                   !.sent_direct = IF SentAsFlood[current] THEN @ ELSE @ + 1]
    /\ outcome' = [outcome EXCEPT ![current] = "sent"]
    /\ current' = NoRequest
    /\ Goto("wait")
    /\ UNCHANGED <<clock, txIn, txQueue, submittedAt, rxVars, cadVars, dutyVars>>

\* send() returned after `since`, its tx_start.
SendOk ==
    /\ pc = "send" /\ clock > since
    /\ budget' = Deducted(budget, clock - since)
    /\ stats' = [stats EXCEPT
                   !.total_air_time_ms = @ + (clock - since),
                   !.sent_flood = IF SentAsFlood[current] THEN @ + 1 ELSE @,
                   !.sent_direct = IF SentAsFlood[current] THEN @ ELSE @ + 1]
    /\ outcome' = [outcome EXCEPT ![current] = "sent"]
    /\ current' = NoRequest
    /\ Goto("wait")
    /\ UNCHANGED <<clock, txIn, txQueue, submittedAt, rxVars, cadVars, lastRefill>>

\* Mutant: the packet is counted before the result of send() is known.
SendErr_Counted ==
    /\ pc = "send"
    /\ stats' = [stats EXCEPT !.sent_direct = @ + 1]
    /\ outcome' = [outcome EXCEPT ![current] = "lost"]
    /\ current' = NoRequest
    /\ Goto("wait")
    /\ UNCHANGED <<clock, txIn, txQueue, submittedAt, rxVars, cadVars, dutyVars>>

SendErr ==
    /\ pc = "send"
    /\ outcome' = [outcome EXCEPT ![current] = "lost"]
    /\ current' = NoRequest
    /\ Goto("wait")
    /\ UNCHANGED <<clock, txIn, txQueue, submittedAt, rxVars, cadVars, dutyVars, stats>>

-----------------------------------------------------------------------------
\* Mutant: with one queue empty, no timer is armed for the other.
NextWakeTime_BothOnly ==
    LET tx == TxNextReadyTime(txQueue)
        rx == RxNextReadyTime(rxDelayQueue)
    IN  IF tx = NoTime \/ rx = NoTime THEN NoTime
        ELSE IF tx < rx THEN tx ELSE rx

\* 4. next_wake_time(): NoTime is None.
NextWakeTime ==
    LET tx == TxNextReadyTime(txQueue)
        rx == RxNextReadyTime(rxDelayQueue)
    IN  IF tx = NoTime THEN rx
        ELSE IF rx = NoTime THEN tx
        ELSE IF tx < rx THEN tx ELSE rx

\* 5. select: the radio, the channel and the timer are polled in this order.
\* Mutant: no return after the delay queue took the frame.
Recv_FallThrough(p) ==
    /\ pc = "wait" /\ clock <= Horizon
    /\ heardAt[p] = NoTime
    /\ heardAt' = [heardAt EXCEPT ![p] = clock]
    /\ UNCHANGED stats
    /\ rxDelayQueue' =
         IF HeardAsFlood[p] /\ Len(rxDelayQueue) < RX_Q
         THEN Append(rxDelayQueue, RxEntry(p, clock + 1)) ELSE rxDelayQueue
    /\ TrySend(p)
    /\ Goto("drain")
    /\ UNCHANGED <<clock, txVars, cadVars, dutyVars>>

\* handle_rx for a well-formed frame.
Recv(p) ==
    /\ pc = "wait" /\ clock <= Horizon
    /\ heardAt[p] = NoTime
    /\ heardAt' = [heardAt EXCEPT ![p] = clock]
    /\ stats' = IF HeardAsFlood[p]
                THEN [stats EXCEPT !.recv_flood = @ + 1]
                ELSE [stats EXCEPT !.recv_direct = @ + 1]
    /\ LET delay == IF HeardAsFlood[p] THEN CalcRxDelay(RawDelayMs[p]) ELSE NoDelay
       IN  IF delay = NoDelay
           THEN TrySend(p) /\ UNCHANGED rxDelayQueue
           ELSE IF Len(rxDelayQueue) < RX_Q
           THEN /\ rxDelayQueue' = Append(rxDelayQueue, RxEntry(p, clock + delay))
                /\ UNCHANGED <<rxOut, fate>>
           ELSE /\ fate' = [fate EXCEPT ![p] = "dropped"]
                /\ UNCHANGED <<rxOut, rxDelayQueue>>
    /\ Goto("drain")
    /\ UNCHANGED <<clock, txVars, cadVars, dutyVars>>

\* recv() failed, or read_from() rejects the frame: handle_rx returns.
RecvNothing ==
    /\ pc = "wait"
    /\ Goto("drain")
    /\ UNCHANGED <<clock, txVars, rxVars, cadVars, dutyVars, stats>>

TakeTx ==
    /\ pc = "wait"
    /\ Receive
    /\ Goto("drain")
    /\ UNCHANGED <<clock, current, submittedAt, rxVars, cadVars, dutyVars, stats>>

TimerFired ==
    /\ pc = "wait" /\ txIn = <<>>
    /\ NextWakeTime # NoTime /\ clock >= NextWakeTime
    /\ Goto("drain")
    /\ UNCHANGED <<clock, txVars, rxVars, cadVars, dutyVars, stats>>

-----------------------------------------------------------------------------
\* The clock moves while the dispatcher is suspended; what it waits for comes
\* in time: a send within its estimate and Overrun, a timer or channel_active
\* within MaxLag, a request in the channel at once.
InTime ==
    CASE pc = "cad" -> clock < since + MaxLag
      [] pc = "backoff" -> clock < retryAt + MaxLag
      [] pc = "send" -> clock < since + Estimate[current] + Overrun
      [] pc = "wait" -> /\ txIn = <<>>
                        /\ \/ NextWakeTime = NoTime
                           \/ clock < NextWakeTime + MaxLag
                           \/ clock < since + MaxLag
      [] OTHER -> FALSE

Tick ==
    /\ clock < MaxClock
    /\ InTime
    /\ clock' = clock + 1
    /\ UNCHANGED <<pc, since, txVars, rxVars, cadVars, dutyVars, stats>>

\* The steps the executor and the radio owe the dispatcher.
Run ==
    \/ Drain \/ DrainDone
    \/ Deliver \/ DeliverDone
    \/ NothingReady \/ Throttled \/ Commit
    \/ ChannelClear \/ ChannelBusyTimeout \/ ChannelBusyRetry \/ RetryElapsed
    \/ SendOk \/ SendErr
    \/ TakeTx \/ TimerFired

Hear ==
    \/ \E p \in Packets : Recv(p)
    \/ RecvNothing

Next ==
    \/ Run
    \/ Hear
    \/ \E r \in Requests : Submit(r)
    \/ TakeRx
    \/ Tick

Spec == Init /\ [][Next]_vars

\* The executor polls a woken task, the radio completes what it started, and
\* time goes on.  Neither the mesh layer nor the air owes anything.
FairSpec == Spec /\ WF_vars(Run) /\ SF_vars(Tick)
=============================================================================
