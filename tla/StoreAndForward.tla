-------------------------- MODULE StoreAndForward --------------------------
(* The dispatcher as the mesh layer and the air see it: requests and frames  *)
(* in two unordered stores, one request in flight.  The loop, the order of   *)
(* the queues, the airtime budget, the channel wait and the timers are left  *)
(* out.  Dispatcher.tla implements this module (DispatchesAsPromised).       *)
EXTENDS TxQueue, RxDelay, FiniteSets

CONSTANTS
    Requests, Priority, DelayMs,        \* as in Dispatcher
    Packets, HeardAsFlood, RawDelayMs,
    NoRequest, TX_Q, RX_Q

VARIABLES
    clock,
    txIn, rxOut,            \* the channels from and to the mesh layer
    waiting,                \* the entries of the TX queue, in no order
    current,                \* the request in flight
    held,                   \* the entries of the delay queue, in no order
    submittedAt, outcome,   \* when each request came, and how it left
    heardAt, fate           \* when each frame came, and how it left

tx == <<txIn, waiting, current, submittedAt, outcome>>
rx == <<rxOut, held, heardAt, fate>>
vars == <<clock, tx, rx>>

Init ==
    /\ clock = 0
    /\ txIn = <<>> /\ waiting = {} /\ current = NoRequest
    /\ rxOut = <<>> /\ held = {}
    /\ submittedAt = [r \in Requests |-> NoTime]
    /\ outcome = [r \in Requests |-> "none"]
    /\ heardAt = [p \in Packets |-> NoTime]
    /\ fate = [p \in Packets |-> "none"]

Submit(r) ==
    /\ submittedAt[r] = NoTime /\ Len(txIn) < TX_Q
    /\ txIn' = Append(txIn, r)
    /\ submittedAt' = [submittedAt EXCEPT ![r] = clock]
    /\ UNCHANGED <<clock, waiting, current, outcome, rx>>

\* What was submitted waits for its delay, or is dropped because TX_Q others wait.
Accept ==
    /\ current = NoRequest /\ txIn # <<>>
    /\ txIn' = Tail(txIn)
    /\ LET r == Head(txIn)
       IN  \/ /\ Cardinality(waiting) < TX_Q
              /\ waiting' = waiting \cup {TxEntry(r, Priority[r], clock + DelayMs[r])}
              /\ UNCHANGED outcome
           \/ /\ Cardinality(waiting) = TX_Q
              /\ outcome' = [outcome EXCEPT ![r] = "dropped"]
              /\ UNCHANGED waiting
    /\ UNCHANGED <<clock, current, submittedAt, rx>>

\* A request is committed to the radio when its time has come, nothing that waits is more
\* urgent, nothing submitted before is still in the channel and no frame is due.
Commit(e) ==
    /\ current = NoRequest /\ txIn = <<>>
    /\ \A h \in held : h.deliver_at > clock
    /\ e.send_after <= clock
    /\ \A f \in waiting : f.send_after <= clock => ~Before(f, e)
    /\ waiting' = waiting \ {e}
    /\ current' = e.request
    /\ UNCHANGED <<clock, txIn, submittedAt, outcome, rx>>

\* It leaves the radio, sent or lost; there is no retry.
Resolve(how) ==
    /\ current # NoRequest
    /\ outcome' = [outcome EXCEPT ![current] = how]
    /\ current' = NoRequest
    /\ UNCHANGED <<clock, txIn, waiting, submittedAt, rx>>

HandOver(p) ==
    \/ /\ Len(rxOut) < RX_Q
       /\ rxOut' = Append(rxOut, p)
       /\ fate' = [fate EXCEPT ![p] = "delivered"]
    \/ /\ Len(rxOut) = RX_Q
       /\ fate' = [fate EXCEPT ![p] = "dropped"]
       /\ UNCHANGED rxOut

\* A frame is handed over at once, or held back, or dropped because RX_Q others are held.
Hear(p) ==
    /\ current = NoRequest /\ heardAt[p] = NoTime
    /\ heardAt' = [heardAt EXCEPT ![p] = clock]
    /\ IF HeardAsFlood[p] /\ CalcRxDelay(RawDelayMs[p]) # NoDelay
       THEN \/ /\ Cardinality(held) < RX_Q
               /\ held' = held \cup {RxEntry(p, clock + CalcRxDelay(RawDelayMs[p]))}
               /\ UNCHANGED <<rxOut, fate>>
            \/ /\ Cardinality(held) = RX_Q
               /\ fate' = [fate EXCEPT ![p] = "dropped"]
               /\ UNCHANGED <<rxOut, held>>
       ELSE HandOver(p) /\ UNCHANGED held
    /\ UNCHANGED <<clock, tx>>

\* Frames held back are handed over when they are due, the earliest first.
Release(e) ==
    /\ current = NoRequest
    /\ e.deliver_at <= clock /\ \A h \in held : e.deliver_at <= h.deliver_at
    /\ held' = held \ {e}
    /\ HandOver(e.packet)
    /\ UNCHANGED <<clock, tx, heardAt>>

TakeRx ==
    /\ rxOut # <<>>
    /\ rxOut' = Tail(rxOut)
    /\ UNCHANGED <<clock, tx, held, heardAt, fate>>

Tick == clock' = clock + 1 /\ UNCHANGED <<tx, rx>>

Next ==
    \/ \E r \in Requests : Submit(r)
    \/ Accept
    \/ \E e \in waiting : Commit(e)
    \/ \E how \in {"sent", "lost"} : Resolve(how)
    \/ \E p \in Packets : Hear(p)
    \/ \E e \in held : Release(e)
    \/ TakeRx \/ Tick

Spec == Init /\ [][Next]_vars
=============================================================================
