-------------------------- MODULE DispatcherProofs --------------------------
(* The dispatcher for every configuration, any number of requests and        *)
(* frames, and any capacity of its queues: first what the operators of its   *)
(* queues return, then the theorems of the event loop.                       *)
EXTENDS DispatcherProperties, DutyCycleProofs, SequenceTheorems, FiniteSetTheorems,
        WellFoundedInduction, TLAPS

\* swap_remove() on a vector: one element less, all of them from the vector.
LEMMA SwapRemoveType ==
    ASSUME NEW S, NEW v \in Seq(S), NEW i \in 1..Len(v)
    PROVE  /\ SwapRemove(v, i) \in Seq(S)
           /\ Len(SwapRemove(v, i)) = Len(v) - 1
           /\ \A k \in 1..(Len(v) - 1) :
                SwapRemove(v, i)[k] = IF k = i THEN v[Len(v)] ELSE v[k]
  <1>1. Len(v) \in Nat /\ Len(v) - 1 \in Nat
    BY LenProperties
  <1>2. \A k \in 1..(Len(v) - 1) : (IF k = i THEN v[Len(v)] ELSE v[k]) \in S
    BY <1>1, ElementOfSeq
  <1>3. SwapRemove(v, i) \in [1..(Len(v) - 1) -> S]
    BY <1>2 DEF SwapRemove
  <1>4. SwapRemove(v, i) \in Seq(S)
    BY <1>1, <1>3, SeqDef
  <1>5. Len(SwapRemove(v, i)) = Len(v) - 1
    BY <1>1, <1>3, <1>4, LenProperties
  <1> QED
    BY <1>4, <1>5 DEF SwapRemove

\* swap_remove() loses nothing but the element it removes.
LEMMA SwapRemoveKeepsOthers ==
    ASSUME NEW S, NEW v \in Seq(S), NEW i \in 1..Len(v)
    PROVE  \A j \in 1..Len(v) \ {i} :
             \E k \in 1..(Len(v) - 1) :
                /\ SwapRemove(v, i)[k] = v[j]
                /\ k = IF j = Len(v) THEN i ELSE j
  <1>1. Len(v) \in Nat
    BY LenProperties
  <1> SUFFICES ASSUME NEW j \in 1..Len(v) \ {i}
               PROVE  \E k \in 1..(Len(v) - 1) :
                         /\ SwapRemove(v, i)[k] = v[j]
                         /\ k = IF j = Len(v) THEN i ELSE j
    OBVIOUS
  <1> DEFINE slot == IF j = Len(v) THEN i ELSE j
  <1>2. slot \in 1..(Len(v) - 1)
    BY <1>1
  <1>3. slot = IF j = Len(v) THEN i ELSE j
    OBVIOUS
  <1>4. SwapRemove(v, i)[slot] = v[j]
    <2>1. SwapRemove(v, i)[slot] = IF slot = i THEN v[Len(v)] ELSE v[slot]
      BY <1>2, SwapRemoveType
    <2>2. CASE j = Len(v)
      BY <1>3, <2>1, <2>2
    <2>3. CASE j # Len(v)
      BY <1>3, <2>1, <2>3
    <2> QED
      BY <2>2, <2>3
  <1> HIDE DEF slot
  <1> QED
    BY <1>2, <1>3, <1>4

\* A set of naturals has a least element.
LEMMA LeastNat ==
    ASSUME NEW T, T \subseteq Nat, T # {}
    PROVE  \E x \in T : \A y \in T : x <= y
  <1>1. \E x \in T : \A y \in T : ~(<<y, x>> \in OpToRel(<, Nat))
    BY NatLessThanWellFounded, WFMin
  <1>2. PICK x \in T : \A y \in T : ~(<<y, x>> \in OpToRel(<, Nat))
    BY <1>1
  <1>3. \A y \in T : ~(y < x)
    BY <1>2 DEF OpToRel
  <1> QED
    BY <1>3

\* min() over a set of instants.
LEMMA EarliestIsLeast ==
    ASSUME NEW T, T \subseteq Nat
    PROVE  /\ T = {} => Earliest(T) = NoTime
           /\ T # {} => Earliest(T) \in T /\ \A t \in T : Earliest(T) <= t
  BY LeastNat DEF Earliest

\* Any ready set has an element that is least by a first key, then by a second
\* key, then by index.
LEMMA LexLeast ==
    ASSUME NEW I, I \subseteq Nat, I # {},
           NEW f \in [I -> Nat], NEW g \in [I -> Nat]
    PROVE  \E b \in I : \A j \in I \ {b} :
              \/ f[b] < f[j]
              \/ f[b] = f[j] /\ g[b] < g[j]
              \/ f[b] = f[j] /\ g[b] = g[j] /\ b < j
  <1>1. PICK p \in I : \A i \in I : f[p] <= f[i]
    <2> DEFINE T == {f[i] : i \in I}
    <2>1. T \subseteq Nat /\ T # {}
      OBVIOUS
    <2>2. PICK x \in T : \A y \in T : x <= y
      BY <2>1, LeastNat
    <2> QED
      BY <2>2
  <1> DEFINE J == {i \in I : f[i] = f[p]}
  <1>2. PICK q \in J : \A i \in J : g[q] <= g[i]
    <2> DEFINE T == {g[i] : i \in J}
    <2>1. T \subseteq Nat /\ T # {}
      OBVIOUS
    <2>2. PICK x \in T : \A y \in T : x <= y
      BY <2>1, LeastNat
    <2> QED
      BY <2>2
  <1> DEFINE K == {i \in J : g[i] = g[q]}
  <1>3. PICK b \in K : \A i \in K : b <= i
    <2>1. K \subseteq Nat /\ K # {}
      OBVIOUS
    <2> QED
      BY <2>1, LeastNat
  <1>4. ASSUME NEW j \in I \ {b}
        PROVE  \/ f[b] < f[j]
               \/ f[b] = f[j] /\ g[b] < g[j]
               \/ f[b] = f[j] /\ g[b] = g[j] /\ b < j
    <2>1. /\ f[b] = f[p] /\ g[b] = g[q] /\ b \in Nat /\ j \in Nat
          /\ f[j] \in Nat /\ f[p] \in Nat /\ g[j] \in Nat /\ g[q] \in Nat
      OBVIOUS
    <2>2. CASE f[j] # f[p]
      BY <1>1, <2>1, <2>2
    <2>3. CASE f[j] = f[p] /\ g[j] # g[q]
      BY <1>2, <2>1, <2>3
    <2>4. CASE f[j] = f[p] /\ g[j] = g[q]
      BY <1>3, <2>1, <2>4
    <2> QED
      BY <2>2, <2>3, <2>4
  <1> QED
    BY <1>4

\* The order of the transmit queue is strict.
LEMMA BeforeIsStrict ==
    ASSUME NEW e, e.priority \in Nat, e.send_after \in Nat,
           NEW f, f.priority \in Nat, f.send_after \in Nat,
           Before(e, f)
    PROVE  ~Before(f, e)
  BY DEF Before

\* pop_ready() of the transmit queue takes a ready entry, and no ready entry is
\* more urgent than the one it takes.
LEMMA TxBestIsBest ==
    ASSUME NEW R,
           NEW queue \in Seq([request : R, priority : Nat, send_after : Nat]),
           NEW now \in Nat,
           TxReady(queue, now) # {}
    PROVE  /\ TxBest(queue, now) \in TxReady(queue, now)
           /\ \A j \in TxReady(queue, now) :
                ~Before(queue[j], queue[TxBest(queue, now)])
  <1> DEFINE ready == TxReady(queue, now)
             f == [i \in ready |-> queue[i].priority]
             g == [i \in ready |-> queue[i].send_after]
             Least(i) == \A j \in ready \ {i} :
                            \/ Before(queue[i], queue[j])
                            \/ ~Before(queue[j], queue[i]) /\ i < j
  <1>1. \A i \in 1..Len(queue) :
            queue[i] \in [request : R, priority : Nat, send_after : Nat]
    BY ElementOfSeq
  <1>2. ready \subseteq 1..Len(queue) /\ Len(queue) \in Nat
    BY LenProperties DEF TxReady
  <1>3. ready \subseteq Nat /\ f \in [ready -> Nat] /\ g \in [ready -> Nat]
    BY <1>1, <1>2
  <1>4. PICK b \in ready : \A j \in ready \ {b} :
              \/ f[b] < f[j]
              \/ f[b] = f[j] /\ g[b] < g[j]
              \/ f[b] = f[j] /\ g[b] = g[j] /\ b < j
    <2> HIDE DEF ready, f, g
    <2> QED
      BY <1>3, LexLeast DEF ready
  <1>5. \A i \in ready : /\ f[i] = queue[i].priority /\ f[i] \in Nat
                         /\ g[i] = queue[i].send_after /\ g[i] \in Nat
    BY <1>3
  <1> HIDE DEF ready, f, g
  <1>6. Least(b)
    BY <1>4, <1>5 DEF Before
  <1>7. TxBest(queue, now) \in ready /\ Least(TxBest(queue, now))
    BY <1>6 DEF TxBest, ready
  <1>8. ASSUME NEW i \in ready, NEW j \in ready, Before(queue[i], queue[j])
        PROVE  ~Before(queue[j], queue[i])
    <2>1. /\ queue[i].priority \in Nat /\ queue[i].send_after \in Nat
          /\ queue[j].priority \in Nat /\ queue[j].send_after \in Nat
      BY <1>5
    <2> QED
      BY <2>1, <1>8, BeforeIsStrict
  <1>9. ASSUME NEW i \in ready PROVE ~Before(queue[i], queue[i])
    <2>1. queue[i].priority \in Nat /\ queue[i].send_after \in Nat
      BY <1>5
    <2> QED
      BY <2>1 DEF Before
  <1> QED
    BY <1>7, <1>8, <1>9 DEF ready

\* pop_ready() of the delay queue takes the earliest frame: those that are not due are later
\* than now.
LEMMA RxBestIsEarliest ==
    ASSUME NEW P,
           NEW queue \in Seq([packet : P, deliver_at : Nat]),
           NEW now \in Nat,
           RxReady(queue, now) # {}
    PROVE  /\ RxBest(queue, now) \in RxReady(queue, now)
           /\ \A j \in 1..Len(queue) :
                 queue[RxBest(queue, now)].deliver_at <= queue[j].deliver_at
  <1> DEFINE ready == RxReady(queue, now)
             f == [i \in ready |-> queue[i].deliver_at]
             Least(i) == \A j \in ready \ {i} :
                            \/ queue[i].deliver_at < queue[j].deliver_at
                            \/ queue[i].deliver_at = queue[j].deliver_at /\ i < j
  <1>1. \A i \in 1..Len(queue) : queue[i] \in [packet : P, deliver_at : Nat]
    BY ElementOfSeq
  <1>2. ready \subseteq 1..Len(queue) /\ Len(queue) \in Nat
    BY LenProperties DEF RxReady
  <1>3. ready \subseteq Nat /\ f \in [ready -> Nat]
    BY <1>1, <1>2
  <1>4. PICK b \in ready : \A j \in ready \ {b} :
              \/ f[b] < f[j]
              \/ f[b] = f[j] /\ f[b] < f[j]
              \/ f[b] = f[j] /\ f[b] = f[j] /\ b < j
    <2> HIDE DEF ready, f
    <2> QED
      BY <1>3, LexLeast DEF ready
  <1>5. \A i \in ready : f[i] = queue[i].deliver_at
    OBVIOUS
  <1> HIDE DEF f
  <1>6. Least(b)
    BY <1>4, <1>5
  <1>7. RxBest(queue, now) \in ready /\ Least(RxBest(queue, now))
    BY <1>6 DEF RxBest
  <1>8. ASSUME NEW i \in ready, Least(i), NEW j \in 1..Len(queue)
        PROVE  queue[i].deliver_at <= queue[j].deliver_at
    <2>1. queue[i].deliver_at \in Nat /\ queue[j].deliver_at \in Nat
      BY <1>1, <1>2
    <2>2. CASE j \in ready
      BY <1>8, <2>1, <2>2
    <2>3. CASE j \notin ready
      <3>1. queue[i].deliver_at <= now /\ ~(queue[j].deliver_at <= now)
        BY <1>8, <2>3 DEF RxReady
      <3> QED
        BY <2>1, <3>1
    <2> QED
      BY <2>2, <2>3
  <1> QED
    BY <1>7, <1>8

-----------------------------------------------------------------------------
\* The entries of the two queues.
TxEntries == [request : Requests, priority : Nat, send_after : Nat]
RxEntries == [packet : Packets, deliver_at : Nat]

\* The parts of TypeOK that most actions leave alone.
TxTypeOK ==
    /\ txIn \in Seq(Requests) /\ Len(txIn) <= TX_Q
    /\ txQueue \in Seq(TxEntries) /\ Len(txQueue) <= TX_Q
    /\ current \in Requests \cup {NoRequest}
    /\ submittedAt \in [Requests -> 0..clock \cup {NoTime}]
    /\ outcome \in [Requests -> Outcomes]

RxTypeOK ==
    /\ rxOut \in Seq(Packets) /\ Len(rxOut) <= RX_Q
    /\ rxDelayQueue \in Seq(RxEntries) /\ Len(rxDelayQueue) <= RX_Q
    /\ heardAt \in [Packets -> 0..clock \cup {NoTime}]
    /\ fate \in [Packets -> Fates]

LoopTypeOK ==
    /\ clock \in Nat /\ since \in 0..clock
    /\ pc \in {"drain", "deliver", "transmit", "cad", "backoff", "send", "wait"}
    /\ cadDeadline \in Nat \cup {NoTime} /\ retryAt \in Nat \cup {NoTime}
    /\ budget \in 0..MaxBudgetMs /\ lastRefill \in 0..clock
    /\ stats \in [total_air_time_ms : Nat, sent_flood : Nat, sent_direct : Nat,
                  recv_flood : Nat, recv_direct : Nat]

LEMMA TypeParts ==
    /\ TypeOK <=> LoopTypeOK /\ TxTypeOK /\ RxTypeOK
    /\ TypeOK' <=> LoopTypeOK' /\ TxTypeOK' /\ RxTypeOK'
  BY DEF TypeOK, LoopTypeOK, TxTypeOK, RxTypeOK, TxEntries, RxEntries

-----------------------------------------------------------------------------
\* push() and the channel: a request moves, or is dropped, within the capacities.
LEMMA ReceiveType ==
    ASSUME TxTypeOK, clock \in Nat, clock' = clock, Receive,
           UNCHANGED <<current, submittedAt>>
    PROVE  TxTypeOK'
  <1> DEFINE r == Head(txIn)
  <1>1. /\ r \in Requests
        /\ txIn' \in Seq(Requests) /\ Len(txIn') <= TX_Q
    BY HeadTailProperties, LenProperties, DispatcherAssumption
       DEF TxTypeOK, Receive
  <1>2. outcome' \in [Requests -> Outcomes]
    BY <1>1 DEF TxTypeOK, Receive, Push, Outcomes
  <1>3. TxEntry(r, Priority[r], clock + DelayMs[r]) \in TxEntries
    BY <1>1, DispatcherAssumption DEF TxEntry, TxEntries
  <1>4. txQueue' \in Seq(TxEntries) /\ Len(txQueue') <= TX_Q
    <2>1. CASE Len(txQueue) = TX_Q
      BY <2>1 DEF TxTypeOK, Receive, Push
    <2>2. CASE Len(txQueue) # TX_Q
      <3>1. txQueue' = Append(txQueue, TxEntry(r, Priority[r], clock + DelayMs[r]))
        BY <2>2 DEF Receive, Push
      <3>2. Len(txQueue) \in Nat /\ Len(txQueue) < TX_Q
        BY <2>2, LenProperties, DispatcherAssumption DEF TxTypeOK
      <3> QED
        BY <3>1, <3>2, <1>3, AppendProperties, DispatcherAssumption DEF TxTypeOK
    <2> QED
      BY <2>1, <2>2
  <1> QED
    BY <1>1, <1>2, <1>4 DEF TxTypeOK

\* try_send() keeps the channel within its capacity.
LEMMA TrySendType ==
    ASSUME RxTypeOK, NEW p \in Packets, TrySend(p)
    PROVE  /\ rxOut' \in Seq(Packets) /\ Len(rxOut') <= RX_Q
           /\ fate' \in [Packets -> Fates]
  <1>1. Len(rxOut) \in Nat /\ RX_Q \in Nat
    BY LenProperties, DispatcherAssumption DEF RxTypeOK
  <1>2. fate' \in [Packets -> Fates]
    BY DEF RxTypeOK, TrySend, Fates
  <1>3. CASE Len(rxOut) = RX_Q
    BY <1>2, <1>3 DEF RxTypeOK, TrySend
  <1>4. CASE Len(rxOut) # RX_Q
    <2>1. rxOut' = Append(rxOut, p) /\ Len(rxOut) < RX_Q
      BY <1>1, <1>4 DEF RxTypeOK, TrySend
    <2> QED
      BY <2>1, <1>1, <1>2, AppendProperties DEF RxTypeOK
  <1> QED
    BY <1>3, <1>4

\* Every maybe_transmit starts with a refill.
LEMMA RefillType ==
    ASSUME LoopTypeOK, Refill
    PROVE  budget' \in 0..MaxBudgetMs /\ lastRefill' = clock
  <1>1. clock - lastRefill \in Nat
    BY DEF LoopTypeOK
  <1> QED
    BY <1>1, RefillIsBounded DEF Refill, LoopTypeOK

\* The entry pop_ready() takes is one of the queue.
LEMMA TxBestType ==
    ASSUME TxTypeOK, clock \in Nat, TxReady(txQueue, clock) # {}
    PROVE  /\ TxBest(txQueue, clock) \in 1..Len(txQueue)
           /\ txQueue[TxBest(txQueue, clock)] \in TxEntries
           /\ SwapRemove(txQueue, TxBest(txQueue, clock)) \in Seq(TxEntries)
           /\ Len(SwapRemove(txQueue, TxBest(txQueue, clock))) = Len(txQueue) - 1
  <1>1. TxBest(txQueue, clock) \in TxReady(txQueue, clock)
    BY TxBestIsBest DEF TxTypeOK, TxEntries
  <1>2. TxBest(txQueue, clock) \in 1..Len(txQueue)
    BY <1>1 DEF TxReady
  <1> QED
    BY <1>2, SwapRemoveType, ElementOfSeq DEF TxTypeOK

-----------------------------------------------------------------------------
\* The code behaviour: every queue and channel stays within its capacity, the
\* budget in its range, and every local of the loop keeps its type.
THEOREM TypeCorrect == Spec => []TypeOK
  <1>1. Init => TypeOK
    <2> SUFFICES ASSUME Init PROVE TypeOK
      OBVIOUS
    <2>1. TxTypeOK
      BY EmptySeq, DispatcherAssumption DEF Init, TxTypeOK, NoTime, Outcomes
    <2>2. RxTypeOK
      BY EmptySeq, DispatcherAssumption DEF Init, RxTypeOK, NoTime, Fates
    <2>3. LoopTypeOK
      BY MaxBudgetIsNat DEF Init, LoopTypeOK
    <2> QED
      BY <2>1, <2>2, <2>3, TypeParts
  <1>2. TypeOK /\ [Next]_vars => TypeOK'
    <2> SUFFICES ASSUME LoopTypeOK, TxTypeOK, RxTypeOK, [Next]_vars
                 PROVE  LoopTypeOK' /\ TxTypeOK' /\ RxTypeOK'
      BY TypeParts
    <2>0. clock \in Nat
      BY DEF LoopTypeOK
    <2>a. UNCHANGED <<clock, txVars>> => TxTypeOK'
      BY DEF txVars, TxTypeOK
    <2>b. UNCHANGED <<clock, rxVars>> => RxTypeOK'
      BY DEF rxVars, RxTypeOK
    <2>c. UNCHANGED <<clock, pc, since, cadVars, dutyVars, stats>> => LoopTypeOK'
      BY DEF cadVars, dutyVars, LoopTypeOK
    <2>d. ASSUME NEW label \in {"drain", "deliver", "transmit", "cad", "backoff",
                                "send", "wait"},
                 Goto(label), UNCHANGED <<clock, cadVars, dutyVars>>,
                 stats' \in [total_air_time_ms : Nat, sent_flood : Nat,
                             sent_direct : Nat, recv_flood : Nat, recv_direct : Nat]
          PROVE  LoopTypeOK'
      BY <2>d, <2>0 DEF cadVars, dutyVars, LoopTypeOK, Goto
    <2>e. ASSUME NEW label \in {"cad", "wait"},
                 Refill, Goto(label), UNCHANGED <<clock, retryAt, stats>>,
                 cadDeadline' \in Nat \cup {NoTime}
          PROVE  LoopTypeOK'
      BY <2>e, <2>0, RefillType DEF LoopTypeOK, Goto
    <2>1. CASE Drain
      BY <2>1, <2>0, <2>b, <2>c, ReceiveType DEF Drain
    <2>2. CASE DrainDone
      BY <2>2, <2>a, <2>b, <2>d DEF DrainDone, LoopTypeOK
    <2>3. CASE Deliver
      <3>1. PICK i \in 1..Len(rxDelayQueue) :
               /\ rxDelayQueue' = SwapRemove(rxDelayQueue, i)
               /\ TrySend(rxDelayQueue[i].packet)
        BY <2>3, <2>0, RxBestIsEarliest DEF Deliver, RxTypeOK, RxEntries, RxReady
      <3>2. rxDelayQueue[i] \in RxEntries
        BY ElementOfSeq DEF RxTypeOK
      <3>3. rxDelayQueue' \in Seq(RxEntries) /\ Len(rxDelayQueue') <= RX_Q
        <4>1. Len(rxDelayQueue) \in Nat /\ RX_Q \in Nat
          BY LenProperties, DispatcherAssumption DEF RxTypeOK
        <4>2. /\ SwapRemove(rxDelayQueue, i) \in Seq(RxEntries)
              /\ Len(SwapRemove(rxDelayQueue, i)) = Len(rxDelayQueue) - 1
          BY SwapRemoveType DEF RxTypeOK
        <4> QED
          BY <3>1, <4>1, <4>2 DEF RxTypeOK
      <3>4. RxTypeOK'
        BY <2>3, <3>1, <3>2, <3>3, TrySendType DEF Deliver, RxTypeOK, RxEntries
      <3> QED
        BY <2>3, <3>4, <2>a, <2>c DEF Deliver
    <2>4. CASE DeliverDone
      BY <2>4, <2>a, <2>b, <2>d DEF DeliverDone, LoopTypeOK
    <2>5. CASE NothingReady
      BY <2>5, <2>a, <2>b, <2>e DEF NothingReady, cadVars, LoopTypeOK
    <2>6. CASE Throttled
      <3>1. txQueue' \in Seq(TxEntries) /\ Len(txQueue') <= TX_Q
        BY <2>6, <2>0, TxBestType, AppendProperties, LenProperties,
           DispatcherAssumption DEF Throttled, TxTypeOK
      <3> QED
        BY <2>6, <3>1, <2>b, <2>e DEF Throttled, TxTypeOK, cadVars, LoopTypeOK
    <2>7. CASE Commit
      <3>1. /\ txQueue' \in Seq(TxEntries) /\ Len(txQueue') <= TX_Q
            /\ current' \in Requests
        <4>1. Len(txQueue) \in Nat /\ TX_Q \in Nat
          BY LenProperties, DispatcherAssumption DEF TxTypeOK
        <4>2. /\ TxReady(txQueue, clock) # {}
              /\ txQueue' = SwapRemove(txQueue, TxBest(txQueue, clock))
              /\ current' = txQueue[TxBest(txQueue, clock)].request
          BY <2>7 DEF Commit
        <4>3. txQueue' \in Seq(TxEntries) /\ Len(txQueue') = Len(txQueue) - 1
          BY <4>2, <2>0, TxBestType
        <4>4. current' \in Requests
          BY <4>2, <2>0, TxBestType DEF TxEntries
        <4> QED
          BY <4>1, <4>3, <4>4 DEF TxTypeOK
      <3>2. cadDeadline' \in Nat
        BY <2>7, <2>0, DispatcherAssumption DEF Commit
      <3> QED
        BY <2>7, <3>1, <3>2, <2>b, <2>e DEF Commit, TxTypeOK
    <2>8. CASE StartSend
      BY <2>8, <2>0, <2>a, <2>b DEF StartSend, LoopTypeOK, Goto, dutyVars
    <2>9. CASE ChannelBusyRetry
      <3>1. retryAt' \in Nat
        BY <2>9, <2>0, DispatcherAssumption DEF ChannelBusyRetry, RetryDelays
      <3> QED
        BY <2>9, <3>1, <2>0, <2>a, <2>b
           DEF ChannelBusyRetry, LoopTypeOK, Goto, dutyVars
    <2>10. CASE RetryElapsed
      BY <2>10, <2>0, <2>a, <2>b DEF RetryElapsed, LoopTypeOK, Goto, dutyVars
    <2>11. CASE SendOk
      <3>1. clock - since \in Nat
        BY <2>11 DEF SendOk, LoopTypeOK
      <3>2. budget' \in 0..MaxBudgetMs
        BY <2>11, <3>1, MaxBudgetIsNat DEF SendOk, LoopTypeOK, Deducted
      <3>3. stats' \in [total_air_time_ms : Nat, sent_flood : Nat,
                        sent_direct : Nat, recv_flood : Nat, recv_direct : Nat]
        <4> DEFINE flood == IF SentAsFlood[current] THEN stats.sent_flood + 1
                            ELSE stats.sent_flood
                   direct == IF SentAsFlood[current] THEN stats.sent_direct
                             ELSE stats.sent_direct + 1
        <4>1. flood \in Nat /\ direct \in Nat
          BY DEF LoopTypeOK
        <4>2. stats' = [total_air_time_ms |-> stats.total_air_time_ms + (clock - since),
                        sent_flood |-> flood, sent_direct |-> direct,
                        recv_flood |-> stats.recv_flood,
                        recv_direct |-> stats.recv_direct]
          BY <2>11 DEF SendOk, LoopTypeOK
        <4> HIDE DEF flood, direct
        <4>3. /\ stats.total_air_time_ms \in Nat
              /\ stats.recv_flood \in Nat /\ stats.recv_direct \in Nat
          BY DEF LoopTypeOK
        <4> QED
          BY <3>1, <4>1, <4>2, <4>3
      <3>4. LoopTypeOK'
        BY <2>11, <3>2, <3>3, <2>0 DEF SendOk, LoopTypeOK, Goto, cadVars
      <3>5. TxTypeOK'
        BY <2>11 DEF SendOk, TxTypeOK, Outcomes
      <3> QED
        BY <2>11, <3>4, <3>5, <2>b DEF SendOk
    <2>12. CASE SendErr
      <3>1. TxTypeOK'
        BY <2>12 DEF SendErr, TxTypeOK, Outcomes
      <3> QED
        BY <2>12, <3>1, <2>b, <2>d DEF SendErr, LoopTypeOK
    <2>13. ASSUME NEW p \in Packets, Recv(p)
           PROVE  LoopTypeOK' /\ TxTypeOK' /\ RxTypeOK'
      <3>1. heardAt' \in [Packets -> 0..clock' \cup {NoTime}]
        BY <2>13, <2>0 DEF Recv, RxTypeOK
      <3>2. stats' \in [total_air_time_ms : Nat, sent_flood : Nat,
                        sent_direct : Nat, recv_flood : Nat, recv_direct : Nat]
        BY <2>13 DEF Recv, LoopTypeOK
      <3> DEFINE delay == IF HeardAsFlood[p] THEN CalcRxDelay(RawDelayMs[p])
                          ELSE NoDelay
      <3>3. /\ rxOut' \in Seq(Packets) /\ Len(rxOut') <= RX_Q
            /\ rxDelayQueue' \in Seq(RxEntries) /\ Len(rxDelayQueue') <= RX_Q
            /\ fate' \in [Packets -> Fates]
        <4>1. CASE delay = NoDelay
          BY <2>13, <4>1, TrySendType DEF Recv, RxTypeOK
        <4>2. CASE delay # NoDelay /\ Len(rxDelayQueue) < RX_Q
          <5>1. delay \in Nat
            BY <4>2, DispatcherAssumption, RxDelayAssumption DEF CalcRxDelay, NoDelay
          <5> HIDE DEF delay
          <5>2. /\ RxEntry(p, clock + delay) \in RxEntries
                /\ Len(rxDelayQueue) \in Nat
            BY <5>1, <2>0, LenProperties DEF RxEntry, RxEntries, RxTypeOK
          <5>3. /\ rxDelayQueue' = Append(rxDelayQueue, RxEntry(p, clock + delay))
                /\ UNCHANGED <<rxOut, fate>>
            BY <2>13, <4>2 DEF Recv, delay
          <5> QED
            BY <4>2, <5>2, <5>3, AppendProperties, DispatcherAssumption DEF RxTypeOK
        <4>3. CASE delay # NoDelay /\ ~(Len(rxDelayQueue) < RX_Q)
          BY <2>13, <4>3 DEF Recv, RxTypeOK, Fates
        <4> QED
          BY <4>1, <4>2, <4>3
      <3> QED
        BY <2>13, <3>1, <3>2, <3>3, <2>a, <2>d DEF Recv, RxTypeOK
    <2>14. CASE RecvNothing
      BY <2>14, <2>a, <2>b, <2>d DEF RecvNothing, LoopTypeOK
    <2>15. CASE TakeTx
      BY <2>15, <2>0, <2>b, <2>d, ReceiveType DEF TakeTx, LoopTypeOK
    <2>16. CASE TimerFired
      BY <2>16, <2>a, <2>b, <2>d DEF TimerFired, LoopTypeOK
    <2>17. ASSUME NEW r \in Requests, Submit(r)
           PROVE  LoopTypeOK' /\ TxTypeOK' /\ RxTypeOK'
      <3>1. txIn' \in Seq(Requests) /\ Len(txIn') <= TX_Q
        BY <2>17, AppendProperties, LenProperties, DispatcherAssumption
           DEF Submit, TxTypeOK
      <3>2. submittedAt' \in [Requests -> 0..clock' \cup {NoTime}]
        BY <2>17, <2>0 DEF Submit, TxTypeOK
      <3> QED
        BY <2>17, <3>1, <3>2, <2>b, <2>c DEF Submit, TxTypeOK
    <2>18. CASE TakeRx
      <3>1. rxOut' \in Seq(Packets) /\ Len(rxOut') <= RX_Q
        BY <2>18, HeadTailProperties, LenProperties, DispatcherAssumption
           DEF TakeRx, RxTypeOK
      <3> QED
        BY <2>18, <3>1, <2>a, <2>c DEF TakeRx, RxTypeOK
    <2>19. CASE Tick
      <3>1. LoopTypeOK'
        BY <2>19, <2>0 DEF Tick, LoopTypeOK, cadVars, dutyVars
      <3>2. 0..clock \subseteq 0..clock'
        BY <2>19, <2>0 DEF Tick
      <3>3. TxTypeOK'
        BY <2>19, <3>2 DEF Tick, TxTypeOK, txVars
      <3>4. RxTypeOK'
        BY <2>19, <3>2 DEF Tick, RxTypeOK, rxVars
      <3> QED
        BY <3>1, <3>3, <3>4
    <2>20. CASE UNCHANGED vars
      BY <2>20, <2>a, <2>b, <2>c DEF vars
    <2> QED
      BY <2>1, <2>2, <2>3, <2>4, <2>5, <2>6, <2>7, <2>8, <2>9, <2>10, <2>11, <2>12,
         <2>13, <2>14, <2>15, <2>16, <2>17, <2>18, <2>19, <2>20
         DEF Next, Run, Hear, ChannelClear, ChannelBusyTimeout
  <1> QED
    BY <1>1, <1>2, PTL DEF Spec

-----------------------------------------------------------------------------
\* Why nothing is sent early: whatever waits was submitted, and its send_after is not
\* before its delay has passed.  A request keeps its submission time for ever.
OnSchedule(r, t) == submittedAt[r] # NoTime /\ t >= submittedAt[r] + DelayMs[r]

ScheduleOK ==
    /\ \A i \in 1..Len(txIn) : submittedAt[txIn[i]] # NoTime
    /\ \A i \in 1..Len(txQueue) : OnSchedule(txQueue[i].request, txQueue[i].send_after)
    /\ current # NoRequest => OnSchedule(current, clock)

\* push() keeps the schedule: the delay counts from now, and what is in the channel was
\* submitted by now.
LEMMA ReceiveKeepsSchedule ==
    ASSUME TypeOK, ScheduleOK, Receive, UNCHANGED <<clock, submittedAt, current>>
    PROVE  ScheduleOK'
  <1> DEFINE r == Head(txIn)
             e == TxEntry(r, Priority[r], clock + DelayMs[r])
  <1>0. /\ txIn \in Seq(Requests) /\ txIn # <<>> /\ clock \in Nat
        /\ submittedAt \in [Requests -> 0..clock \cup {NoTime}]
        /\ txQueue \in Seq(TxEntries) /\ Len(txQueue) \in Nat
    BY LenProperties DEF TypeOK, TxEntries, Receive
  <1>1. r \in Requests /\ submittedAt[r] # NoTime
    BY <1>0, HeadTailProperties, EmptySeq, LenProperties DEF ScheduleOK
  <1>2. e \in TxEntries /\ OnSchedule(e.request, e.send_after)
    BY <1>0, <1>1, DispatcherAssumption DEF OnSchedule, TxEntry, TxEntries
  <1>3. \A i \in 1..Len(txIn') : submittedAt'[txIn'[i]] # NoTime
    BY <1>0, HeadTailProperties, LenProperties DEF ScheduleOK, Receive
  <1>4. \A i \in 1..Len(txQueue') :
            OnSchedule(txQueue'[i].request, txQueue'[i].send_after)
    <2>1. txQueue' = txQueue \/ txQueue' = Append(txQueue, e)
      BY DEF Receive, Push
    <2> HIDE DEF e
    <2>2. CASE txQueue' = txQueue
      BY <2>2 DEF ScheduleOK
    <2>3. CASE txQueue' = Append(txQueue, e)
      <3>1. /\ Len(txQueue') = Len(txQueue) + 1
            /\ \A i \in 1..Len(txQueue) : txQueue'[i] = txQueue[i]
            /\ txQueue'[Len(txQueue) + 1] = e
        BY <2>3, <1>0, <1>2, AppendProperties
      <3> QED
        BY <3>1, <1>0, <1>2 DEF ScheduleOK
    <2> QED
      BY <2>1, <2>2, <2>3
  <1> QED
    BY <1>3, <1>4 DEF ScheduleOK, OnSchedule

\* pop_ready() takes an entry that is due, and the others stay as they are.
LEMMA PopKeepsSchedule ==
    ASSUME TypeOK, ScheduleOK, TxReady(txQueue, clock) # {},
           NEW i, i = TxBest(txQueue, clock), NEW rest, rest = SwapRemove(txQueue, i)
    PROVE  /\ i \in 1..Len(txQueue) /\ txQueue[i] \in TxEntries
           /\ OnSchedule(txQueue[i].request, clock)
           /\ rest \in Seq(TxEntries) /\ Len(rest) = Len(txQueue) - 1
           /\ \A k \in 1..Len(rest) : OnSchedule(rest[k].request, rest[k].send_after)
  <1>0. txQueue \in Seq(TxEntries) /\ clock \in Nat /\ Len(txQueue) \in Nat
    BY LenProperties DEF TypeOK, TxEntries
  <1>1. i \in 1..Len(txQueue) /\ txQueue[i].send_after <= clock
    BY <1>0, TxBestIsBest DEF TxEntries, TxReady
  <1>2. txQueue[i] \in TxEntries
    BY <1>0, <1>1, ElementOfSeq
  <1>3. OnSchedule(txQueue[i].request, clock)
    <2>1. OnSchedule(txQueue[i].request, txQueue[i].send_after)
      BY <1>1 DEF ScheduleOK
    <2>2. /\ submittedAt[txQueue[i].request] \in 0..clock \cup {NoTime}
          /\ DelayMs[txQueue[i].request] \in Nat /\ txQueue[i].send_after \in Nat
      BY <1>2, DispatcherAssumption DEF TypeOK, TxEntries
    <2> QED
      BY <2>1, <2>2, <1>0, <1>1 DEF OnSchedule
  <1>4. /\ rest \in Seq(TxEntries) /\ Len(rest) = Len(txQueue) - 1
        /\ \A k \in 1..Len(rest) : rest[k] = IF k = i THEN txQueue[Len(txQueue)] ELSE txQueue[k]
    <2>1. i \in 1..Len(txQueue)
      BY <1>1
    <2>2. /\ SwapRemove(txQueue, i) \in Seq(TxEntries)
          /\ Len(SwapRemove(txQueue, i)) = Len(txQueue) - 1
          /\ \A k \in 1..(Len(txQueue) - 1) :
               SwapRemove(txQueue, i)[k] = IF k = i THEN txQueue[Len(txQueue)] ELSE txQueue[k]
      BY <1>0, <2>1, SwapRemoveType
    <2> QED
      BY <2>2
  <1>5. \A k \in 1..Len(rest) : OnSchedule(rest[k].request, rest[k].send_after)
    BY <1>0, <1>1, <1>4 DEF ScheduleOK
  <1> QED
    BY <1>1, <1>2, <1>3, <1>4, <1>5

\* The code behaviour: a request is not transmitted before its delay has passed since
\* the mesh layer submitted it, whatever queues it went through, how often it was put
\* back, and in which order the entries were moved.
THEOREM NothingIsEarly == Spec => []NeverEarly
  <1>1. Init => ScheduleOK
    BY DEF Init, ScheduleOK
  <1>2. TypeOK /\ ScheduleOK /\ [Next]_vars => ScheduleOK'
    <2> SUFFICES ASSUME TypeOK, ScheduleOK, [Next]_vars PROVE ScheduleOK'
      OBVIOUS
    <2>0. /\ clock \in Nat
          /\ submittedAt \in [Requests -> 0..clock \cup {NoTime}]
          /\ current \in Requests \cup {NoRequest}
          /\ NoRequest \notin Requests
      BY DispatcherAssumption DEF TypeOK
    <2>a. UNCHANGED <<clock, txIn, txQueue, current, submittedAt>> => ScheduleOK'
      BY DEF ScheduleOK, OnSchedule
    <2>b. ASSUME UNCHANGED <<txIn, txQueue, submittedAt>>, current' = NoRequest
          PROVE  ScheduleOK'
      BY <2>b DEF ScheduleOK, OnSchedule
    <2>1. CASE Drain \/ TakeTx
      BY <2>1, ReceiveKeepsSchedule DEF Drain, TakeTx
    <2>2. CASE Throttled
      <3> DEFINE i == TxBest(txQueue, clock)
                 rest == SwapRemove(txQueue, i)
      <3>1. /\ i \in 1..Len(txQueue) /\ txQueue[i] \in TxEntries
            /\ rest \in Seq(TxEntries)
            /\ \A k \in 1..Len(rest) : OnSchedule(rest[k].request, rest[k].send_after)
        BY <2>2, PopKeepsSchedule DEF Throttled
      <3>2. txQueue' = Append(rest, txQueue[i]) /\ UNCHANGED <<clock, txIn, current, submittedAt>>
        BY <2>2 DEF Throttled
      <3>3. OnSchedule(txQueue[i].request, txQueue[i].send_after)
        BY <3>1 DEF ScheduleOK
      <3> HIDE DEF i, rest
      <3>4. /\ Len(txQueue') = Len(rest) + 1 /\ Len(rest) \in Nat
            /\ \A k \in 1..Len(rest) : txQueue'[k] = rest[k]
            /\ txQueue'[Len(rest) + 1] = txQueue[i]
        BY <3>1, <3>2, AppendProperties, LenProperties
      <3>5. \A k \in 1..Len(txQueue') :
                OnSchedule(txQueue'[k].request, txQueue'[k].send_after)
        BY <3>1, <3>3, <3>4
      <3> QED
        BY <3>2, <3>5 DEF ScheduleOK, OnSchedule
    <2>3. CASE Commit
      <3> DEFINE i == TxBest(txQueue, clock)
                 rest == SwapRemove(txQueue, i)
      <3>1. /\ OnSchedule(txQueue[i].request, clock)
            /\ \A k \in 1..Len(rest) : OnSchedule(rest[k].request, rest[k].send_after)
        BY <2>3, PopKeepsSchedule DEF Commit
      <3>2. /\ txQueue' = rest /\ current' = txQueue[i].request
            /\ UNCHANGED <<clock, txIn, submittedAt>>
        BY <2>3 DEF Commit
      <3> HIDE DEF i, rest
      <3> QED
        BY <3>1, <3>2 DEF ScheduleOK, OnSchedule
    <2>4. CASE SendOk \/ SendErr
      BY <2>4, <2>b DEF SendOk, SendErr
    <2>5. ASSUME NEW r \in Requests, Submit(r)
          PROVE  ScheduleOK'
      <3>1. /\ submittedAt[r] = NoTime /\ txIn' = Append(txIn, r)
            /\ submittedAt' = [submittedAt EXCEPT ![r] = clock]
            /\ UNCHANGED <<clock, txQueue, current>>
        BY <2>5 DEF Submit
      <3>2. submittedAt'[r] # NoTime
        BY <3>1, <2>0 DEF NoTime
      <3>3. \A q : submittedAt[q] # NoTime /\ q \in Requests => submittedAt'[q] = submittedAt[q]
        BY <3>1, <2>0
      <3>4. \A i \in 1..Len(txIn') : submittedAt'[txIn'[i]] # NoTime
        <4>1. /\ txIn \in Seq(Requests) /\ Len(txIn) \in Nat
              /\ \A i \in 1..Len(txIn) : txIn[i] \in Requests
          BY ElementOfSeq, LenProperties DEF TypeOK
        <4>2. /\ Len(txIn') = Len(txIn) + 1
              /\ \A i \in 1..Len(txIn) : txIn'[i] = txIn[i]
              /\ txIn'[Len(txIn) + 1] = r
          BY <4>1, <3>1, AppendProperties
        <4> QED
          BY <4>1, <4>2, <3>2, <3>3 DEF ScheduleOK
      <3>5. \A i \in 1..Len(txQueue) :
               /\ submittedAt'[txQueue[i].request] # NoTime
               /\ txQueue[i].send_after
                    >= submittedAt'[txQueue[i].request] + DelayMs[txQueue[i].request]
        <4>1. txQueue \in Seq(TxEntries)
          BY DEF TypeOK, TxEntries
        <4>2. \A i \in 1..Len(txQueue) : txQueue[i] \in TxEntries
          BY <4>1, ElementOfSeq
        <4>3. \A i \in 1..Len(txQueue) : txQueue[i].request \in Requests
          BY <4>2 DEF TxEntries
        <4> QED
          BY <4>3, <3>3 DEF ScheduleOK, OnSchedule
      <3> QED
        BY <3>1, <3>3, <3>4, <3>5, <2>0 DEF ScheduleOK, OnSchedule
    <2>6. CASE Tick
      <3>1. clock' = clock + 1 /\ UNCHANGED <<txIn, txQueue, current, submittedAt>>
        BY <2>6 DEF Tick, txVars
      <3>2. OnSchedule(current, clock) /\ current # NoRequest
              => submittedAt[current] # NoTime
                 /\ clock' >= submittedAt[current] + DelayMs[current]
        BY <3>1, <2>0, DispatcherAssumption DEF OnSchedule
      <3> QED
        BY <3>1, <3>2 DEF ScheduleOK, OnSchedule
    <2>7. CASE DrainDone \/ Deliver \/ DeliverDone \/ NothingReady \/ StartSend
               \/ ChannelBusyRetry \/ RetryElapsed \/ RecvNothing \/ TimerFired \/ TakeRx
      BY <2>7, <2>a DEF DrainDone, Deliver, DeliverDone, NothingReady, StartSend,
         ChannelBusyRetry, RetryElapsed, RecvNothing, TimerFired, TakeRx, txVars
    <2>8. ASSUME NEW p \in Packets, Recv(p)
          PROVE  ScheduleOK'
      BY <2>8, <2>a DEF Recv, txVars
    <2>9. CASE UNCHANGED vars
      BY <2>9, <2>a DEF vars, txVars
    <2> QED
      BY <2>1, <2>2, <2>3, <2>4, <2>5, <2>6, <2>7, <2>8, <2>9
         DEF Next, Run, Hear, ChannelClear, ChannelBusyTimeout
  <1>3. ScheduleOK => NeverEarly
    BY DEF ScheduleOK, OnSchedule, NeverEarly
  <1> QED
    BY <1>1, <1>2, <1>3, TypeCorrect, PTL DEF Spec

-----------------------------------------------------------------------------
\* Why the wait for a clear channel ends: a backoff begins before the deadline only, and
\* each await in it is answered within MaxLag.
CadOK ==
    /\ pc = "cad" =>
         /\ cadDeadline # NoTime
         /\ since <= cadDeadline + LongestRetry + MaxLag
         /\ clock <= since + MaxLag
    /\ pc = "backoff" =>
         /\ cadDeadline # NoTime
         /\ retryAt <= cadDeadline + LongestRetry
         /\ clock <= retryAt + MaxLag

\* The code behaviour: however often the channel is found busy, a transmission is held
\* back for the timeout, one backoff and the lag of two awaits at most.
THEOREM ChannelWaitEnds == Spec => []CadIsBounded
  <1>0. /\ LongestRetry \in Nat
        /\ \A delay \in RetryDelays : delay \in Nat /\ delay <= LongestRetry
    BY DispatcherAssumption DEF LongestRetry, RetryDelays
  <1>1. Init => CadOK
    BY DEF Init, CadOK
  <1>2. TypeOK /\ CadOK /\ [Next]_vars => CadOK'
    <2> SUFFICES ASSUME TypeOK, CadOK, [Next]_vars PROVE CadOK'
      OBVIOUS
    <2>0. /\ clock \in Nat /\ since \in Nat
          /\ cadDeadline \in Nat \cup {NoTime} /\ retryAt \in Nat \cup {NoTime}
          /\ CadTimeoutMs \in Nat /\ MaxLag \in Nat
      BY DispatcherAssumption DEF TypeOK
    <2>a. UNCHANGED <<clock, pc, since, cadVars>> => CadOK'
      BY DEF CadOK, cadVars
    <2>b. pc' \notin {"cad", "backoff"} => CadOK'
      BY DEF CadOK
    <2>1. CASE Commit
      BY <2>1, <2>0, <1>0 DEF Commit, Goto, CadOK, NoTime
    <2>2. CASE ChannelBusyRetry
      <3>1. PICK delay \in RetryDelays : retryAt' = clock + delay
        BY <2>2 DEF ChannelBusyRetry
      <3> QED
        BY <2>2, <3>1, <2>0, <1>0 DEF ChannelBusyRetry, Goto, CadOK, NoTime
    <2>3. CASE RetryElapsed
      BY <2>3, <2>0, <1>0 DEF RetryElapsed, Goto, CadOK, NoTime
    <2>4. CASE Tick
      <3>1. clock' = clock + 1 /\ InTime /\ UNCHANGED <<pc, since, cadVars>>
        BY <2>4 DEF Tick
      <3>2. CASE pc = "cad"
        BY <3>1, <3>2, <2>0, <1>0 DEF InTime, CadOK, cadVars
      <3>3. CASE pc = "backoff"
        <4>1. clock < retryAt + MaxLag
          BY <3>1, <3>3, Zenon DEF InTime
        <4> QED
          BY <3>1, <3>3, <4>1, <2>0, <1>0 DEF CadOK, cadVars
      <3> QED
        BY <3>1, <3>2, <3>3, <2>b
    <2>5. CASE Drain \/ Deliver \/ TakeRx
      BY <2>5, <2>a DEF Drain, Deliver, TakeRx
    <2>6. CASE DrainDone \/ DeliverDone \/ NothingReady \/ Throttled \/ StartSend
               \/ SendOk \/ SendErr \/ TakeTx \/ TimerFired \/ RecvNothing
      BY <2>6, <2>b DEF DrainDone, DeliverDone, NothingReady, Throttled, StartSend,
         SendOk, SendErr, TakeTx, TimerFired, RecvNothing, Goto
    <2>7. ASSUME NEW p \in Packets, Recv(p)
          PROVE  CadOK'
      BY <2>7, <2>b DEF Recv, Goto
    <2>8. ASSUME NEW r \in Requests, Submit(r)
          PROVE  CadOK'
      BY <2>8, <2>a DEF Submit
    <2>9. CASE UNCHANGED vars
      BY <2>9, <2>a DEF vars
    <2> QED
      BY <2>1, <2>2, <2>3, <2>4, <2>5, <2>6, <2>7, <2>8, <2>9
         DEF Next, Run, Hear, ChannelClear, ChannelBusyTimeout
  <1>3. TypeOK /\ CadOK => CadIsBounded
    <2> SUFFICES ASSUME TypeOK, CadOK PROVE CadIsBounded
      OBVIOUS
    <2>1. /\ clock \in Nat /\ since \in Nat
          /\ cadDeadline \in Nat \cup {NoTime} /\ retryAt \in Nat \cup {NoTime}
          /\ MaxLag \in Nat
      BY DispatcherAssumption DEF TypeOK
    <2> QED
      BY <2>1, <1>0 DEF CadOK, CadIsBounded, NoTime
  <1> QED
    BY <1>1, <1>2, <1>3, TypeCorrect, PTL DEF Spec

-----------------------------------------------------------------------------
\* What the refinement needs of the loop: a packet is in flight exactly while the loop is
\* in the transmission of maybe_transmit, and a send ends in time.
InFlightOK ==
    /\ (pc \in {"cad", "backoff", "send"}) <=> (current # NoRequest)
    /\ pc = "send" => clock <= since + Estimate[current] + Overrun

LEMMA InFlight == Spec => []InFlightOK
  <1>1. Init => InFlightOK
    BY DEF Init, InFlightOK
  <1>2. TypeOK /\ InFlightOK /\ [Next]_vars => InFlightOK'
    <2> SUFFICES ASSUME TypeOK, InFlightOK, [Next]_vars PROVE InFlightOK'
      OBVIOUS
    <2>0. /\ clock \in Nat /\ since \in Nat /\ Overrun \in Nat
          /\ current \in Requests \cup {NoRequest} /\ NoRequest \notin Requests
          /\ Estimate \in [Requests -> Nat \ {0}]
      BY DispatcherAssumption DEF TypeOK
    <2>a. UNCHANGED <<clock, pc, since, current>> => InFlightOK'
      BY DEF InFlightOK
    <2>b. ASSUME pc \notin {"cad", "backoff", "send"}, pc' \notin {"cad", "backoff", "send"},
                 current' = current
          PROVE  InFlightOK'
      BY <2>b DEF InFlightOK
    <2>1. CASE Drain \/ Deliver \/ TakeRx
      BY <2>1, <2>a DEF Drain, Deliver, TakeRx, txVars
    <2>2. CASE DrainDone \/ DeliverDone \/ NothingReady \/ Throttled \/ RecvNothing
               \/ TakeTx \/ TimerFired
      BY <2>2, <2>b DEF DrainDone, DeliverDone, NothingReady, Throttled, RecvNothing,
         TakeTx, TimerFired, Goto, txVars
    <2>3. CASE Commit
      <3>1. current' \in Requests
        <4>1. /\ txQueue \in Seq(TxEntries) /\ TxReady(txQueue, clock) # {}
              /\ current' = txQueue[TxBest(txQueue, clock)].request
          BY <2>3 DEF Commit, TypeOK, TxEntries
        <4>2. TxBest(txQueue, clock) \in 1..Len(txQueue)
          BY <4>1, <2>0, TxBestIsBest DEF TxEntries, TxReady
        <4>3. txQueue[TxBest(txQueue, clock)] \in TxEntries
          BY <4>1, <4>2, ElementOfSeq
        <4> QED
          BY <4>1, <4>3 DEF TxEntries
      <3> QED
        BY <2>3, <3>1, <2>0 DEF Commit, Goto, InFlightOK
    <2>4. CASE StartSend
      <3>1. current # NoRequest /\ current' = current /\ pc' = "send"
            /\ since' = clock /\ clock' = clock
        BY <2>4 DEF StartSend, Goto, InFlightOK, txVars
      <3>2. Estimate[current] \in Nat
        BY <3>1, <2>0
      <3> QED
        BY <3>1, <3>2, <2>0 DEF InFlightOK
    <2>5. CASE ChannelBusyRetry \/ RetryElapsed
      BY <2>5 DEF ChannelBusyRetry, RetryElapsed, Goto, InFlightOK, txVars
    <2>6. CASE SendOk \/ SendErr
      BY <2>6 DEF SendOk, SendErr, Goto, InFlightOK
    <2>7. CASE Tick
      <3>1. clock' = clock + 1 /\ InTime /\ UNCHANGED <<pc, since, current>>
        BY <2>7 DEF Tick, txVars
      <3>2. CASE pc = "send"
        <4>1. clock < since + Estimate[current] + Overrun
          BY <3>1, <3>2, Zenon DEF InTime
        <4>2. Estimate[current] \in Nat
          BY <3>2, <2>0 DEF InFlightOK
        <4> QED
          BY <3>1, <3>2, <4>1, <4>2, <2>0 DEF InFlightOK
      <3> QED
        BY <3>1, <3>2 DEF InFlightOK
    <2>8. ASSUME NEW p \in Packets, Recv(p)
          PROVE  InFlightOK'
      BY <2>8, <2>b DEF Recv, Goto, txVars
    <2>9. ASSUME NEW r \in Requests, Submit(r)
          PROVE  InFlightOK'
      BY <2>9, <2>a DEF Submit
    <2>10. CASE UNCHANGED vars
      BY <2>10, <2>a DEF vars, txVars
    <2> QED
      BY <2>1, <2>2, <2>3, <2>4, <2>5, <2>6, <2>7, <2>8, <2>9, <2>10
         DEF Next, Run, Hear, ChannelClear, ChannelBusyTimeout
  <1> QED
    BY <1>1, <1>2, TypeCorrect, PTL DEF Spec

\* The code behaviour: nothing in the loop, the queues, the channel wait or the error
\* paths spends, refills or checks the budget in another way than AirtimeBudget does, so
\* that the bound proved of AirtimeBudget is one of the dispatcher.
THEOREM BudgetRefinement == Spec => BudgetIsKept
  <1> DEFINE sending == IF current = NoRequest THEN -1 ELSE Estimate[current]
             txStart == IF pc = "send" THEN since ELSE -1
             airtime == stats.total_air_time_ms
             sent == stats.sent_flood + stats.sent_direct
             bvars == <<clock, budget, lastRefill, sending, txStart, airtime, sent>>
             InTransmission == pc \in {"cad", "backoff", "send"}
  <1>0. /\ Budget!MaxBudgetMs = MaxBudgetMs
        /\ \A b, t : Budget!Refilled(b, t) = Refilled(b, t)
        /\ \A b, e : Budget!CanTransmit(b, e) <=> CanTransmit(b, e)
        /\ \A b, a : Budget!Deducted(b, a) = Deducted(b, a)
    BY DEF Budget!MaxBudgetMs, Budget!DutyShare, Budget!Refilled, Budget!CanTransmit,
       Budget!Deducted, MaxBudgetMs, DutyShare, Refilled, CanTransmit, Deducted
  <1>1. Init => Budget!Init
    <2>1. ASSUME Init PROVE stats.total_air_time_ms = 0 /\ stats.sent_flood + stats.sent_direct = 0
      BY <2>1 DEF Init
    <2> QED
      BY <2>1, <1>0 DEF Init, Budget!Init, Budget!NoTx
  <1>2. TypeOK /\ InFlightOK /\ [Next]_vars => [Budget!Next]_(Budget!vars)
    <2> SUFFICES ASSUME TypeOK, InFlightOK, [Next]_vars
                 PROVE  Budget!Next \/ bvars' = bvars
      BY DEF Budget!vars
    <2>0. /\ clock \in Nat /\ since \in 0..clock /\ Overrun \in Nat
          /\ current \in Requests \cup {NoRequest} /\ NoRequest \notin Requests
          /\ Estimate \in [Requests -> Nat \ {0}]
          /\ stats \in [total_air_time_ms : Nat, sent_flood : Nat, sent_direct : Nat,
                        recv_flood : Nat, recv_direct : Nat]
      BY DispatcherAssumption DEF TypeOK
    <2>1. InTransmission <=> sending # -1
      BY <2>0 DEF InFlightOK
    <2>2. ASSUME UNCHANGED <<clock, budget, lastRefill, current, stats>>,
                 (pc' = pc /\ since' = since) \/ (pc # "send" /\ pc' # "send")
          PROVE  bvars' = bvars
      BY <2>2
    <2>3. CASE Drain \/ DrainDone \/ Deliver \/ DeliverDone \/ ChannelBusyRetry
               \/ RetryElapsed \/ RecvNothing \/ TakeTx \/ TimerFired \/ TakeRx
      BY <2>3, <2>2 DEF Drain, DrainDone, Deliver, DeliverDone, ChannelBusyRetry,
         RetryElapsed, RecvNothing, TakeTx, TimerFired, TakeRx, Goto, txVars, dutyVars
    <2>4. CASE NothingReady \/ Throttled
      <3>1. /\ Refill /\ UNCHANGED <<clock, current, stats>>
            /\ pc = "transmit" /\ pc' = "wait"
        BY <2>4 DEF NothingReady, Throttled, Goto, txVars
      <3>2. sending = -1 /\ UNCHANGED <<clock, sending, txStart, airtime, sent>>
        BY <3>1, <2>1
      <3>3. Budget!Poll
        BY <1>0, <3>1, <3>2 DEF Budget!Poll, Budget!Refill, Refill, Budget!NoTx
      <3> QED
        BY <3>3 DEF Budget!Next
    <2>5. CASE Commit
      <3> DEFINE r == txQueue[TxBest(txQueue, clock)].request
      <3>1. r \in Requests
        <4>1. txQueue \in Seq(TxEntries) /\ TxReady(txQueue, clock) # {}
          BY <2>5 DEF Commit, TypeOK, TxEntries
        <4>2. TxBest(txQueue, clock) \in 1..Len(txQueue)
          BY <4>1, <2>0, TxBestIsBest DEF TxEntries, TxReady
        <4>3. txQueue[TxBest(txQueue, clock)] \in TxEntries
          BY <4>1, <4>2, ElementOfSeq
        <4> QED
          BY <4>3 DEF TxEntries
      <3>2. /\ Refill /\ CanTransmit(budget', Estimate[r]) /\ current' = r
            /\ UNCHANGED <<clock, stats>>
            /\ pc = "transmit" /\ pc' = "cad"
        BY <2>5 DEF Commit, Goto
      <3> HIDE DEF r
      <3>3. /\ sending = -1 /\ sending' = Estimate[r]
            /\ UNCHANGED <<clock, txStart, airtime, sent>>
        BY <3>1, <3>2, <2>0, <2>1
      <3>4. Budget!Commit(Estimate[r])
        BY <1>0, <3>2, <3>3 DEF Budget!Commit, Budget!Refill, Refill, Budget!NoTx
      <3> QED
        BY <3>1, <3>4 DEF Budget!Next
    <2>6. CASE StartSend
      <3>1. /\ pc = "cad" /\ pc' = "send" /\ since' = clock
            /\ UNCHANGED <<clock, budget, lastRefill, current, stats>>
        BY <2>6 DEF StartSend, Goto, txVars, dutyVars
      <3>2. /\ sending # -1 /\ txStart = -1 /\ txStart' = clock
            /\ UNCHANGED <<sending, airtime, sent>>
        BY <3>1, <2>1
      <3>3. Budget!StartSend
        BY <3>1, <3>2 DEF Budget!StartSend, Budget!NoTx
      <3> QED
        BY <3>3 DEF Budget!Next
    <2>7. CASE SendOk
      <3>1. /\ pc = "send" /\ clock > since /\ budget' = Deducted(budget, clock - since)
            /\ current' = NoRequest /\ pc' = "wait" /\ UNCHANGED <<clock, lastRefill>>
        BY <2>7 DEF SendOk, Goto
      <3>2. /\ txStart = since /\ txStart # -1 /\ sending = Estimate[current]
            /\ clock - txStart \in 1..(sending + Overrun)
        <4>1. current # NoRequest /\ clock <= since + Estimate[current] + Overrun
          BY <3>1 DEF InFlightOK
        <4>2. Estimate[current] \in Nat
          BY <4>1, <2>0
        <4> QED
          BY <3>1, <4>1, <4>2, <2>0
      <3>3. airtime' = airtime + (clock - txStart) /\ sent' = sent + 1
        <4>1. stats' = [stats EXCEPT
                   !.total_air_time_ms = @ + (clock - since),
                   !.sent_flood = IF SentAsFlood[current] THEN @ + 1 ELSE @,
                   !.sent_direct = IF SentAsFlood[current] THEN @ ELSE @ + 1]
          BY <2>7 DEF SendOk
        <4>2. airtime' = airtime + (clock - since)
          BY <4>1, <2>0
        <4>3. CASE SentAsFlood[current]
          BY <4>1, <4>2, <4>3, <3>2, <2>0
        <4>4. CASE ~SentAsFlood[current]
          BY <4>1, <4>2, <4>4, <3>2, <2>0
        <4> QED
          BY <4>3, <4>4
      <3>4. sending' = -1 /\ txStart' = -1
        BY <3>1
      <3>5. Budget!SendOk
        BY <1>0, <3>1, <3>2, <3>3, <3>4 DEF Budget!SendOk, Budget!NoTx
      <3> QED
        BY <3>5 DEF Budget!Next
    <2>8. CASE SendErr
      <3>1. /\ pc = "send" /\ pc' = "wait" /\ current' = NoRequest
            /\ UNCHANGED <<clock, budget, lastRefill, stats>>
        BY <2>8 DEF SendErr, Goto, dutyVars
      <3>2. /\ txStart # -1 /\ sending' = -1 /\ txStart' = -1
            /\ UNCHANGED <<airtime, sent>>
        BY <3>1, <2>0
      <3>3. Budget!SendErr
        BY <3>1, <3>2 DEF Budget!SendErr, Budget!NoTx
      <3> QED
        BY <3>3 DEF Budget!Next
    <2>9. ASSUME NEW p \in Packets, Recv(p)
          PROVE  bvars' = bvars
      <3>1. /\ stats' = IF HeardAsFlood[p] THEN [stats EXCEPT !.recv_flood = @ + 1]
                        ELSE [stats EXCEPT !.recv_direct = @ + 1]
            /\ pc = "wait" /\ pc' = "drain"
            /\ UNCHANGED <<clock, current, budget, lastRefill>>
        BY <2>9 DEF Recv, Goto, txVars, dutyVars
      <3>2. airtime' = airtime /\ sent' = sent
        BY <3>1, <2>0
      <3> QED
        BY <3>1, <3>2
    <2>10. CASE Tick
      <3>1. /\ clock < MaxClock /\ clock' = clock + 1
            /\ UNCHANGED <<pc, since, current, budget, lastRefill, stats>>
        BY <2>10 DEF Tick, txVars, dutyVars
      <3>2. Budget!Tick
        BY <3>1 DEF Budget!Tick
      <3> QED
        BY <3>2 DEF Budget!Next
    <2>11. ASSUME NEW r \in Requests, Submit(r)
           PROVE  bvars' = bvars
      BY <2>11, <2>2 DEF Submit, dutyVars
    <2>12. CASE UNCHANGED vars
      BY <2>12, <2>2 DEF vars, txVars, dutyVars
    <2> QED
      BY <2>3, <2>4, <2>5, <2>6, <2>7, <2>8, <2>9, <2>10, <2>11, <2>12
         DEF Next, Run, Hear, ChannelClear, ChannelBusyTimeout
  <1> QED
    BY <1>1, <1>2, TypeCorrect, InFlight, PTL DEF Spec, BudgetIsKept, Budget!Spec

-----------------------------------------------------------------------------
\* What each operation of the channels and queues does to their contents, for contents
\* in which nothing occurs twice: Vec::push and Channel::send add,
LEMMA AppendAdds ==
    ASSUME NEW S, NEW s \in Seq(S), NEW e \in S, Injective(s), e \notin Occupants(s)
    PROVE  /\ Occupants(Append(s, e)) = Occupants(s) \cup {e}
           /\ Injective(Append(s, e))
  <1>1. /\ Len(s) \in Nat /\ Len(Append(s, e)) = Len(s) + 1
        /\ \A i \in 1..Len(s) : Append(s, e)[i] = s[i]
        /\ Append(s, e)[Len(s) + 1] = e
    BY AppendProperties, LenProperties
  <1>2. 1..(Len(s) + 1) = 1..Len(s) \cup {Len(s) + 1}
    BY <1>1
  <1>3. \A i \in 1..Len(s) : s[i] # e
    BY DEF Occupants
  <1> DEFINE t == Append(s, e)
             n == Len(s)
  <1> HIDE DEF t, n
  <1>4. Occupants(t) = Occupants(s) \cup {e}
    BY <1>1, <1>2 DEF Occupants, t, n
  <1>5. Injective(t)
    <2> SUFFICES ASSUME NEW i \in 1..n \cup {n + 1}, NEW j \in 1..n \cup {n + 1}, t[i] = t[j]
                 PROVE  i = j
      BY <1>1, <1>2 DEF Injective, t, n
    <2> QED
      BY <1>1, <1>3 DEF Injective, t, n
  <1> QED
    BY <1>4, <1>5 DEF t

\* Channel::receive takes the first,
LEMMA TailRemovesHead ==
    ASSUME NEW S, NEW s \in Seq(S), s # <<>>, Injective(s)
    PROVE  /\ Head(s) \in Occupants(s)
           /\ Occupants(Tail(s)) = Occupants(s) \ {Head(s)}
           /\ Injective(Tail(s))
  <1>1. /\ Len(s) \in Nat \ {0} /\ Len(Tail(s)) = Len(s) - 1
        /\ \A i \in 1..(Len(s) - 1) : Tail(s)[i] = s[i + 1]
        /\ Head(s) = s[1]
    BY HeadTailProperties, EmptySeq
  <1>2. Head(s) \in Occupants(s)
    BY <1>1 DEF Occupants
  <1>3. Injective(Tail(s))
    BY <1>1 DEF Injective
  <1>4. ASSUME NEW x \in Occupants(Tail(s))
        PROVE  x \in Occupants(s) \ {Head(s)}
    <2>1. PICK i \in 1..(Len(s) - 1) : x = s[i + 1]
      BY <1>1 DEF Occupants
    <2>2. i + 1 \in 1..Len(s) /\ 1 \in 1..Len(s) /\ i + 1 # 1
      BY <1>1
    <2> QED
      BY <1>1, <2>1, <2>2 DEF Occupants, Injective
  <1>5. ASSUME NEW x \in Occupants(s) \ {Head(s)}
        PROVE  x \in Occupants(Tail(s))
    <2>1. PICK i \in 1..Len(s) : x = s[i]
      BY DEF Occupants
    <2>2. i - 1 \in 1..(Len(s) - 1) /\ (i - 1) + 1 = i
      BY <1>1, <2>1
    <2> QED
      BY <1>1, <2>1, <2>2 DEF Occupants
  <1> QED
    BY <1>2, <1>3, <1>4, <1>5

\* and Vec::swap_remove the one at its index, wherever the last one goes.
LEMMA SwapRemoveRemoves ==
    ASSUME NEW S, NEW s \in Seq(S), NEW i \in 1..Len(s), Injective(s)
    PROVE  /\ Occupants(SwapRemove(s, i)) = Occupants(s) \ {s[i]}
           /\ Injective(SwapRemove(s, i))
  <1> DEFINE n == Len(s)
             t == SwapRemove(s, i)
  <1>1. /\ n \in Nat /\ Len(t) = n - 1
        /\ \A k \in 1..(n - 1) : t[k] = s[IF k = i THEN n ELSE k]
    BY SwapRemoveType, LenProperties
  <1>2. \A j \in 1..n \ {i} : \E k \in 1..(n - 1) : t[k] = s[j]
    BY SwapRemoveKeepsOthers
  <1> HIDE DEF t
  <1>3. Injective(t)
    <2> SUFFICES ASSUME NEW k \in 1..(n - 1), NEW l \in 1..(n - 1), t[k] = t[l]
                 PROVE  k = l
      BY <1>1 DEF Injective
    <2>1. (IF k = i THEN n ELSE k) = (IF l = i THEN n ELSE l)
      BY <1>1 DEF Injective
    <2> QED
      BY <2>1, <1>1
  <1>4. \A k \in 1..(n - 1) : t[k] \in Occupants(s) \ {s[i]}
    <2> SUFFICES ASSUME NEW k \in 1..(n - 1) PROVE t[k] \in Occupants(s) \ {s[i]}
      OBVIOUS
    <2>1. (IF k = i THEN n ELSE k) \in 1..n \ {i}
      BY <1>1
    <2> QED
      BY <2>1, <1>1 DEF Occupants, Injective
  <1>5. Occupants(t) = Occupants(s) \ {s[i]}
    <2>1. Occupants(t) = {t[k] : k \in 1..(n - 1)}
      BY <1>1 DEF Occupants
    <2>2. ASSUME NEW x \in Occupants(s) \ {s[i]}
          PROVE  x \in Occupants(t)
      <3>1. PICK j \in 1..n \ {i} : x = s[j]
        BY DEF Occupants
      <3> QED
        BY <1>2, <2>1, <3>1
    <2> QED
      BY <1>4, <2>1, <2>2
  <1> QED
    BY <1>3, <1>5 DEF t

\* A sequence in which nothing occurs twice has as many occupants as elements.
LEMMA OccupantsCounted ==
    ASSUME NEW S, NEW s \in Seq(S), Injective(s)
    PROVE  Cardinality(Occupants(s)) = Len(s)
  <1>1. Len(s) \in Nat /\ s \in [1..Len(s) -> S]
    BY LenProperties
  <1>2. s \in [1..Len(s) -> Occupants(s)]
    BY <1>1 DEF Occupants
  <1>3. s \in Bijection(1..Len(s), Occupants(s))
    BY <1>2 DEF Injective, Occupants, Bijection, Injection, Surjection, IsInjective
  <1> QED
    BY <1>1, <1>3, FS_CountingElements DEF ExistsBijection

\* A field of every entry of a queue: the requests or the packets in it.
FieldOf(queue, field) == [i \in 1..Len(queue) |-> queue[i][field]]

FieldType(E, f, S) == \A e \in E : e[f] \in S

\* What push() and pop_ready() do to the requests of the transmit queue and to the packets
\* of the delay queue: the same.
LEMMA FieldOfQueue ==
    ASSUME NEW E, NEW S, NEW f, FieldType(E, f, S), NEW q \in Seq(E)
    PROVE  /\ FieldOf(q, f) \in Seq(S) /\ Len(FieldOf(q, f)) = Len(q)
           /\ \A e \in E : FieldOf(Append(q, e), f) = Append(FieldOf(q, f), e[f])
           /\ \A i \in 1..Len(q) : FieldOf(SwapRemove(q, i), f) = SwapRemove(FieldOf(q, f), i)
  <1>1. Len(q) \in Nat /\ \A i \in 1..Len(q) : q[i] \in E
    BY LenProperties, ElementOfSeq
  <1> USE DEF FieldType
  <1>2. FieldOf(q, f) \in Seq(S) /\ Len(FieldOf(q, f)) = Len(q)
    <2>1. FieldOf(q, f) \in [1..Len(q) -> S]
      BY <1>1 DEF FieldOf
    <2>2. FieldOf(q, f) \in Seq(S)
      BY <1>1, <2>1, SeqDef
    <2> QED
      BY <1>1, <2>1, <2>2, LenProperties
  <1>3. ASSUME NEW e \in E
        PROVE  FieldOf(Append(q, e), f) = Append(FieldOf(q, f), e[f])
    <2> DEFINE a == Append(q, e)
               b == Append(FieldOf(q, f), e[f])
    <2>1. /\ Len(a) = Len(q) + 1
          /\ \A i \in 1..Len(q) : a[i] = q[i]
          /\ a[Len(q) + 1] = e
      BY AppendProperties
    <2>2. /\ b \in Seq(S) /\ Len(b) = Len(q) + 1
          /\ \A i \in 1..Len(q) : b[i] = q[i][f]
          /\ b[Len(q) + 1] = e[f]
      BY <1>2, AppendProperties DEF FieldOf
    <2> HIDE DEF a, b
    <2>3. b = [i \in 1..(Len(q) + 1) |-> b[i]]
      BY <2>2, LenProperties
    <2>4. \A i \in 1..(Len(q) + 1) : b[i] = a[i][f]
      BY <1>1, <2>1, <2>2
    <2>5. b = [i \in 1..(Len(q) + 1) |-> a[i][f]]
      BY <2>3, <2>4
    <2> QED
      BY <2>1, <2>5 DEF FieldOf, a, b
  <1>4. ASSUME NEW i \in 1..Len(q)
        PROVE  FieldOf(SwapRemove(q, i), f) = SwapRemove(FieldOf(q, f), i)
    <2>1. Len(SwapRemove(q, i)) = Len(q) - 1
      BY SwapRemoveType
    <2> QED
      BY <1>1, <1>2, <2>1 DEF SwapRemove, FieldOf
  <1> QED
    BY <1>2, <1>3, <1>4

\* QueuedRequests is such a field of the transmit queue, and follows its push() and
\* pop_ready().
LEMMA TxQueueField ==
    /\ QueuedRequests = FieldOf(txQueue, "request")
    /\ QueuedRequests' = FieldOf(txQueue', "request")
    /\ \A q \in Seq(TxEntries) :
          LET s == FieldOf(q, "request")
          IN  /\ s \in Seq(Requests) /\ Len(s) = Len(q)
              /\ \A i \in 1..Len(q) : s[i] = q[i].request
              /\ \A e \in TxEntries : FieldOf(Append(q, e), "request") = Append(s, e.request)
              /\ \A i \in 1..Len(q) : FieldOf(SwapRemove(q, i), "request") = SwapRemove(s, i)
  <1>1. \A e \in TxEntries : e["request"] \in Requests /\ e["request"] = e.request
    BY DEF TxEntries
  <1>2. ASSUME NEW q \in Seq(TxEntries)
        PROVE  /\ FieldOf(q, "request") \in Seq(Requests) /\ Len(FieldOf(q, "request")) = Len(q)
               /\ \A e \in TxEntries : FieldOf(Append(q, e), "request")
                                         = Append(FieldOf(q, "request"), e["request"])
               /\ \A i \in 1..Len(q) : FieldOf(SwapRemove(q, i), "request")
                                         = SwapRemove(FieldOf(q, "request"), i)
    <2> DEFINE f == "request"
    <2>1. FieldType(TxEntries, f, Requests)
      BY <1>1 DEF FieldType
    <2> HIDE DEF f
    <2>2. /\ FieldOf(q, f) \in Seq(Requests) /\ Len(FieldOf(q, f)) = Len(q)
          /\ \A e \in TxEntries : FieldOf(Append(q, e), f) = Append(FieldOf(q, f), e[f])
          /\ \A i \in 1..Len(q) : FieldOf(SwapRemove(q, i), f) = SwapRemove(FieldOf(q, f), i)
      BY <2>1, FieldOfQueue
    <2> QED
      BY <2>2 DEF f
  <1>3. \A q \in Seq(TxEntries) : \A i \in 1..Len(q) : FieldOf(q, "request")[i] = q[i].request
    BY <1>1, ElementOfSeq DEF FieldOf
  <1>4. /\ QueuedRequests = FieldOf(txQueue, "request")
        /\ QueuedRequests' = FieldOf(txQueue', "request")
    BY DEF QueuedRequests, FieldOf
  <1> QED
    BY <1>1, <1>2, <1>3, <1>4

\* The same for the frames of the delay queue.
LEMMA RxQueueField ==
    /\ DelayedPackets = FieldOf(rxDelayQueue, "packet")
    /\ DelayedPackets' = FieldOf(rxDelayQueue', "packet")
    /\ \A q \in Seq(RxEntries) :
          LET s == FieldOf(q, "packet")
          IN  /\ s \in Seq(Packets) /\ Len(s) = Len(q)
              /\ \A i \in 1..Len(q) : s[i] = q[i].packet
              /\ \A e \in RxEntries : FieldOf(Append(q, e), "packet") = Append(s, e.packet)
              /\ \A i \in 1..Len(q) : FieldOf(SwapRemove(q, i), "packet") = SwapRemove(s, i)
  <1>1. \A e \in RxEntries : e["packet"] \in Packets /\ e["packet"] = e.packet
    BY DEF RxEntries
  <1>2. ASSUME NEW q \in Seq(RxEntries)
        PROVE  /\ FieldOf(q, "packet") \in Seq(Packets) /\ Len(FieldOf(q, "packet")) = Len(q)
               /\ \A e \in RxEntries : FieldOf(Append(q, e), "packet")
                                         = Append(FieldOf(q, "packet"), e["packet"])
               /\ \A i \in 1..Len(q) : FieldOf(SwapRemove(q, i), "packet")
                                         = SwapRemove(FieldOf(q, "packet"), i)
    <2> DEFINE f == "packet"
    <2>1. FieldType(RxEntries, f, Packets)
      BY <1>1 DEF FieldType
    <2> HIDE DEF f
    <2>2. /\ FieldOf(q, f) \in Seq(Packets) /\ Len(FieldOf(q, f)) = Len(q)
          /\ \A e \in RxEntries : FieldOf(Append(q, e), f) = Append(FieldOf(q, f), e[f])
          /\ \A i \in 1..Len(q) : FieldOf(SwapRemove(q, i), f) = SwapRemove(FieldOf(q, f), i)
      BY <2>1, FieldOfQueue
    <2> QED
      BY <2>2 DEF f
  <1>3. \A q \in Seq(RxEntries) : \A i \in 1..Len(q) : FieldOf(q, "packet")[i] = q[i].packet
    BY <1>1, ElementOfSeq DEF FieldOf
  <1>4. /\ DelayedPackets = FieldOf(rxDelayQueue, "packet")
        /\ DelayedPackets' = FieldOf(rxDelayQueue', "packet")
    BY DEF DelayedPackets, FieldOf
  <1> QED
    BY <1>1, <1>2, <1>3, <1>4

-----------------------------------------------------------------------------
\* The requests that RequestsAccounted says are somewhere in the dispatcher.
Unresolved == {r \in Requests : submittedAt[r] # NoTime /\ outcome[r] = "none"}

\* What RequestsAccounted needs to be inductive: no outcome comes before the submission.
SubmittedFirst == \A r \in Requests : submittedAt[r] = NoTime => outcome[r] = "none"

\* The requests of the queue are requests, and no other is in a channel or in flight.
LEMMA RequestsType ==
    ASSUME TypeOK
    PROVE  /\ txIn \in Seq(Requests) /\ QueuedRequests \in Seq(Requests)
           /\ txQueue \in Seq(TxEntries) /\ Len(QueuedRequests) = Len(txQueue)
           /\ \A i \in 1..Len(txQueue) : QueuedRequests[i] = txQueue[i].request
           /\ Occupants(txIn) \subseteq Requests /\ Occupants(QueuedRequests) \subseteq Requests
           /\ NoRequest \notin Requests
  <1>1. txIn \in Seq(Requests) /\ txQueue \in Seq(TxEntries) /\ NoRequest \notin Requests
    BY DispatcherAssumption DEF TypeOK, TxEntries
  <1>2. QueuedRequests \in Seq(Requests) /\ Len(QueuedRequests) = Len(txQueue)
    BY <1>1, TxQueueField
  <1>3. \A s \in Seq(Requests) : Occupants(s) \subseteq Requests
    BY ElementOfSeq DEF Occupants
  <1> QED
    BY <1>1, <1>2, <1>3 DEF QueuedRequests

\* push() takes the request from the channel to the queue, or drops it.
LEMMA ReceiveAccounts ==
    ASSUME TypeOK, RequestsAccounted, Receive, UNCHANGED <<current, submittedAt>>
    PROVE  RequestsAccounted'
  <1> DEFINE r == Head(txIn)
             e == TxEntry(r, Priority[r], clock + DelayMs[r])
             In == Occupants(txIn)
             Queued == Occupants(QueuedRequests)
  <1>1. /\ r \in In /\ In' = In \ {r} /\ Injective(txIn') /\ r \in Requests
    BY RequestsType, TailRemovesHead, HeadTailProperties DEF RequestsAccounted, Receive
  <1>2. /\ Injective(txIn) /\ Injective(QueuedRequests) /\ In \cap Queued = {}
        /\ current \notin In \cup Queued
        /\ In \cup Queued \cup ({current} \ {NoRequest}) = Unresolved
    BY DEF RequestsAccounted, Unresolved
  <1>3. outcome \in [Requests -> Outcomes]
    BY DEF TypeOK
  <1>4. CASE outcome' = [outcome EXCEPT ![r] = "dropped"] /\ UNCHANGED txQueue
    <2>1. Unresolved' = Unresolved \ {r}
      BY <1>3, <1>4 DEF Unresolved
    <2>2. QueuedRequests' = QueuedRequests
      BY <1>4 DEF QueuedRequests
    <2>3. Queued' = Queued
      BY <2>2 DEF Occupants
    <2> HIDE DEF r, In, Queued
    <2>4. In' \cup Queued' \cup ({current'} \ {NoRequest}) = Unresolved'
      BY <1>1, <1>2, <2>1, <2>3
    <2> QED
      BY <1>1, <1>2, <2>2, <2>3, <2>4 DEF RequestsAccounted, Unresolved, In, Queued
  <1>5. CASE txQueue' = Append(txQueue, e) /\ UNCHANGED outcome
    <2>1. e \in TxEntries /\ e.request = r
      <3>1. clock + DelayMs[r] \in Nat /\ Priority[r] \in Nat
        <4>1. clock \in Nat /\ DelayMs[r] \in Nat /\ Priority[r] \in Nat
          BY <1>1, DispatcherAssumption DEF TypeOK
        <4> QED
          BY <4>1
      <3> QED
        BY <1>1, <3>1 DEF TxEntry, TxEntries
    <2>2. QueuedRequests' = Append(QueuedRequests, r)
      <3>1. FieldOf(Append(txQueue, e), "request") = Append(FieldOf(txQueue, "request"), r)
        BY <2>1, RequestsType, TxQueueField
      <3> QED
        BY <1>5, <2>1, <3>1, TxQueueField
    <2>3. r \notin Queued
      BY <1>1, <1>2
    <2>4. Queued' = Queued \cup {r} /\ Injective(QueuedRequests')
      BY <1>1, <1>2, <2>2, <2>3, RequestsType, AppendAdds
    <2>5. Unresolved' = Unresolved
      BY <1>5 DEF Unresolved
    <2> HIDE DEF r, In, Queued
    <2>6. In' \cup Queued' \cup ({current'} \ {NoRequest}) = Unresolved'
      BY <1>1, <1>2, <2>4, <2>5
    <2>7. In' \cap Queued' = {} /\ current' \notin In' \cup Queued'
      BY <1>1, <1>2, <2>4
    <2> QED
      BY <1>1, <2>4, <2>6, <2>7 DEF RequestsAccounted, Unresolved, In, Queued
  <1> QED
    BY <1>4, <1>5 DEF Receive, Push

\* pop_ready() takes one request from the queue.
LEMMA PopAccounts ==
    ASSUME TypeOK, RequestsAccounted, TxReady(txQueue, clock) # {},
           NEW i, i = TxBest(txQueue, clock)
    PROVE  /\ i \in 1..Len(txQueue) /\ txQueue[i] \in TxEntries
           /\ txQueue[i].request \in Occupants(QueuedRequests)
           /\ SwapRemove(txQueue, i) \in Seq(TxEntries)
           /\ LET rest == FieldOf(SwapRemove(txQueue, i), "request")
              IN  /\ rest \in Seq(Requests) /\ Injective(rest)
                  /\ Occupants(rest) = Occupants(QueuedRequests) \ {txQueue[i].request}
  <1> DEFINE rest == FieldOf(SwapRemove(txQueue, i), "request")
  <1>1. i \in 1..Len(txQueue) /\ SwapRemove(txQueue, i) \in Seq(TxEntries)
    BY TxBestType, TypeParts DEF LoopTypeOK
  <1>2. txQueue[i] \in TxEntries
    BY <1>1, RequestsType, ElementOfSeq
  <1>3. txQueue[i].request \in Occupants(QueuedRequests)
    BY <1>1, RequestsType DEF Occupants
  <1>4. rest = SwapRemove(QueuedRequests, i)
    BY <1>1, RequestsType, TxQueueField
  <1>5. rest \in Seq(Requests)
    BY <1>1, TxQueueField
  <1>6. /\ i \in 1..Len(QueuedRequests) /\ QueuedRequests[i] = txQueue[i].request
        /\ QueuedRequests \in Seq(Requests) /\ Injective(QueuedRequests)
    BY <1>1, RequestsType DEF RequestsAccounted
  <1>7. /\ Occupants(rest) = Occupants(QueuedRequests) \ {txQueue[i].request}
        /\ Injective(rest)
    BY <1>4, <1>6, SwapRemoveRemoves
  <1> QED
    BY <1>1, <1>2, <1>3, <1>5, <1>7

\* The code behaviour: run() and maybe_transmit() keep every request in exactly one place,
\* the channel, the queue or the transmission, until it is sent, lost or dropped.
THEOREM NoRequestIsLost == Spec => []RequestsAccounted
  <1>1. Init => RequestsAccounted
    <2> SUFFICES ASSUME Init PROVE RequestsAccounted
      OBVIOUS
    <2>1. txIn = <<>> /\ txQueue = <<>> /\ Len(txIn) = 0 /\ Len(txQueue) = 0
      BY EmptySeq DEF Init
    <2>2. QueuedRequests = [i \in 1..0 |-> txQueue[i].request]
      BY <2>1 DEF QueuedRequests
    <2>3. QueuedRequests \in [1..0 -> {}] /\ QueuedRequests \in Seq(Requests)
      BY <2>1, <2>2, SeqDef
    <2>4. Len(QueuedRequests) = 0
      BY <2>3, LenProperties
    <2> QED
      BY <2>1, <2>4 DEF Init, RequestsAccounted, Injective, Occupants
  <1>2. TypeOK /\ InFlightOK /\ RequestsAccounted /\ SubmittedFirst /\ [Next]_vars
          => RequestsAccounted'
    <2> SUFFICES ASSUME TypeOK, InFlightOK, RequestsAccounted, SubmittedFirst, [Next]_vars
                 PROVE  RequestsAccounted'
      OBVIOUS
    <2> DEFINE In == Occupants(txIn)
               Queued == Occupants(QueuedRequests)
    <2>0. /\ Injective(txIn) /\ Injective(QueuedRequests) /\ In \cap Queued = {}
          /\ current \notin In \cup Queued
          /\ In \cup Queued \cup ({current} \ {NoRequest}) = Unresolved
          /\ In \subseteq Requests /\ Queued \subseteq Requests
          /\ NoRequest \notin Requests
          /\ outcome \in [Requests -> Outcomes]
      BY RequestsType DEF RequestsAccounted, Unresolved, TypeOK
    <2>a. UNCHANGED txVars => RequestsAccounted'
      <3> SUFFICES ASSUME UNCHANGED txVars PROVE RequestsAccounted'
        OBVIOUS
      <3>1. QueuedRequests' = QueuedRequests
        BY DEF QueuedRequests, txVars
      <3>2. UNCHANGED <<txIn, current, submittedAt, outcome>>
        BY DEF txVars
      <3>3. /\ Injective(txIn)' = Injective(txIn) /\ Occupants(txIn)' = Occupants(txIn)
            /\ Injective(QueuedRequests)' = Injective(QueuedRequests)
            /\ Occupants(QueuedRequests)' = Occupants(QueuedRequests)
        <4>1. Injective(txIn)' = Injective(txIn) /\ Occupants(txIn)' = Occupants(txIn)
          BY <3>2 DEF Injective, Occupants
        <4>2. /\ Injective(QueuedRequests)' = Injective(QueuedRequests)
              /\ Occupants(QueuedRequests)' = Occupants(QueuedRequests)
          BY <3>1 DEF Injective, Occupants
        <4> QED
          BY <4>1, <4>2
      <3> QED
        BY <3>2, <3>3 DEF RequestsAccounted
    <2>1. CASE Drain \/ TakeTx
      BY <2>1, ReceiveAccounts DEF Drain, TakeTx
    <2>2. CASE Throttled
      <3> DEFINE i == TxBest(txQueue, clock)
                 rest == SwapRemove(txQueue, i)
                 r == txQueue[i].request
      <3>1. /\ txQueue[i] \in TxEntries /\ r \in Queued /\ rest \in Seq(TxEntries)
            /\ FieldOf(rest, "request") \in Seq(Requests)
            /\ Injective(FieldOf(rest, "request"))
            /\ Occupants(FieldOf(rest, "request")) = Queued \ {r}
        BY <2>2, PopAccounts DEF Throttled
      <3>2. /\ txQueue' = Append(rest, txQueue[i])
            /\ UNCHANGED <<txIn, current, submittedAt, outcome>>
        BY <2>2 DEF Throttled
      <3> HIDE DEF i, rest
      <3>3. QueuedRequests' = Append(FieldOf(rest, "request"), r)
        BY <3>1, <3>2, TxQueueField
      <3>4. r \in Requests /\ r \notin Occupants(FieldOf(rest, "request"))
        BY <2>0, <3>1
      <3>5. /\ Occupants(QueuedRequests') = (Queued \ {r}) \cup {r}
            /\ Injective(QueuedRequests')
        BY <3>1, <3>3, <3>4, AppendAdds
      <3>6. Occupants(QueuedRequests') = Queued
        BY <3>1, <3>5
      <3> QED
        BY <2>0, <3>2, <3>5, <3>6 DEF RequestsAccounted, Unresolved
    <2>3. CASE Commit
      <3> DEFINE i == TxBest(txQueue, clock)
                 rest == SwapRemove(txQueue, i)
                 r == txQueue[i].request
      <3>1. /\ r \in Queued
            /\ Injective(FieldOf(rest, "request"))
            /\ Occupants(FieldOf(rest, "request")) = Queued \ {r}
        BY <2>3, PopAccounts DEF Commit
      <3>2. /\ txQueue' = rest /\ current' = r /\ current = NoRequest
            /\ UNCHANGED <<txIn, submittedAt, outcome>>
        BY <2>3 DEF Commit, InFlightOK
      <3> HIDE DEF i, rest, r
      <3>3. QueuedRequests' = FieldOf(rest, "request")
        BY <3>2, TxQueueField
      <3>4. In' = In /\ Queued' = Queued \ {r} /\ Unresolved' = Unresolved
        BY <3>1, <3>2, <3>3 DEF Unresolved
      <3> HIDE DEF In, Queued
      <3>5. /\ In' \cap Queued' = {} /\ current' \notin In' \cup Queued'
            /\ In' \cup Queued' \cup ({current'} \ {NoRequest}) = Unresolved'
        BY <2>0, <3>1, <3>2, <3>4
      <3> QED
        BY <2>0, <3>1, <3>2, <3>3, <3>5 DEF RequestsAccounted, Unresolved, In, Queued
    <2>4. CASE SendOk \/ SendErr
      <3>1. /\ \E how \in {"sent", "lost"} : outcome' = [outcome EXCEPT ![current] = how]
            /\ current' = NoRequest /\ UNCHANGED <<txIn, txQueue, submittedAt>>
            /\ current # NoRequest
        BY <2>4 DEF SendOk, SendErr, InFlightOK
      <3>2. QueuedRequests' = QueuedRequests
        BY <3>1 DEF QueuedRequests
      <3>3. Unresolved' = Unresolved \ {current}
        BY <2>0, <3>1 DEF Unresolved
      <3>4. In' = In /\ Queued' = Queued
        BY <3>1, <3>2 DEF Occupants
      <3> HIDE DEF In, Queued
      <3>5. /\ In' \cap Queued' = {} /\ current' \notin In' \cup Queued'
            /\ In' \cup Queued' \cup ({current'} \ {NoRequest}) = Unresolved'
        BY <2>0, <3>1, <3>3, <3>4
      <3> QED
        BY <2>0, <3>1, <3>2, <3>5 DEF RequestsAccounted, Unresolved, In, Queued
    <2>5. ASSUME NEW r \in Requests, Submit(r)
          PROVE  RequestsAccounted'
      <3>1. /\ submittedAt[r] = NoTime /\ txIn' = Append(txIn, r)
            /\ submittedAt' = [submittedAt EXCEPT ![r] = clock]
            /\ UNCHANGED <<txQueue, current, outcome>>
        BY <2>5 DEF Submit
      <3>2. QueuedRequests' = QueuedRequests
        BY <3>1 DEF QueuedRequests
      <3>3. r \notin Unresolved
        BY <3>1 DEF Unresolved
      <3>4. In' = In \cup {r} /\ Injective(txIn')
        BY <2>0, <3>1, <3>3, RequestsType, AppendAdds
      <3>5. Unresolved' = Unresolved \cup {r}
        <4>1. outcome[r] = "none"
          BY <3>1 DEF SubmittedFirst
        <4>2. \A q \in Requests : submittedAt'[q] # NoTime <=> submittedAt[q] # NoTime \/ q = r
          BY <3>1 DEF TypeOK, NoTime
        <4> QED
          BY <3>1, <4>1, <4>2 DEF Unresolved
      <3>6. Queued' = Queued /\ r # current /\ r \notin Queued
        BY <2>0, <3>2, <3>3 DEF Occupants
      <3> HIDE DEF In, Queued
      <3>7. /\ In' \cap Queued' = {} /\ current' \notin In' \cup Queued'
            /\ In' \cup Queued' \cup ({current'} \ {NoRequest}) = Unresolved'
        BY <2>0, <3>1, <3>4, <3>5, <3>6
      <3> QED
        BY <2>0, <3>2, <3>4, <3>7 DEF RequestsAccounted, Unresolved, In, Queued
    <2>6. CASE DrainDone \/ Deliver \/ DeliverDone \/ NothingReady \/ StartSend
               \/ ChannelBusyRetry \/ RetryElapsed \/ RecvNothing \/ TimerFired \/ TakeRx
               \/ Tick
      BY <2>6, <2>a DEF DrainDone, Deliver, DeliverDone, NothingReady, StartSend,
         ChannelBusyRetry, RetryElapsed, RecvNothing, TimerFired, TakeRx, Tick
    <2>7. ASSUME NEW p \in Packets, Recv(p)
          PROVE  RequestsAccounted'
      BY <2>7, <2>a DEF Recv
    <2>8. CASE UNCHANGED vars
      BY <2>8, <2>a DEF vars
    <2> QED
      BY <2>1, <2>2, <2>3, <2>4, <2>5, <2>6, <2>7, <2>8
         DEF Next, Run, Hear, ChannelClear, ChannelBusyTimeout
  <1>3. Init => SubmittedFirst
    BY DEF Init, SubmittedFirst
  <1>4. TypeOK /\ InFlightOK /\ RequestsAccounted /\ SubmittedFirst /\ [Next]_vars
          => SubmittedFirst'
    <2> SUFFICES ASSUME TypeOK, InFlightOK, RequestsAccounted, SubmittedFirst, [Next]_vars
                 PROVE  SubmittedFirst'
      OBVIOUS
    <2>0. /\ submittedAt \in [Requests -> 0..clock \cup {NoTime}] /\ clock \in Nat
          /\ outcome \in [Requests -> Outcomes]
      BY DEF TypeOK
    <2>a. UNCHANGED <<submittedAt, outcome>> => SubmittedFirst'
      BY DEF SubmittedFirst
    <2>b. ASSUME NEW r \in Unresolved, NEW how, UNCHANGED submittedAt,
                 outcome' = [outcome EXCEPT ![r] = how]
          PROVE  SubmittedFirst'
      BY <2>0, <2>b DEF SubmittedFirst, Unresolved
    <2>1. CASE Drain \/ TakeTx
      <3>1. Head(txIn) \in Unresolved
        <4>1. Receive
          BY <2>1 DEF Drain, TakeTx
        <4>2. Head(txIn) \in Occupants(txIn)
          BY <4>1, RequestsType, TailRemovesHead DEF Receive, RequestsAccounted
        <4> QED
          BY <4>2 DEF RequestsAccounted, Unresolved
      <3> QED
        BY <2>1, <2>a, <2>b, <3>1 DEF Drain, TakeTx, Receive, Push
    <2>2. CASE SendOk \/ SendErr
      <3>1. current \in Unresolved
        BY <2>2 DEF SendOk, SendErr, InFlightOK, RequestsAccounted, Unresolved
      <3> QED
        BY <2>2, <2>b, <3>1 DEF SendOk, SendErr
    <2>3. ASSUME NEW r \in Requests, Submit(r)
          PROVE  SubmittedFirst'
      BY <2>3, <2>0 DEF Submit, SubmittedFirst, NoTime
    <2>4. CASE Throttled \/ Commit
      BY <2>4, <2>a DEF Throttled, Commit
    <2>5. CASE DrainDone \/ Deliver \/ DeliverDone \/ NothingReady \/ StartSend
               \/ ChannelBusyRetry \/ RetryElapsed \/ RecvNothing \/ TimerFired \/ TakeRx
               \/ Tick
      BY <2>5, <2>a DEF DrainDone, Deliver, DeliverDone, NothingReady, StartSend,
         ChannelBusyRetry, RetryElapsed, RecvNothing, TimerFired, TakeRx, Tick, txVars
    <2>6. ASSUME NEW p \in Packets, Recv(p)
          PROVE  SubmittedFirst'
      BY <2>6, <2>a DEF Recv, txVars
    <2>7. CASE UNCHANGED vars
      BY <2>7, <2>a DEF vars, txVars
    <2> QED
      BY <2>1, <2>2, <2>3, <2>4, <2>5, <2>6, <2>7
         DEF Next, Run, Hear, ChannelClear, ChannelBusyTimeout
  <1> QED
    BY <1>1, <1>2, <1>3, <1>4, TypeCorrect, InFlight, PTL DEF Spec

-----------------------------------------------------------------------------
\* The frames that PacketsAccounted says are in the delay queue; that no fate comes before
\* the frame was heard makes it inductive.
Undecided == {p \in Packets : heardAt[p] # NoTime /\ fate[p] = "none"}
HeardFirst == \A p \in Packets : heardAt[p] = NoTime => fate[p] = "none"

\* The frames of the delay queue and of the channel are frames.
LEMMA PacketsType ==
    ASSUME TypeOK
    PROVE  /\ rxOut \in Seq(Packets) /\ DelayedPackets \in Seq(Packets)
           /\ rxDelayQueue \in Seq(RxEntries) /\ Len(DelayedPackets) = Len(rxDelayQueue)
           /\ \A i \in 1..Len(rxDelayQueue) : DelayedPackets[i] = rxDelayQueue[i].packet
           /\ heardAt \in [Packets -> 0..clock \cup {NoTime}] /\ fate \in [Packets -> Fates]
           /\ clock \in Nat
  <1>1. rxOut \in Seq(Packets) /\ rxDelayQueue \in Seq(RxEntries)
    BY DEF TypeOK, RxEntries
  <1>2. DelayedPackets \in Seq(Packets) /\ Len(DelayedPackets) = Len(rxDelayQueue)
    BY <1>1, RxQueueField
  <1> QED
    BY <1>1, <1>2 DEF DelayedPackets, TypeOK

\* The entry that the delivery takes out of the delay queue is due.
LEMMA RxBestType ==
    ASSUME TypeOK, RxReady(rxDelayQueue, clock) # {}, NEW i, i = RxBest(rxDelayQueue, clock)
    PROVE  /\ i \in 1..Len(rxDelayQueue) /\ rxDelayQueue[i] \in RxEntries
           /\ rxDelayQueue[i].deliver_at <= clock
           /\ SwapRemove(rxDelayQueue, i) \in Seq(RxEntries)
           /\ Len(SwapRemove(rxDelayQueue, i)) = Len(rxDelayQueue) - 1
           /\ \A k \in 1..(Len(rxDelayQueue) - 1) : SwapRemove(rxDelayQueue, i)[k]
                 = rxDelayQueue[IF k = i THEN Len(rxDelayQueue) ELSE k]
  <1>1. i \in RxReady(rxDelayQueue, clock)
    BY PacketsType, RxBestIsEarliest DEF RxEntries
  <1>2. i \in 1..Len(rxDelayQueue) /\ rxDelayQueue[i].deliver_at <= clock
    BY <1>1 DEF RxReady
  <1>3. rxDelayQueue[i] \in RxEntries
    BY <1>2, PacketsType, ElementOfSeq
  <1>4. /\ SwapRemove(rxDelayQueue, i) \in Seq(RxEntries)
        /\ Len(SwapRemove(rxDelayQueue, i)) = Len(rxDelayQueue) - 1
        /\ \A k \in 1..(Len(rxDelayQueue) - 1) : SwapRemove(rxDelayQueue, i)[k]
              = IF k = i THEN rxDelayQueue[Len(rxDelayQueue)] ELSE rxDelayQueue[k]
    <2>1. i \in 1..Len(rxDelayQueue)
      BY <1>2
    <2> QED
      BY <2>1, PacketsType, SwapRemoveType
  <1> QED
    BY <1>2, <1>3, <1>4

\* try_send() decides the fate of a frame, and the channel holds what was delivered.
LEMMA TrySendAccounts ==
    ASSUME TypeOK, PacketsAccounted, NEW p \in Packets, fate[p] = "none", TrySend(p)
    PROVE  /\ Injective(rxOut') /\ \A x \in Occupants(rxOut') : fate'[x] = "delivered"
           /\ \E how \in {"delivered", "dropped"} : fate' = [fate EXCEPT ![p] = how]
  <1>1. /\ rxOut \in Seq(Packets) /\ Injective(rxOut) /\ fate \in [Packets -> Fates]
        /\ \A x \in Occupants(rxOut) : fate[x] = "delivered"
        /\ Occupants(rxOut) \subseteq Packets
    BY PacketsType, ElementOfSeq DEF PacketsAccounted, Occupants
  <1>2. p \notin Occupants(rxOut)
    BY <1>1
  <1>3. CASE fate' = [fate EXCEPT ![p] = "dropped"] /\ UNCHANGED rxOut
    BY <1>1, <1>2, <1>3 DEF Occupants, Injective
  <1>4. CASE fate' = [fate EXCEPT ![p] = "delivered"] /\ rxOut' = Append(rxOut, p)
    <2>1. Occupants(rxOut') = Occupants(rxOut) \cup {p} /\ Injective(rxOut')
      BY <1>1, <1>2, <1>4, AppendAdds
    <2> QED
      BY <1>1, <1>4, <2>1
  <1> QED
    BY <1>3, <1>4 DEF TrySend

\* The code behaviour: the delivery loop of run() and handle_rx() hold a frame exactly
\* once, in the delay queue, until it is delivered once or dropped.
THEOREM NoFrameTwice == Spec => []PacketsAccounted
  <1>1. Init => PacketsAccounted /\ HeardFirst
    <2> SUFFICES ASSUME Init PROVE PacketsAccounted /\ HeardFirst
      OBVIOUS
    <2>1. rxOut = <<>> /\ rxDelayQueue = <<>> /\ Len(rxOut) = 0 /\ Len(rxDelayQueue) = 0
          /\ rxDelayQueue \in Seq(RxEntries)
      BY EmptySeq DEF Init
    <2>2. Len(DelayedPackets) = 0
      BY <2>1, RxQueueField
    <2> QED
      BY <2>1, <2>2 DEF Init, PacketsAccounted, HeardFirst, Injective, Occupants
  <1>2. TypeOK /\ PacketsAccounted /\ HeardFirst /\ [Next]_vars
          => PacketsAccounted' /\ HeardFirst'
    <2> SUFFICES ASSUME TypeOK, PacketsAccounted, HeardFirst, [Next]_vars
                 PROVE  PacketsAccounted' /\ HeardFirst'
      OBVIOUS
    <2> DEFINE Delayed == Occupants(DelayedPackets)
    <2>0. /\ Injective(DelayedPackets) /\ Injective(rxOut) /\ Delayed = Undecided
          /\ \A x \in Occupants(rxOut) : fate[x] = "delivered"
      BY DEF PacketsAccounted, Undecided
    <2>a. UNCHANGED rxVars => PacketsAccounted' /\ HeardFirst'
      <3> SUFFICES ASSUME UNCHANGED rxVars PROVE PacketsAccounted' /\ HeardFirst'
        OBVIOUS
      <3>1. DelayedPackets' = DelayedPackets
        BY DEF DelayedPackets, rxVars
      <3> QED
        BY <3>1 DEF PacketsAccounted, HeardFirst, rxVars, Occupants, Injective
    <2>1. CASE Deliver
      <3> DEFINE i == RxBest(rxDelayQueue, clock)
                 p == rxDelayQueue[i].packet
      <3>1. /\ i \in 1..Len(rxDelayQueue) /\ p \in Packets
            /\ rxDelayQueue' = SwapRemove(rxDelayQueue, i)
            /\ TrySend(p) /\ UNCHANGED heardAt
        BY <2>1, RxBestType DEF Deliver, RxEntries
      <3> HIDE DEF i
      <3>2. DelayedPackets' = SwapRemove(DelayedPackets, i)
        BY <3>1, PacketsType, RxQueueField
      <3>3. i \in 1..Len(DelayedPackets) /\ DelayedPackets[i] = p
        BY <3>1, PacketsType
      <3>4. Delayed' = Delayed \ {p} /\ Injective(DelayedPackets') /\ p \in Delayed
        <4>1. /\ Occupants(SwapRemove(DelayedPackets, i)) = Delayed \ {p}
              /\ Injective(SwapRemove(DelayedPackets, i))
          BY <2>0, <3>3, PacketsType, SwapRemoveRemoves
        <4> QED
          BY <3>2, <3>3, <4>1 DEF Occupants
      <3> HIDE DEF p
      <3>5. fate[p] = "none" /\ heardAt[p] # NoTime
        BY <2>0, <3>4 DEF Undecided
      <3>6. /\ Injective(rxOut') /\ \A x \in Occupants(rxOut') : fate'[x] = "delivered"
            /\ \E how \in {"delivered", "dropped"} : fate' = [fate EXCEPT ![p] = how]
        BY <3>1, <3>5, TrySendAccounts
      <3>7. Undecided' = Undecided \ {p} /\ HeardFirst'
        BY <3>1, <3>5, <3>6, PacketsType DEF Undecided, HeardFirst
      <3> QED
        BY <2>0, <3>4, <3>6, <3>7 DEF PacketsAccounted, Undecided
    <2>2. ASSUME NEW p \in Packets, Recv(p)
          PROVE  PacketsAccounted' /\ HeardFirst'
      <3>1. /\ heardAt[p] = NoTime /\ heardAt' = [heardAt EXCEPT ![p] = clock]
            /\ fate[p] = "none"
        BY <2>2 DEF Recv, HeardFirst
      <3>2. \A q \in Packets : heardAt'[q] # NoTime <=> heardAt[q] # NoTime \/ q = p
        BY <3>1, PacketsType DEF NoTime
      <3>3. p \notin Delayed /\ p \notin Occupants(rxOut)
        BY <2>0, <3>1 DEF Undecided
      <3>4. CASE TrySend(p) /\ UNCHANGED rxDelayQueue
        <4>1. /\ Injective(rxOut') /\ \A x \in Occupants(rxOut') : fate'[x] = "delivered"
              /\ \E how \in {"delivered", "dropped"} : fate' = [fate EXCEPT ![p] = how]
          BY <3>1, <3>4, TrySendAccounts
        <4>2. Undecided' = Undecided /\ HeardFirst'
          BY <3>1, <3>2, <4>1, PacketsType DEF Undecided, HeardFirst
        <4>3. DelayedPackets' = DelayedPackets
          BY <3>4 DEF DelayedPackets
        <4> QED
          BY <2>0, <4>1, <4>2, <4>3 DEF PacketsAccounted, Undecided
      <3>5. ASSUME NEW delay \in Nat,
                   rxDelayQueue' = Append(rxDelayQueue, RxEntry(p, clock + delay)),
                   UNCHANGED <<rxOut, fate>>
            PROVE  PacketsAccounted' /\ HeardFirst'
        <4>1. RxEntry(p, clock + delay) \in RxEntries /\ RxEntry(p, clock + delay).packet = p
          BY PacketsType DEF RxEntry, RxEntries
        <4>2. DelayedPackets' = Append(DelayedPackets, p)
          BY <3>5, <4>1, PacketsType, RxQueueField
        <4>3. Delayed' = Delayed \cup {p} /\ Injective(DelayedPackets')
          BY <2>0, <3>3, <4>2, PacketsType, AppendAdds
        <4>4. Undecided' = Undecided \cup {p} /\ HeardFirst'
          BY <3>1, <3>2, <3>5, PacketsType DEF Undecided, HeardFirst
        <4>5. Injective(rxOut') /\ \A x \in Occupants(rxOut') : fate'[x] = "delivered"
          BY <2>0, <3>5 DEF Occupants
        <4> QED
          BY <2>0, <4>3, <4>4, <4>5 DEF PacketsAccounted, Undecided
      <3>6. CASE fate' = [fate EXCEPT ![p] = "dropped"] /\ UNCHANGED <<rxOut, rxDelayQueue>>
        <4>1. Undecided' = Undecided /\ HeardFirst'
          BY <3>1, <3>2, <3>6, PacketsType DEF Undecided, HeardFirst
        <4>2. \A x \in Occupants(rxOut') : fate'[x] = "delivered"
          <5>1. Occupants(rxOut') = Occupants(rxOut) /\ Occupants(rxOut) \subseteq Packets
            BY <3>6, PacketsType, ElementOfSeq DEF Occupants
          <5> QED
            BY <2>0, <3>3, <3>6, <5>1, PacketsType
        <4>3. DelayedPackets' = DelayedPackets /\ Injective(rxOut')
          BY <2>0, <3>6 DEF DelayedPackets
        <4> QED
          BY <2>0, <4>1, <4>2, <4>3 DEF PacketsAccounted, Undecided
      <3> QED
        <4> DEFINE delay == IF HeardAsFlood[p] THEN CalcRxDelay(RawDelayMs[p]) ELSE NoDelay
        <4>1. delay \in Nat \cup {NoDelay}
          BY DispatcherAssumption, RxDelayAssumption DEF CalcRxDelay, NoDelay
        <4>2. \/ delay = NoDelay /\ TrySend(p) /\ UNCHANGED rxDelayQueue
              \/ /\ delay # NoDelay
                 /\ rxDelayQueue' = Append(rxDelayQueue, RxEntry(p, clock + delay))
                 /\ UNCHANGED <<rxOut, fate>>
              \/ fate' = [fate EXCEPT ![p] = "dropped"] /\ UNCHANGED <<rxOut, rxDelayQueue>>
          BY <2>2 DEF Recv
        <4> HIDE DEF delay
        <4> QED
          BY <3>4, <3>5, <3>6, <4>1, <4>2
    <2>3. CASE TakeRx
      <3>1. rxOut # <<>> /\ rxOut' = Tail(rxOut) /\ UNCHANGED <<rxDelayQueue, heardAt, fate>>
        BY <2>3 DEF TakeRx
      <3>2. Injective(rxOut') /\ Occupants(rxOut') \subseteq Occupants(rxOut)
        BY <2>0, <3>1, PacketsType, TailRemovesHead
      <3>3. DelayedPackets' = DelayedPackets /\ Undecided' = Undecided /\ HeardFirst'
        BY <3>1 DEF DelayedPackets, Undecided, HeardFirst
      <3> QED
        BY <2>0, <3>1, <3>2, <3>3 DEF PacketsAccounted, Undecided
    <2>4. CASE Drain \/ DrainDone \/ DeliverDone \/ NothingReady \/ Throttled \/ Commit
               \/ StartSend \/ ChannelBusyRetry \/ RetryElapsed \/ SendOk \/ SendErr \/ TakeTx
               \/ TimerFired \/ RecvNothing \/ Tick
      BY <2>4, <2>a DEF Drain, DrainDone, DeliverDone, NothingReady, Throttled, Commit,
         StartSend, ChannelBusyRetry, RetryElapsed, SendOk, SendErr, TakeTx, TimerFired,
         RecvNothing, Tick
    <2>5. ASSUME NEW r \in Requests, Submit(r)
          PROVE  PacketsAccounted' /\ HeardFirst'
      BY <2>5, <2>a DEF Submit
    <2>6. CASE UNCHANGED vars
      BY <2>6, <2>a DEF vars
    <2> QED
      BY <2>1, <2>2, <2>3, <2>4, <2>5, <2>6
         DEF Next, Run, Hear, ChannelClear, ChannelBusyTimeout
  <1> QED
    BY <1>1, <1>2, TypeCorrect, PTL DEF Spec

-----------------------------------------------------------------------------
\* Why nothing is delivered early: an entry of the delay queue is not due before its delay
\* has passed since its frame was heard.
HeldOK ==
    \A i \in 1..Len(rxDelayQueue) :
        LET p == rxDelayQueue[i].packet
        IN  /\ heardAt[p] # NoTime
            /\ rxDelayQueue[i].deliver_at >= heardAt[p] + CalcRxDelay(RawDelayMs[p])

\* The code behaviour: a flood frame that calc_rx_delay holds back stays in the delay queue
\* for its delay, in whatever order frames come and entries are moved.
THEOREM DelayIsKept == Spec => HeldBackLongEnough
  <1> DEFINE Kept == \A p \in Packets :
                        fate[p] = "none" /\ fate'[p] = "delivered" /\ HeardAsFlood[p] =>
                            clock >= heardAt'[p] + CalcRxDelay(RawDelayMs[p])
  <1>0. \A p \in Packets : CalcRxDelay(RawDelayMs[p]) \in Nat \cup {NoDelay}
    BY DispatcherAssumption, RxDelayAssumption DEF CalcRxDelay
  <1>1. Init => HeldOK
    BY DEF Init, HeldOK
  <1>2. TypeOK /\ HeldOK /\ [Next]_vars => HeldOK' /\ [Kept]_vars
    <2> SUFFICES ASSUME TypeOK, HeldOK, [Next]_vars PROVE HeldOK' /\ Kept
      OBVIOUS
    <2>0. \A i \in 1..Len(rxDelayQueue) :
              rxDelayQueue[i] \in RxEntries /\ rxDelayQueue[i].packet \in Packets
      BY PacketsType, ElementOfSeq DEF RxEntries
    <2>a. UNCHANGED <<rxDelayQueue, heardAt, fate>> => HeldOK' /\ Kept
      BY DEF HeldOK
    <2>1. CASE Deliver
      <3> DEFINE i == RxBest(rxDelayQueue, clock)
                 p == rxDelayQueue[i].packet
      <3>1. /\ i \in 1..Len(rxDelayQueue) /\ rxDelayQueue[i] \in RxEntries
            /\ rxDelayQueue[i].deliver_at <= clock
            /\ SwapRemove(rxDelayQueue, i) \in Seq(RxEntries)
            /\ Len(SwapRemove(rxDelayQueue, i)) = Len(rxDelayQueue) - 1
            /\ \A k \in 1..(Len(rxDelayQueue) - 1) : SwapRemove(rxDelayQueue, i)[k]
                  = rxDelayQueue[IF k = i THEN Len(rxDelayQueue) ELSE k]
        BY <2>1, RxBestType DEF Deliver
      <3>2. /\ rxDelayQueue' = SwapRemove(rxDelayQueue, i)
            /\ TrySend(p) /\ UNCHANGED <<clock, heardAt>>
        BY <2>1 DEF Deliver
      <3> HIDE DEF i
      <3>3. HeldOK'
        <4> SUFFICES ASSUME NEW k \in 1..(Len(rxDelayQueue) - 1)
                     PROVE  LET q == rxDelayQueue'[k].packet
                            IN  /\ heardAt[q] # NoTime
                                /\ rxDelayQueue'[k].deliver_at
                                     >= heardAt[q] + CalcRxDelay(RawDelayMs[q])
          BY <3>1, <3>2 DEF HeldOK
        <4> DEFINE j == IF k = i THEN Len(rxDelayQueue) ELSE k
        <4>1. j \in 1..Len(rxDelayQueue) /\ rxDelayQueue'[k] = rxDelayQueue[j]
          BY <3>1, <3>2, PacketsType, LenProperties
        <4> QED
          BY <4>1 DEF HeldOK
      <3>4. Kept
        <4>1. fate' = [fate EXCEPT ![p] = "delivered"] \/ fate' = [fate EXCEPT ![p] = "dropped"]
          BY <3>2 DEF TrySend
        <4>2. clock >= heardAt[p] + CalcRxDelay(RawDelayMs[p])
          <5>1. rxDelayQueue[i].deliver_at >= heardAt[p] + CalcRxDelay(RawDelayMs[p])
                /\ heardAt[p] # NoTime
            BY <3>1 DEF HeldOK
          <5>2. /\ rxDelayQueue[i].deliver_at \in Nat /\ clock \in Nat /\ heardAt[p] \in Nat
                /\ CalcRxDelay(RawDelayMs[p]) \in Int
            <6>1. p \in Packets /\ rxDelayQueue[i].deliver_at \in Nat
              BY <3>1 DEF RxEntries
            <6>2. heardAt[p] \in 0..clock \cup {NoTime} /\ clock \in Nat
              BY <6>1, PacketsType
            <6> QED
              BY <1>0, <5>1, <6>1, <6>2 DEF NoDelay
          <5> QED
            BY <3>1, <5>1, <5>2
        <4>3. \A q \in Packets : q # p => fate'[q] = fate[q]
          BY <4>1, PacketsType
        <4> HIDE DEF p
        <4> QED
          BY <3>2, <4>2, <4>3
      <3> QED
        BY <3>3, <3>4
    <2>2. ASSUME NEW p \in Packets, Recv(p)
          PROVE  HeldOK' /\ Kept
      <3>1. /\ heardAt[p] = NoTime /\ heardAt' = [heardAt EXCEPT ![p] = clock]
            /\ UNCHANGED clock
        BY <2>2 DEF Recv
      <3>2. /\ \A q \in Packets : heardAt[q] # NoTime => heardAt'[q] = heardAt[q]
            /\ heardAt'[p] = clock /\ clock # NoTime /\ clock \in Nat
        BY <3>1, PacketsType DEF NoTime
      <3>3. rxDelayQueue' = rxDelayQueue => HeldOK'
        BY <2>0, <3>2 DEF HeldOK
      <3>4. UNCHANGED fate => Kept
        OBVIOUS
      <3>5. CASE TrySend(p) /\ UNCHANGED rxDelayQueue
                 /\ (HeardAsFlood[p] => CalcRxDelay(RawDelayMs[p]) = NoDelay)
        <4>1. \A q \in Packets : q # p => fate'[q] = fate[q]
          BY <3>5, PacketsType DEF TrySend
        <4>2. HeardAsFlood[p] => clock >= heardAt'[p] + CalcRxDelay(RawDelayMs[p])
          BY <3>2, <3>5 DEF NoDelay
        <4> QED
          BY <3>3, <3>5, <4>1, <4>2
      <3>6. ASSUME HeardAsFlood[p], CalcRxDelay(RawDelayMs[p]) # NoDelay,
                   rxDelayQueue' = Append(rxDelayQueue,
                                     RxEntry(p, clock + CalcRxDelay(RawDelayMs[p]))),
                   UNCHANGED fate
            PROVE  HeldOK' /\ Kept
        <4> DEFINE e == RxEntry(p, clock + CalcRxDelay(RawDelayMs[p]))
        <4>1. /\ e \in RxEntries /\ e.packet = p
              /\ e.deliver_at >= heardAt'[p] + CalcRxDelay(RawDelayMs[p])
          BY <1>0, <3>2, <3>6 DEF RxEntry, RxEntries
        <4> HIDE DEF e
        <4>2. /\ Len(rxDelayQueue') = Len(rxDelayQueue) + 1 /\ Len(rxDelayQueue) \in Nat
              /\ \A i \in 1..Len(rxDelayQueue) : rxDelayQueue'[i] = rxDelayQueue[i]
              /\ rxDelayQueue'[Len(rxDelayQueue) + 1] = e
          BY <3>6, <4>1, PacketsType, AppendProperties, LenProperties DEF e
        <4>3. HeldOK'
          BY <2>0, <3>2, <4>1, <4>2 DEF HeldOK
        <4> QED
          BY <3>4, <3>6, <4>3
      <3>7. CASE fate' = [fate EXCEPT ![p] = "dropped"] /\ UNCHANGED rxDelayQueue
        BY <3>3, <3>7, PacketsType
      <3> QED
        <4>1. \/ /\ TrySend(p) /\ UNCHANGED rxDelayQueue
                 /\ HeardAsFlood[p] => CalcRxDelay(RawDelayMs[p]) = NoDelay
              \/ /\ HeardAsFlood[p] /\ CalcRxDelay(RawDelayMs[p]) # NoDelay
                 /\ rxDelayQueue' = Append(rxDelayQueue,
                                      RxEntry(p, clock + CalcRxDelay(RawDelayMs[p])))
                 /\ UNCHANGED fate
              \/ fate' = [fate EXCEPT ![p] = "dropped"] /\ UNCHANGED rxDelayQueue
          BY <2>2 DEF Recv
        <4> QED
          BY <3>5, <3>6, <3>7, <4>1
    <2>3. CASE Drain \/ DrainDone \/ DeliverDone \/ NothingReady \/ Throttled \/ Commit
               \/ StartSend \/ ChannelBusyRetry \/ RetryElapsed \/ SendOk \/ SendErr \/ TakeTx
               \/ TimerFired \/ RecvNothing \/ TakeRx \/ Tick
      BY <2>3, <2>a DEF Drain, DrainDone, DeliverDone, NothingReady, Throttled, Commit,
         StartSend, ChannelBusyRetry, RetryElapsed, SendOk, SendErr, TakeTx, TimerFired,
         RecvNothing, TakeRx, Tick, rxVars
    <2>4. ASSUME NEW r \in Requests, Submit(r)
          PROVE  HeldOK' /\ Kept
      BY <2>4, <2>a DEF Submit, rxVars
    <2>5. CASE UNCHANGED vars
      BY <2>5, <2>a DEF vars, rxVars
    <2> QED
      BY <2>1, <2>2, <2>3, <2>4, <2>5
         DEF Next, Run, Hear, ChannelClear, ChannelBusyTimeout
  <1> QED
    BY <1>1, <1>2, TypeCorrect, PTL DEF Spec, HeldBackLongEnough

-----------------------------------------------------------------------------
\* The sets that the counters count: finite, since they grow by one element at a time.
SentFlood == {r \in Requests : outcome[r] = "sent" /\ SentAsFlood[r]}
SentDirect == {r \in Requests : outcome[r] = "sent" /\ ~SentAsFlood[r]}
Heard == {p \in Packets : heardAt[p] # NoTime}

StatsOK ==
    /\ IsFiniteSet(SentFlood) /\ stats.sent_flood = Cardinality(SentFlood)
    /\ IsFiniteSet(SentDirect) /\ stats.sent_direct = Cardinality(SentDirect)
    /\ IsFiniteSet(Heard) /\ stats.recv_flood + stats.recv_direct = Cardinality(Heard)

\* The code behaviour: maybe_transmit counts a packet after send() succeeded and handle_rx
\* a frame when it was heard, each once and under its own kind.
THEOREM CountersTrue == Spec => []StatsAreTrue
  <1>1. Init => StatsOK
    <2> SUFFICES ASSUME Init PROVE StatsOK
      OBVIOUS
    <2>1. SentFlood = {} /\ SentDirect = {} /\ Heard = {}
      BY DEF Init, SentFlood, SentDirect, Heard
    <2> QED
      BY <2>1, FS_EmptySet DEF Init, StatsOK
  <1>2. TypeOK /\ InFlightOK /\ RequestsAccounted /\ StatsOK /\ [Next]_vars => StatsOK'
    <2> SUFFICES ASSUME TypeOK, InFlightOK, RequestsAccounted, StatsOK, [Next]_vars
                 PROVE  StatsOK'
      OBVIOUS
    <2>0. /\ outcome \in [Requests -> Outcomes]
          /\ stats \in [total_air_time_ms : Nat, sent_flood : Nat, sent_direct : Nat,
                        recv_flood : Nat, recv_direct : Nat]
          /\ heardAt \in [Packets -> 0..clock \cup {NoTime}] /\ clock \in Nat
      BY DEF TypeOK
    <2>a. UNCHANGED <<stats, outcome, heardAt>> => StatsOK'
      BY DEF StatsOK, SentFlood, SentDirect, Heard
    <2>b. ASSUME NEW r \in Requests, outcome[r] = "none", NEW how \in {"lost", "dropped"},
                 outcome' = [outcome EXCEPT ![r] = how], UNCHANGED <<stats, heardAt>>
          PROVE  StatsOK'
      <3>1. SentFlood' = SentFlood /\ SentDirect' = SentDirect /\ Heard' = Heard
        BY <2>0, <2>b DEF SentFlood, SentDirect, Heard
      <3> QED
        BY <2>b, <3>1 DEF StatsOK
    <2>c. current # NoRequest => current \in Requests /\ outcome[current] = "none"
      BY DEF RequestsAccounted
    <2>1. CASE Drain \/ TakeTx
      <3>1. Receive /\ UNCHANGED <<stats, heardAt>>
        BY <2>1 DEF Drain, TakeTx, rxVars
      <3>2. Head(txIn) \in Requests /\ outcome[Head(txIn)] = "none"
        <4>1. Head(txIn) \in Occupants(txIn)
          BY <3>1, RequestsType, TailRemovesHead DEF Receive, RequestsAccounted
        <4> QED
          BY <4>1 DEF RequestsAccounted
      <3> QED
        BY <2>a, <2>b, <3>1, <3>2 DEF Receive, Push
    <2>2. CASE SendOk
      <3>1. /\ current \in Requests /\ outcome[current] = "none" /\ UNCHANGED heardAt
            /\ outcome' = [outcome EXCEPT ![current] = "sent"]
            /\ stats' = [stats EXCEPT
                   !.total_air_time_ms = @ + (clock - since),
                   !.sent_flood = IF SentAsFlood[current] THEN @ + 1 ELSE @,
                   !.sent_direct = IF SentAsFlood[current] THEN @ ELSE @ + 1]
        BY <2>2, <2>c DEF SendOk, InFlightOK, rxVars
      <3>2. /\ stats'.recv_flood = stats.recv_flood /\ stats'.recv_direct = stats.recv_direct
            /\ Heard' = Heard
        BY <2>0, <3>1 DEF Heard
      <3>3. \A r \in Requests : outcome'[r] = "sent" <=> outcome[r] = "sent" \/ r = current
        BY <2>0, <3>1
      <3>4. current \notin SentFlood /\ current \notin SentDirect
        BY <3>1 DEF SentFlood, SentDirect
      <3>5. CASE SentAsFlood[current]
        <4>1. SentFlood' = SentFlood \cup {current} /\ SentDirect' = SentDirect
          BY <3>1, <3>3, <3>5 DEF SentFlood, SentDirect
        <4>2. stats'.sent_flood = stats.sent_flood + 1 /\ stats'.sent_direct = stats.sent_direct
          BY <2>0, <3>1, <3>5
        <4> QED
          BY <3>2, <3>4, <4>1, <4>2, FS_AddElement DEF StatsOK
      <3>6. CASE ~SentAsFlood[current]
        <4>1. SentDirect' = SentDirect \cup {current} /\ SentFlood' = SentFlood
          BY <3>1, <3>3, <3>6 DEF SentFlood, SentDirect
        <4>2. stats'.sent_direct = stats.sent_direct + 1 /\ stats'.sent_flood = stats.sent_flood
          BY <2>0, <3>1, <3>6
        <4> QED
          BY <3>2, <3>4, <4>1, <4>2, FS_AddElement DEF StatsOK
      <3> QED
        BY <3>5, <3>6
    <2>3. CASE SendErr
      BY <2>3, <2>b, <2>c DEF SendErr, InFlightOK, rxVars
    <2>4. ASSUME NEW p \in Packets, Recv(p)
          PROVE  StatsOK'
      <3>1. /\ heardAt[p] = NoTime /\ heardAt' = [heardAt EXCEPT ![p] = clock]
            /\ stats' = IF HeardAsFlood[p] THEN [stats EXCEPT !.recv_flood = @ + 1]
                        ELSE [stats EXCEPT !.recv_direct = @ + 1]
            /\ UNCHANGED outcome
        BY <2>4 DEF Recv, txVars
      <3>2. Heard' = Heard \cup {p} /\ p \notin Heard
        BY <2>0, <3>1 DEF Heard, NoTime
      <3>3. /\ stats'.recv_flood + stats'.recv_direct
                 = (stats.recv_flood + stats.recv_direct) + 1
            /\ stats'.sent_flood = stats.sent_flood /\ stats'.sent_direct = stats.sent_direct
        BY <2>0, <3>1
      <3>4. SentFlood' = SentFlood /\ SentDirect' = SentDirect
        BY <3>1 DEF SentFlood, SentDirect
      <3>5. IsFiniteSet(Heard') /\ Cardinality(Heard') = Cardinality(Heard) + 1
        BY <3>2, FS_AddElement DEF StatsOK
      <3> QED
        BY <3>3, <3>4, <3>5 DEF StatsOK
    <2>5. CASE DrainDone \/ Deliver \/ DeliverDone \/ NothingReady \/ Throttled \/ Commit
               \/ StartSend \/ ChannelBusyRetry \/ RetryElapsed \/ TimerFired \/ RecvNothing
               \/ TakeRx \/ Tick
      BY <2>5, <2>a DEF DrainDone, Deliver, DeliverDone, NothingReady, Throttled, Commit,
         StartSend, ChannelBusyRetry, RetryElapsed, TimerFired, RecvNothing, TakeRx, Tick,
         txVars, rxVars
    <2>6. ASSUME NEW r \in Requests, Submit(r)
          PROVE  StatsOK'
      BY <2>6, <2>a DEF Submit, rxVars
    <2>7. CASE UNCHANGED vars
      BY <2>7, <2>a DEF vars, txVars, rxVars
    <2> QED
      BY <2>1, <2>2, <2>3, <2>4, <2>5, <2>6, <2>7
         DEF Next, Run, Hear, ChannelClear, ChannelBusyTimeout
  <1>3. StatsOK => StatsAreTrue
    BY DEF StatsOK, StatsAreTrue, SentFlood, SentDirect, Heard
  <1> QED
    BY <1>1, <1>2, <1>3, TypeCorrect, InFlight, NoRequestIsLost, PTL DEF Spec

-----------------------------------------------------------------------------
\* The entries of a queue differ, since their requests or their frames do.
LEMMA EntriesDiffer ==
    ASSUME TypeOK, RequestsAccounted, PacketsAccounted
    PROVE  /\ Injective(txQueue) /\ Cardinality(Occupants(txQueue)) = Len(txQueue)
           /\ Injective(rxDelayQueue)
           /\ Cardinality(Occupants(rxDelayQueue)) = Len(rxDelayQueue)
  <1>1. Injective(txQueue)
    BY RequestsType DEF RequestsAccounted, Injective
  <1>2. Injective(rxDelayQueue)
    BY PacketsType DEF PacketsAccounted, Injective
  <1> QED
    BY <1>1, <1>2, RequestsType, PacketsType, OccupantsCounted

\* What an iteration has done when it comes to the transmission: the channel is drained and
\* nothing that is due is held, and no await lies between.
LoopOrder ==
    /\ pc \in {"deliver", "transmit"} => txIn = <<>>
    /\ pc = "transmit" => RxReady(rxDelayQueue, clock) = {}

LEMMA InOrder == Spec => []LoopOrder
  <1>1. Init => LoopOrder
    BY DEF Init, LoopOrder
  <1>2. TypeOK /\ LoopOrder /\ [Next]_vars => LoopOrder'
    <2> SUFFICES ASSUME TypeOK, LoopOrder, [Next]_vars PROVE LoopOrder'
      OBVIOUS
    <2>a. pc' \notin {"deliver", "transmit"} => LoopOrder'
      BY DEF LoopOrder
    <2>b. UNCHANGED <<pc, clock, txIn, rxDelayQueue>> => LoopOrder'
      BY DEF LoopOrder
    <2>1. CASE Drain \/ NothingReady \/ Throttled \/ Commit \/ StartSend \/ ChannelBusyRetry
               \/ RetryElapsed \/ SendOk \/ SendErr \/ TakeTx \/ TimerFired \/ RecvNothing
      BY <2>1, <2>a DEF Drain, NothingReady, Throttled, Commit, StartSend, ChannelBusyRetry,
         RetryElapsed, SendOk, SendErr, TakeTx, TimerFired, RecvNothing, Goto
    <2>2. CASE DrainDone
      BY <2>2 DEF DrainDone, Goto, LoopOrder, txVars
    <2>3. CASE Deliver
      BY <2>3 DEF Deliver, LoopOrder, txVars
    <2>4. CASE DeliverDone
      BY <2>4 DEF DeliverDone, Goto, LoopOrder, txVars, rxVars
    <2>5. ASSUME NEW p \in Packets, Recv(p) PROVE LoopOrder'
      BY <2>5, <2>a DEF Recv, Goto
    <2>6. ASSUME NEW r \in Requests, Submit(r) PROVE LoopOrder'
      BY <2>6, <2>a DEF Submit, Awaiting
    <2>7. CASE TakeRx
      BY <2>7, <2>b DEF TakeRx, txVars
    <2>8. CASE Tick
      <3>1. pc \in {"cad", "backoff", "send", "wait"}
        BY <2>8, Zenon DEF Tick, InTime
      <3> QED
        BY <2>8, <3>1, <2>a DEF Tick
    <2>9. CASE UNCHANGED vars
      BY <2>9, <2>b DEF vars, txVars, rxVars
    <2> QED
      BY <2>1, <2>2, <2>3, <2>4, <2>5, <2>6, <2>7, <2>8, <2>9
         DEF Next, Run, Hear, ChannelClear, ChannelBusyTimeout
  <1> QED
    BY <1>1, <1>2, TypeCorrect, PTL DEF Spec

\* What the operations of the transmit queue do to the set of its entries: push() adds one
\* or drops the request,
LEMMA ReceiveAdds ==
    ASSUME TypeOK, RequestsAccounted, PacketsAccounted, Receive
    PROVE  LET r == Head(txIn)
               e == TxEntry(r, Priority[r], clock + DelayMs[r])
           IN  /\ r \in Occupants(txIn) /\ r \in Requests /\ e \in TxEntries
               /\ \/ /\ Len(txQueue) < TX_Q /\ UNCHANGED outcome
                     /\ Occupants(txQueue') = Occupants(txQueue) \cup {e}
                  \/ /\ Len(txQueue) = TX_Q /\ UNCHANGED txQueue
                     /\ outcome' = [outcome EXCEPT ![r] = "dropped"]
  <1> DEFINE r == Head(txIn)
             e == TxEntry(r, Priority[r], clock + DelayMs[r])
  <1>1. /\ txIn # <<>> /\ Push(r)
        /\ clock \in Nat /\ Len(txQueue) \in Nat /\ TX_Q \in Nat /\ Len(txQueue) <= TX_Q
        /\ txQueue \in Seq(TxEntries)
    BY RequestsType, LenProperties, DispatcherAssumption DEF Receive, TypeOK
  <1>2. r \in Requests /\ r \in Occupants(txIn)
    BY <1>1, RequestsType, TailRemovesHead DEF RequestsAccounted
  <1>3. e \in TxEntries /\ e.request = r
    <2>1. clock + DelayMs[r] \in Nat /\ Priority[r] \in Nat
      BY <1>1, <1>2, DispatcherAssumption
    <2> QED
      BY <1>2, <2>1 DEF TxEntry, TxEntries
  <1>4. e \notin Occupants(txQueue)
    <2>1. r \notin Occupants(QueuedRequests)
      BY <1>2 DEF RequestsAccounted
    <2>2. \A i \in 1..Len(txQueue) : txQueue[i].request # r
      BY <2>1, RequestsType DEF Occupants
    <2> QED
      BY <1>3, <2>2 DEF Occupants
  <1>5. CASE Len(txQueue) = TX_Q
    BY <1>1, <1>2, <1>3, <1>5 DEF Push
  <1>6. CASE Len(txQueue) # TX_Q
    <2>1. txQueue' = Append(txQueue, e) /\ UNCHANGED outcome
      BY <1>1, <1>6 DEF Push
    <2> HIDE DEF e
    <2>2. Occupants(txQueue') = Occupants(txQueue) \cup {e}
      BY <1>1, <1>3, <1>4, <2>1, EntriesDiffer, AppendAdds
    <2> QED
      BY <1>1, <1>2, <1>3, <1>6, <2>1, <2>2 DEF e
  <1> QED
    BY <1>5, <1>6

\* pop_ready() removes one, and the put-back of maybe_transmit leaves the set as it was.
LEMMA PopRemoves ==
    ASSUME TypeOK, RequestsAccounted, PacketsAccounted, TxReady(txQueue, clock) # {},
           NEW i, i = TxBest(txQueue, clock), NEW rest, rest = SwapRemove(txQueue, i)
    PROVE  /\ i \in 1..Len(txQueue) /\ txQueue[i] \in Occupants(txQueue)
           /\ Occupants(rest) = Occupants(txQueue) \ {txQueue[i]}
           /\ Occupants(Append(rest, txQueue[i])) = Occupants(txQueue)
  <1>1. /\ i \in 1..Len(txQueue) /\ txQueue[i] \in TxEntries /\ rest \in Seq(TxEntries)
        /\ txQueue \in Seq(TxEntries)
    BY PopAccounts, RequestsType
  <1>2. /\ Occupants(rest) = Occupants(txQueue) \ {txQueue[i]} /\ Injective(rest)
        /\ txQueue[i] \in Occupants(txQueue)
    BY <1>1, EntriesDiffer, SwapRemoveRemoves DEF Occupants
  <1>3. Occupants(Append(rest, txQueue[i])) = Occupants(rest) \cup {txQueue[i]}
    BY <1>1, <1>2, AppendAdds
  <1> QED
    BY <1>1, <1>2, <1>3

-----------------------------------------------------------------------------
\* The code behaviour: run(), maybe_transmit() and handle_rx() together do what
\* StoreAndForward promises.  Each handler that moves a request or a frame is one action of it;
\* the others, the put-back of a throttled entry among them, change nothing it sees.
THEOREM DispatcherRefinement == Spec => DispatchesAsPromised
  <1> DEFINE waiting == Occupants(txQueue)
             held == Occupants(rxDelayQueue)
             pvars == <<clock, <<txIn, waiting, current, submittedAt, outcome>>,
                               <<rxOut, held, heardAt, fate>>>>
  <1>0. /\ \A e, f : Promise!Before(e, f) <=> Before(e, f)
        /\ \A r, p, t : Promise!TxEntry(r, p, t) = TxEntry(r, p, t)
        /\ \A p, t : Promise!RxEntry(p, t) = RxEntry(p, t)
        /\ \A raw : Promise!CalcRxDelay(raw) = CalcRxDelay(raw)
        /\ Promise!NoDelay = NoDelay /\ Promise!NoTime = NoTime
        /\ \A S : Promise!Cardinality(S) = Cardinality(S)
    BY DEF Promise!Before, Promise!TxEntry, Promise!RxEntry, Promise!CalcRxDelay,
       Promise!NoDelay, Promise!NoTime, Promise!Cardinality, Before, TxEntry, RxEntry,
       CalcRxDelay, NoDelay, NoTime, Cardinality
  <1>1. Init => Promise!Init
    <2> SUFFICES ASSUME Init PROVE Promise!Init
      OBVIOUS
    <2>1. waiting = {} /\ held = {}
      <3>1. txQueue = <<>> /\ rxDelayQueue = <<>>
        BY DEF Init
      <3>2. Len(txQueue) = 0 /\ Len(rxDelayQueue) = 0
        BY <3>1, EmptySeq
      <3> QED
        BY <3>2 DEF Occupants
    <2> QED
      BY <1>0, <2>1 DEF Init, Promise!Init
  <1>2. TypeOK /\ InFlightOK /\ RequestsAccounted /\ PacketsAccounted /\ LoopOrder /\ [Next]_vars
          => [Promise!Next]_(Promise!vars)
    <2> SUFFICES ASSUME TypeOK, InFlightOK, RequestsAccounted, PacketsAccounted, LoopOrder,
                        [Next]_vars
                 PROVE  Promise!Next \/ pvars' = pvars
      BY DEF Promise!vars, Promise!tx, Promise!rx
    <2>0. /\ clock \in Nat /\ TX_Q \in Nat /\ RX_Q \in Nat
          /\ Len(txIn) \in Nat /\ Len(txQueue) \in Nat /\ Len(txQueue) <= TX_Q
          /\ Len(rxOut) \in Nat /\ Len(rxOut) <= RX_Q
          /\ Len(rxDelayQueue) \in Nat /\ Len(rxDelayQueue) <= RX_Q
          /\ txQueue \in Seq(TxEntries) /\ rxDelayQueue \in Seq(RxEntries)
      BY RequestsType, PacketsType, LenProperties, DispatcherAssumption DEF TypeOK
    <2>1. /\ Injective(txQueue) /\ Cardinality(waiting) = Len(txQueue)
          /\ Injective(rxDelayQueue) /\ Cardinality(held) = Len(rxDelayQueue)
      BY EntriesDiffer
    <2>2. pc \notin {"cad", "backoff", "send"} => current = NoRequest
      BY DEF InFlightOK
    <2> HIDE DEF waiting, held
    <2>a. txQueue' = txQueue => waiting' = waiting
      BY DEF waiting, Occupants
    <2>b. rxDelayQueue' = rxDelayQueue => held' = held
      BY DEF held, Occupants
    <2>c. ASSUME NEW p, TrySend(p) PROVE Promise!HandOver(p)
      BY <2>c, <2>0 DEF TrySend, Promise!HandOver
    <2>3. CASE Drain \/ TakeTx
      <3> DEFINE r == Head(txIn)
                 e == TxEntry(r, Priority[r], clock + DelayMs[r])
      <3>1. /\ txIn # <<>> /\ txIn' = Tail(txIn) /\ current = NoRequest
            /\ UNCHANGED <<clock, current, submittedAt, rxVars>>
        BY <2>2, <2>3 DEF Drain, TakeTx, Receive
      <3>2. UNCHANGED <<rxOut, held, heardAt, fate>>
        BY <2>b, <3>1 DEF rxVars
      <3>3. \/ /\ Cardinality(waiting) < TX_Q
               /\ waiting' = waiting \cup {e} /\ UNCHANGED outcome
            \/ /\ Cardinality(waiting) = TX_Q
               /\ outcome' = [outcome EXCEPT ![r] = "dropped"] /\ UNCHANGED waiting
        BY <2>1, <2>3, <2>a, ReceiveAdds DEF Drain, TakeTx, waiting
      <3>4. Promise!Accept
        <4>1. e = Promise!TxEntry(r, Priority[r], clock + DelayMs[r])
          BY <1>0
        <4> HIDE DEF e
        <4> QED
          BY <1>0, <3>1, <3>2, <3>3, <4>1 DEF Promise!Accept, Promise!rx, waiting, held
      <3> QED
        BY <3>4 DEF Promise!Next
    <2>4. CASE Deliver
      <3> DEFINE i == RxBest(rxDelayQueue, clock)
                 e == rxDelayQueue[i]
      <3>1. /\ RxReady(rxDelayQueue, clock) # {} /\ current = NoRequest
            /\ rxDelayQueue' = SwapRemove(rxDelayQueue, i) /\ TrySend(e.packet)
            /\ UNCHANGED <<clock, txVars, heardAt>>
        BY <2>2, <2>4 DEF Deliver
      <3>2. /\ i \in 1..Len(rxDelayQueue) /\ e.deliver_at <= clock
            /\ \A j \in 1..Len(rxDelayQueue) : e.deliver_at <= rxDelayQueue[j].deliver_at
        BY <2>0, <3>1, RxBestIsEarliest DEF RxEntries, RxReady
      <3> HIDE DEF i
      <3>3. held' = held \ {e} /\ e \in held
        BY <2>0, <2>1, <3>1, <3>2, SwapRemoveRemoves DEF held, Occupants
      <3>4. \A h \in held : e.deliver_at <= h.deliver_at
        BY <3>2 DEF held, Occupants
      <3>5. UNCHANGED <<clock, txIn, waiting, current, submittedAt, outcome, heardAt>>
        BY <2>a, <3>1 DEF txVars
      <3>6. Promise!HandOver(e.packet)
        BY <2>c, <3>1
      <3> HIDE DEF e
      <3>7. Promise!Release(e)
        BY <3>1, <3>2, <3>3, <3>4, <3>5, <3>6 DEF Promise!Release, Promise!tx, waiting, held
      <3> QED
        BY <3>3, <3>7 DEF Promise!Next, held
    <2>5. CASE Throttled
      <3> DEFINE i == TxBest(txQueue, clock)
                 rest == SwapRemove(txQueue, i)
      <3>1. /\ TxReady(txQueue, clock) # {} /\ txQueue' = Append(rest, txQueue[i])
            /\ UNCHANGED <<clock, txIn, current, submittedAt, outcome, rxVars>>
        BY <2>5 DEF Throttled
      <3>2. waiting' = waiting
        BY <3>1, PopRemoves DEF waiting
      <3>3. held' = held /\ UNCHANGED <<rxOut, heardAt, fate>>
        BY <2>b, <3>1 DEF rxVars
      <3> QED
        BY <3>1, <3>2, <3>3
    <2>6. CASE Commit
      <3> DEFINE i == TxBest(txQueue, clock)
                 e == txQueue[i]
      <3>1. /\ TxReady(txQueue, clock) # {} /\ txQueue' = SwapRemove(txQueue, i)
            /\ current' = e.request /\ current = NoRequest /\ pc = "transmit"
            /\ UNCHANGED <<clock, txIn, submittedAt, outcome, rxVars>>
        BY <2>2, <2>6 DEF Commit
      <3>2. /\ i \in 1..Len(txQueue) /\ e.send_after <= clock
            /\ \A j \in TxReady(txQueue, clock) : ~Before(txQueue[j], e)
        BY <2>0, <3>1, TxBestIsBest DEF TxEntries, TxReady
      <3> HIDE DEF i
      <3>3. waiting' = waiting \ {e} /\ e \in waiting
        BY <3>1, PopRemoves DEF waiting, i
      <3>4. \A f \in waiting : f.send_after <= clock => ~Before(f, e)
        BY <3>2 DEF waiting, Occupants, TxReady
      <3>5. /\ txIn = <<>>
            /\ \A h \in held : h.deliver_at > clock
        <4>1. txIn = <<>> /\ RxReady(rxDelayQueue, clock) = {}
          BY <3>1 DEF LoopOrder
        <4>2. \A j \in 1..Len(rxDelayQueue) : rxDelayQueue[j].deliver_at \in Nat
          <5>1. \A j \in 1..Len(rxDelayQueue) : rxDelayQueue[j] \in RxEntries
            BY <2>0, ElementOfSeq
          <5> QED
            BY <5>1 DEF RxEntries
        <4>3. \A j \in 1..Len(rxDelayQueue) : rxDelayQueue[j].deliver_at > clock
          <5> SUFFICES ASSUME NEW j \in 1..Len(rxDelayQueue)
                       PROVE  rxDelayQueue[j].deliver_at > clock
            OBVIOUS
          <5>1. ~(rxDelayQueue[j].deliver_at <= clock)
            BY <4>1 DEF RxReady
          <5> QED
            BY <2>0, <4>2, <5>1
        <4> QED
          BY <4>1, <4>3 DEF held, Occupants
      <3>6. held' = held /\ UNCHANGED <<rxOut, heardAt, fate>>
        BY <2>b, <3>1 DEF rxVars
      <3> HIDE DEF e
      <3>7. Promise!Commit(e)
        BY <1>0, <3>1, <3>2, <3>3, <3>4, <3>5, <3>6 DEF Promise!Commit, Promise!rx, waiting, held
      <3> QED
        BY <3>3, <3>7 DEF Promise!Next, waiting
    <2>7. CASE SendOk \/ SendErr
      <3>1. PICK how \in {"sent", "lost"} : outcome' = [outcome EXCEPT ![current] = how]
        BY <2>7 DEF SendOk, SendErr
      <3>2. /\ current # NoRequest /\ current' = NoRequest
            /\ UNCHANGED <<clock, txIn, txQueue, submittedAt, rxVars>>
        BY <2>7 DEF SendOk, SendErr, InFlightOK
      <3>3. UNCHANGED <<waiting, rxOut, held, heardAt, fate>>
        BY <2>a, <2>b, <3>2 DEF rxVars
      <3>4. Promise!Resolve(how)
        BY <3>1, <3>2, <3>3 DEF Promise!Resolve, Promise!rx, waiting, held
      <3> QED
        BY <3>4 DEF Promise!Next
    <2>8. ASSUME NEW p \in Packets, Recv(p)
          PROVE  Promise!Next
      <3> DEFINE delay == CalcRxDelay(RawDelayMs[p])
                 e == RxEntry(p, clock + delay)
      <3>1. /\ current = NoRequest /\ heardAt[p] = NoTime
            /\ heardAt' = [heardAt EXCEPT ![p] = clock]
            /\ UNCHANGED <<clock, txVars>>
        BY <2>2, <2>8 DEF Recv
      <3>2. UNCHANGED <<txIn, waiting, current, submittedAt, outcome>>
        BY <2>a, <3>1 DEF txVars
      <3>3. CASE ~(HeardAsFlood[p] /\ delay # NoDelay)
        <4>1. TrySend(p) /\ UNCHANGED rxDelayQueue
          BY <2>8, <3>3 DEF Recv
        <4>2. Promise!HandOver(p) /\ held' = held
          BY <2>b, <2>c, <4>1
        <4>3. Promise!Hear(p)
          BY <1>0, <3>1, <3>2, <3>3, <4>2 DEF Promise!Hear, Promise!tx, waiting, held
        <4> QED
          BY <4>3 DEF Promise!Next
      <3>4. CASE HeardAsFlood[p] /\ delay # NoDelay /\ Len(rxDelayQueue) < RX_Q
        <4>1. rxDelayQueue' = Append(rxDelayQueue, e) /\ UNCHANGED <<rxOut, fate>>
          BY <2>8, <3>4 DEF Recv
        <4>2. e \in RxEntries /\ e.packet = p
          <5>1. delay \in Nat
            BY <3>4, DispatcherAssumption, RxDelayAssumption DEF CalcRxDelay, NoDelay
          <5> HIDE DEF delay
          <5>2. clock + delay \in Nat
            BY <2>0, <5>1
          <5> QED
            BY <5>2 DEF RxEntry, RxEntries
        <4>3. e \notin held
          <5>1. p \notin Occupants(DelayedPackets)
            BY <3>1 DEF PacketsAccounted
          <5> QED
            BY <4>2, <5>1, PacketsType DEF held, Occupants
        <4> HIDE DEF e
        <4>4. held' = held \cup {e}
          BY <2>0, <2>1, <4>1, <4>2, <4>3, AppendAdds DEF held
        <4>5. held' = held \cup {Promise!RxEntry(p, clock + Promise!CalcRxDelay(RawDelayMs[p]))}
          BY <1>0, <4>4 DEF e
        <4>6. Promise!Hear(p)
          <5>1. HeardAsFlood[p] /\ Promise!CalcRxDelay(RawDelayMs[p]) # Promise!NoDelay
            BY <1>0, <3>4
          <5>2. Promise!Cardinality(held) < RX_Q /\ heardAt[p] = Promise!NoTime
            BY <1>0, <2>1, <3>1, <3>4
          <5> QED
            BY <3>1, <3>2, <4>1, <4>5, <5>1, <5>2 DEF Promise!Hear, Promise!tx, waiting, held
        <4> QED
          BY <4>6 DEF Promise!Next
      <3>5. CASE HeardAsFlood[p] /\ delay # NoDelay /\ ~(Len(rxDelayQueue) < RX_Q)
        <4>1. /\ fate' = [fate EXCEPT ![p] = "dropped"] /\ UNCHANGED <<rxOut, rxDelayQueue>>
              /\ Cardinality(held) = RX_Q
          BY <2>0, <2>1, <2>8, <3>5 DEF Recv
        <4>2. Promise!Hear(p)
          <5>1. HeardAsFlood[p] /\ Promise!CalcRxDelay(RawDelayMs[p]) # Promise!NoDelay
            BY <1>0, <3>5
          <5>2. /\ Promise!Cardinality(held) = RX_Q
                /\ heardAt[p] = Promise!NoTime /\ held' = held
            BY <1>0, <2>b, <3>1, <4>1
          <5> QED
            BY <3>1, <3>2, <4>1, <5>1, <5>2 DEF Promise!Hear, Promise!tx, waiting, held
        <4> QED
          BY <4>2 DEF Promise!Next
      <3> QED
        BY <3>3, <3>4, <3>5
    <2>9. ASSUME NEW r \in Requests, Submit(r)
          PROVE  Promise!Next
      <3>1. /\ submittedAt[r] = NoTime /\ Len(txIn) < TX_Q /\ txIn' = Append(txIn, r)
            /\ submittedAt' = [submittedAt EXCEPT ![r] = clock]
            /\ UNCHANGED <<clock, txQueue, current, outcome, rxVars>>
        BY <2>9 DEF Submit
      <3>2. UNCHANGED <<waiting, rxOut, held, heardAt, fate>>
        BY <2>a, <2>b, <3>1 DEF rxVars
      <3>3. Promise!Submit(r)
        BY <1>0, <3>1, <3>2 DEF Promise!Submit, Promise!rx, waiting, held
      <3> QED
        BY <3>3 DEF Promise!Next
    <2>10. CASE TakeRx
      <3>1. /\ rxOut # <<>> /\ rxOut' = Tail(rxOut)
            /\ UNCHANGED <<clock, txVars, rxDelayQueue, heardAt, fate>>
        BY <2>10 DEF TakeRx
      <3>2. UNCHANGED <<txIn, waiting, current, submittedAt, outcome, held>>
        BY <2>a, <2>b, <3>1 DEF txVars
      <3>3. Promise!TakeRx
        BY <3>1, <3>2 DEF Promise!TakeRx, Promise!tx, waiting, held
      <3> QED
        BY <3>3 DEF Promise!Next
    <2>11. CASE Tick
      <3>1. clock' = clock + 1 /\ UNCHANGED <<txVars, rxVars>>
        BY <2>11 DEF Tick
      <3>2. UNCHANGED <<txIn, waiting, current, submittedAt, outcome, rxOut, held, heardAt, fate>>
        BY <2>a, <2>b, <3>1 DEF txVars, rxVars
      <3>3. Promise!Tick
        BY <3>1, <3>2 DEF Promise!Tick, Promise!tx, Promise!rx, waiting, held
      <3> QED
        BY <3>3 DEF Promise!Next
    <2>12. CASE DrainDone \/ DeliverDone \/ NothingReady \/ StartSend \/ ChannelBusyRetry
                \/ RetryElapsed \/ RecvNothing \/ TimerFired \/ UNCHANGED vars
      <3>1. UNCHANGED <<clock, txVars, rxVars>>
        BY <2>12 DEF DrainDone, DeliverDone, NothingReady, StartSend, ChannelBusyRetry,
           RetryElapsed, RecvNothing, TimerFired, vars
      <3> QED
        BY <2>a, <2>b, <3>1 DEF txVars, rxVars
    <2> QED
      BY <2>3, <2>4, <2>5, <2>6, <2>7, <2>8, <2>9, <2>10, <2>11, <2>12
         DEF Next, Run, Hear, ChannelClear, ChannelBusyTimeout
  <1> QED
    BY <1>1, <1>2, TypeCorrect, InFlight, NoRequestIsLost, NoFrameTwice, InOrder, PTL
       DEF Spec, DispatchesAsPromised, Promise!Spec

-----------------------------------------------------------------------------
\* The longest wait for a clear channel, with its lag.
LongestWait == CadTimeoutMs + LongestRetry + 2 * MaxLag

\* A later moment to count from gives more time,
LEMMA AwayFacts ==
    /\ LongestRetry \in Nat /\ LongestWait \in Nat /\ MaxLag \in Nat
    /\ \A f, t \in Nat : t <= f => Away(f, t)
    /\ \A f, t \in Nat : \A r \in Requests :
          t <= f + LongestWait + Estimate[r] + Overrun => Away(f, t)
    /\ \A f, t, k \in Nat : Away(f, t) => Away(f + k, t + k) /\ Away(f + k, t)
  <1>1. /\ LongestRetry \in Nat /\ MaxLag \in Nat /\ Overrun \in Nat /\ CadTimeoutMs \in Nat
        /\ \A r \in Requests : Estimate[r] \in Nat
    BY DispatcherAssumption DEF LongestRetry
  <1>2. LongestWait \in Nat
    BY <1>1 DEF LongestWait
  <1>3. \A f, t \in Nat : t <= f => Away(f, t)
    BY DEF Away
  <1>4. \A f, t \in Nat : \A r \in Requests :
           t <= f + CadTimeoutMs + LongestRetry + 2 * MaxLag + Estimate[r] + Overrun
             <=> t <= f + LongestWait + Estimate[r] + Overrun
    BY <1>1 DEF LongestWait
  <1>5. ASSUME NEW f \in Nat, NEW t \in Nat, NEW k \in Nat, Away(f, t)
        PROVE  Away(f + k, t + k) /\ Away(f + k, t)
    <2>0. f + k \in Nat /\ t + k \in Nat
      OBVIOUS
    <2>1. CASE t <= f
      BY <1>3, <2>0, <2>1
    <2>2. ASSUME NEW r \in Requests, t <= f + LongestWait + Estimate[r] + Overrun
          PROVE  Away(f + k, t + k) /\ Away(f + k, t)
      <3>1. /\ t + k <= (f + k) + LongestWait + Estimate[r] + Overrun
            /\ t <= (f + k) + LongestWait + Estimate[r] + Overrun
        BY <1>1, <1>2, <2>2
      <3> QED
        BY <1>4, <2>0, <3>1 DEF Away
    <2> QED
      BY <1>4, <1>5, <2>1, <2>2 DEF Away
  <1> QED
    BY <1>1, <1>2, <1>3, <1>4, <1>5 DEF Away

\* and what is in time was so before.
LEMMA AwayEarlier ==
    ASSUME NEW f \in Nat, NEW t \in Nat, NEW u \in Nat, Away(f, t), u <= t
    PROVE  Away(f, u)
  <1>1. CASE t <= f
    BY <1>1, AwayFacts
  <1>2. ASSUME NEW r \in Requests,
               t <= f + CadTimeoutMs + LongestRetry + 2 * MaxLag + Estimate[r] + Overrun
        PROVE  Away(f, u)
    <2>1. /\ Estimate[r] \in Nat /\ Overrun \in Nat /\ CadTimeoutMs \in Nat
          /\ LongestRetry \in Nat /\ MaxLag \in Nat
      BY AwayFacts, DispatcherAssumption
    <2>2. u <= f + CadTimeoutMs + LongestRetry + 2 * MaxLag + Estimate[r] + Overrun
      BY <1>2, <2>1
    <2> QED
      BY <2>2 DEF Away
  <1> QED
    BY <1>1, <1>2 DEF Away

\* While the loop is away it is on its way back from a moment not long after d.
Returning(d) ==
    /\ pc \in {"cad", "backoff"} => cadDeadline <= d + CadTimeoutMs
    /\ pc = "send" => since <= d + LongestWait

\* Such a loop is back in time,
LEMMA ReturnsInTime ==
    ASSUME TypeOK, InFlightOK, CadIsBounded, NEW d \in Nat, Returning(d), current # NoRequest
    PROVE  Away(d, clock)
  <1>1. /\ clock \in Nat /\ since \in Nat /\ cadDeadline \in Nat \cup {NoTime}
        /\ current \in Requests /\ Overrun \in Nat /\ CadTimeoutMs \in Nat
    BY DispatcherAssumption DEF TypeOK
  <1>2. Estimate[current] \in Nat
    BY <1>1, DispatcherAssumption
  <1>3. clock <= d + LongestWait + Estimate[current] + Overrun
    <2>1. CASE pc \in {"cad", "backoff"}
      <3>1. clock <= d + LongestWait
        BY <1>1, <2>1, AwayFacts DEF CadIsBounded, Returning, LongestWait, NoTime
      <3> QED
        BY <1>1, <1>2, <3>1, AwayFacts
    <2>2. CASE pc = "send"
      BY <1>1, <1>2, <2>2, AwayFacts DEF InFlightOK, Returning
    <2> QED
      BY <2>1, <2>2 DEF InFlightOK
  <1> QED
    BY <1>1, <1>3, AwayFacts

\* and stays on its way whatever it does next; only a commit sends it away.
LEMMA StillReturning ==
    ASSUME TypeOK, CadIsBounded, [Next]_vars, ~Commit, NEW d \in Nat, Returning(d)
    PROVE  Returning(d)'
  <1>0. /\ clock \in Nat /\ cadDeadline \in Nat \cup {NoTime} /\ CadTimeoutMs \in Nat
    BY DispatcherAssumption DEF TypeOK
  <1>a. pc' \notin {"cad", "backoff", "send"} => Returning(d)'
    BY DEF Returning
  <1>b. UNCHANGED <<pc, since, cadDeadline>> => Returning(d)'
    BY DEF Returning
  <1>1. CASE StartSend
    <2>1. pc' = "send" /\ since' = clock /\ pc = "cad"
      BY <1>1 DEF StartSend, Goto
    <2>2. clock <= d + LongestWait
      BY <1>0, <2>1, AwayFacts DEF CadIsBounded, Returning, LongestWait, NoTime
    <2> QED
      BY <2>1, <2>2 DEF Returning
  <1>2. CASE ChannelBusyRetry \/ RetryElapsed
    BY <1>2 DEF ChannelBusyRetry, RetryElapsed, Goto, Returning
  <1>3. CASE Drain \/ Deliver \/ TakeRx \/ Tick \/ UNCHANGED vars
    BY <1>3, <1>b DEF Drain, Deliver, TakeRx, Tick, vars, cadVars
  <1>4. CASE DrainDone \/ DeliverDone \/ NothingReady \/ Throttled \/ SendOk \/ SendErr
             \/ TakeTx \/ TimerFired \/ RecvNothing
    BY <1>4, <1>a DEF DrainDone, DeliverDone, NothingReady, Throttled, SendOk, SendErr,
       TakeTx, TimerFired, RecvNothing, Goto
  <1>5. ASSUME NEW p \in Packets, Recv(p) PROVE Returning(d)'
    BY <1>5, <1>a DEF Recv, Goto
  <1>6. ASSUME NEW r \in Requests, Submit(r) PROVE Returning(d)'
    BY <1>6, <1>b DEF Submit, cadVars
  <1> QED
    BY <1>1, <1>2, <1>3, <1>4, <1>5, <1>6
       DEF Next, Run, Hear, ChannelClear, ChannelBusyTimeout

-----------------------------------------------------------------------------
\* next_wake_time() is not later than any frame that is held.
LEMMA WakesForHeld ==
    ASSUME TypeOK, NEW e \in Occupants(rxDelayQueue)
    PROVE  /\ e \in RxEntries
           /\ NextWakeTime \in Nat /\ NextWakeTime <= e.deliver_at
  <1> DEFINE rxTimes == {rxDelayQueue[i].deliver_at : i \in 1..Len(rxDelayQueue)}
             txTimes == {txQueue[i].send_after : i \in 1..Len(txQueue)}
  <1>1. /\ \A i \in 1..Len(rxDelayQueue) : rxDelayQueue[i] \in RxEntries
        /\ \A i \in 1..Len(txQueue) : txQueue[i] \in TxEntries
    BY RequestsType, PacketsType, ElementOfSeq
  <1>2. rxTimes \subseteq Nat /\ txTimes \subseteq Nat
    BY <1>1 DEF RxEntries, TxEntries
  <1>3. e \in RxEntries /\ e.deliver_at \in rxTimes
    BY <1>1 DEF Occupants
  <1>4. /\ RxNextReadyTime(rxDelayQueue) = Earliest(rxTimes)
        /\ TxNextReadyTime(txQueue) = Earliest(txTimes)
    BY DEF RxNextReadyTime, TxNextReadyTime
  <1> HIDE DEF rxTimes, txTimes
  <1>5. /\ Earliest(rxTimes) \in Nat /\ Earliest(rxTimes) <= e.deliver_at
        /\ Earliest(txTimes) \in Nat \cup {NoTime}
    BY <1>2, <1>3, EarliestIsLeast
  <1>6. e.deliver_at \in Nat
    BY <1>3 DEF RxEntries
  <1> QED
    BY <1>3, <1>4, <1>5, <1>6 DEF NextWakeTime, NoTime

\* What DeliveredInTime needs to be inductive: where the loop is when a frame becomes due,
\* and that it comes back from there.
HeldInTime ==
    \A e \in Occupants(rxDelayQueue) :
        /\ Returning(e.deliver_at)
        /\ pc = "wait" => Away(e.deliver_at, since)
        /\ current = NoRequest => Away(e.deliver_at + MaxLag, clock)

\* The code behaviour: the delivery loop of run() comes before maybe_transmit, and
\* next_wake_time() arms the timer for the earliest frame, so that a frame waits for one
\* transmission at most after its delay, whatever the channel and the other queue do.
THEOREM FramesInTime == Spec => []DeliveredInTime
  <1>1. Init => HeldInTime
    <2> SUFFICES ASSUME Init PROVE Occupants(rxDelayQueue) = {}
      BY DEF HeldInTime
    <2>1. Len(rxDelayQueue) = 0
      BY EmptySeq DEF Init
    <2> QED
      BY <2>1 DEF Occupants
  <1>2. TypeOK /\ InFlightOK /\ CadIsBounded /\ PacketsAccounted /\ RequestsAccounted /\ LoopOrder
          /\ HeldInTime /\ [Next]_vars => HeldInTime'
    <2> SUFFICES ASSUME TypeOK, InFlightOK, CadIsBounded, PacketsAccounted, RequestsAccounted,
                        LoopOrder, HeldInTime, [Next]_vars,
                        NEW e \in Occupants(rxDelayQueue)'
                 PROVE  /\ Returning(e.deliver_at)'
                        /\ pc' = "wait" => Away(e.deliver_at, since')
                        /\ current' = NoRequest => Away(e.deliver_at + MaxLag, clock')
      BY DEF HeldInTime, Away
    <2> DEFINE d == e.deliver_at
               Kept == /\ Returning(d)'
                       /\ pc' = "wait" => Away(d, since')
                       /\ current' = NoRequest => Away(d + MaxLag, clock')
    <2>0. /\ clock \in Nat /\ since \in 0..clock /\ CadTimeoutMs \in Nat /\ RX_Q \in Nat
          /\ current \in Requests \cup {NoRequest} /\ NoRequest \notin Requests
      BY DispatcherAssumption DEF TypeOK
    \* A frame that has just been heard is not due before now.
    <2>1. ASSUME NEW p \in Packets, Recv(p), e \notin Occupants(rxDelayQueue)
          PROVE  Kept
      <3> DEFINE delay == CalcRxDelay(RawDelayMs[p])
                 new == RxEntry(p, clock + delay)
      <3>1. /\ HeardAsFlood[p] /\ delay # NoDelay
            /\ rxDelayQueue' = Append(rxDelayQueue, new)
        BY <2>1 DEF Recv, TrySend
      <3>2. delay \in Nat
        BY <3>1, DispatcherAssumption, RxDelayAssumption DEF CalcRxDelay, NoDelay
      <3> HIDE DEF delay
      <3>3. new \in RxEntries /\ new.packet = p /\ new.deliver_at = clock + delay
            /\ clock + delay \in Nat
        BY <2>0, <3>2 DEF RxEntry, RxEntries
      <3>4. new \notin Occupants(rxDelayQueue)
        <4>1. p \notin Occupants(DelayedPackets)
          BY <2>1 DEF PacketsAccounted, Recv
        <4> QED
          BY <3>3, <4>1, PacketsType DEF Occupants
      <3> HIDE DEF new
      <3>5. e = new
        BY <2>1, <3>1, <3>3, <3>4, PacketsType, EntriesDiffer, AppendAdds
      <3>6. d = clock + delay
        BY <3>3, <3>5
      <3>7. clock' = clock /\ pc' = "drain"
        BY <2>1 DEF Recv, Goto
      <3>8. d \in Nat /\ d + MaxLag \in Nat /\ clock <= d + MaxLag
        BY <2>0, <3>2, <3>6, AwayFacts
      <3> HIDE DEF d
      <3> QED
        BY <2>0, <3>7, <3>8, AwayFacts DEF Returning
    \* One that was held stays so.
    <2>2. ASSUME e \in Occupants(rxDelayQueue)
          PROVE  Kept
      <3>1. /\ d \in Nat /\ Returning(d) /\ MaxLag \in Nat /\ d + MaxLag \in Nat
            /\ pc = "wait" => Away(d, since)
            /\ current = NoRequest => Away(d + MaxLag, clock)
            /\ NextWakeTime \in Nat /\ NextWakeTime <= d
        <4>1. e \in RxEntries /\ NextWakeTime \in Nat /\ NextWakeTime <= e.deliver_at
          BY <2>2, WakesForHeld
        <4>2. e.deliver_at \in Nat
          BY <4>1 DEF RxEntries
        <4> QED
          BY <2>2, <4>1, <4>2, AwayFacts DEF HeldInTime
      <3>2. pc = "transmit" => clock <= d
        <4>1. PICK j \in 1..Len(rxDelayQueue) : e = rxDelayQueue[j]
          BY <2>2 DEF Occupants
        <4>2. pc = "transmit" => ~(d <= clock)
          BY <4>1 DEF LoopOrder, RxReady
        <4> QED
          BY <2>0, <3>1, <4>2
      <3> HIDE DEF d
      <3>3. ~Commit => Returning(d)'
        BY <3>1, StillReturning
      <3>4. CASE Commit
        <4>1. /\ pc = "transmit" /\ pc' = "cad" /\ cadDeadline' = clock + CadTimeoutMs
              /\ TxReady(txQueue, clock) # {}
              /\ current' = txQueue[TxBest(txQueue, clock)].request
          BY <3>4 DEF Commit, Goto
        <4>2. current' # NoRequest
          <5>1. current' \in Requests
            BY <4>1, PopAccounts DEF TxEntries
          <5> QED
            BY <2>0, <5>1
        <4>3. cadDeadline' <= d + CadTimeoutMs
          BY <2>0, <3>1, <3>2, <4>1
        <4> QED
          BY <4>1, <4>2, <4>3 DEF Returning
      <3>5. CASE SendOk \/ SendErr
        <4>1. current # NoRequest /\ pc' = "wait" /\ since' = clock /\ clock' = clock
          BY <3>5 DEF SendOk, SendErr, Goto, InFlightOK
        <4>2. Away(d, clock)
          BY <3>1, <4>1, ReturnsInTime
        <4>3. Away(d + MaxLag, clock)
          BY <2>0, <3>1, <4>2, AwayFacts
        <4>4. ~Commit
          BY <3>5 DEF SendOk, SendErr, Commit
        <4> QED
          BY <3>3, <4>1, <4>2, <4>3, <4>4
      <3>6. CASE NothingReady \/ Throttled
        <4>1. /\ pc = "transmit" /\ pc' = "wait" /\ since' = clock /\ clock' = clock
              /\ current' = current
          BY <3>6 DEF NothingReady, Throttled, Goto, txVars
        <4>2. Away(d, clock)
          BY <2>0, <3>1, <3>2, <4>1, AwayFacts
        <4>3. ~Commit
          BY <4>1 DEF Commit, Goto
        <4> QED
          BY <3>1, <3>3, <4>1, <4>2, <4>3
      <3>7. CASE Tick
        <4>1. clock' = clock + 1 /\ InTime /\ UNCHANGED <<pc, since, current>>
          BY <3>7 DEF Tick, txVars
        <4>2. ~Commit
          BY <2>0, <4>1 DEF Commit
        <4>3. CASE pc = "wait"
          <5>1. \/ clock < NextWakeTime + MaxLag
                \/ clock < since + MaxLag
            <6>1. NextWakeTime = NoTime \/ clock < NextWakeTime + MaxLag \/ clock < since + MaxLag
              BY <4>1, <4>3, Zenon DEF InTime
            <6> QED
              BY <3>1, <6>1 DEF NoTime
          <5>2. CASE clock < NextWakeTime + MaxLag
            <6>1. clock + 1 <= d + MaxLag
              BY <2>0, <3>1, <5>2
            <6>2. Away(d + MaxLag, clock + 1)
              BY <2>0, <3>1, <6>1, AwayFacts
            <6> QED
              BY <3>1, <3>3, <4>1, <4>2, <4>3, <6>2
          <5>3. CASE clock < since + MaxLag
            <6>1. Away(d + MaxLag, since + MaxLag)
              BY <2>0, <3>1, <4>3, AwayFacts
            <6>2. clock + 1 <= since + MaxLag
              BY <2>0, <3>1, <5>3
            <6>3. Away(d + MaxLag, clock + 1)
              BY <2>0, <3>1, <6>1, <6>2, AwayEarlier
            <6> QED
              BY <3>1, <3>3, <4>1, <4>2, <4>3, <6>3
          <5> QED
            BY <5>1, <5>2, <5>3
        <4>4. CASE pc # "wait"
          <5>1. pc \in {"cad", "backoff", "send"}
            BY <4>1, <4>4, Zenon DEF InTime
          <5>2. current # NoRequest
            BY <5>1 DEF InFlightOK
          <5> QED
            BY <3>3, <4>1, <4>2, <4>4, <5>2
        <4> QED
          BY <4>3, <4>4
      <3>8. CASE Drain \/ DrainDone \/ Deliver \/ DeliverDone \/ StartSend \/ ChannelBusyRetry
                 \/ RetryElapsed \/ TakeTx \/ TimerFired \/ RecvNothing
        <4>1. pc' # "wait" /\ UNCHANGED <<clock, current>> /\ ~Commit
          BY <3>8 DEF Drain, DrainDone, Deliver, DeliverDone, StartSend, ChannelBusyRetry,
             RetryElapsed, TakeTx, TimerFired, RecvNothing, Commit, Goto, txVars
        <4> QED
          BY <3>1, <3>3, <4>1
      <3>9. ASSUME NEW p \in Packets, Recv(p)
            PROVE  Kept
        <4>1. pc' # "wait" /\ UNCHANGED <<clock, current>> /\ ~Commit
          BY <3>9 DEF Recv, Commit, Goto, txVars
        <4> QED
          BY <3>1, <3>3, <4>1
      <3>10. CASE TakeRx \/ UNCHANGED vars \/ (\E r \in Requests : Submit(r))
        <4>1. UNCHANGED <<pc, since, clock, current>> /\ ~Commit
          BY <3>10 DEF TakeRx, Submit, vars, txVars, Commit, Goto
        <4> QED
          BY <3>1, <3>3, <4>1
      <3> QED
        BY <3>4, <3>5, <3>6, <3>7, <3>8, <3>9, <3>10
           DEF Next, Run, Hear, ChannelClear, ChannelBusyTimeout
    <2>3. e \in Occupants(rxDelayQueue) \/ \E p \in Packets : Recv(p)
      <3>a. rxDelayQueue' = rxDelayQueue => e \in Occupants(rxDelayQueue)
        BY DEF Occupants
      <3>1. CASE Deliver
        <4>1. /\ RxBest(rxDelayQueue, clock) \in 1..Len(rxDelayQueue)
              /\ rxDelayQueue' = SwapRemove(rxDelayQueue, RxBest(rxDelayQueue, clock))
          BY <3>1, RxBestType DEF Deliver
        <4> QED
          BY <4>1, PacketsType, EntriesDiffer, SwapRemoveRemoves
      <3>2. CASE Drain \/ DrainDone \/ DeliverDone \/ NothingReady \/ Throttled \/ Commit
                 \/ StartSend \/ ChannelBusyRetry \/ RetryElapsed \/ SendOk \/ SendErr \/ TakeTx
                 \/ TimerFired \/ RecvNothing \/ TakeRx \/ Tick \/ UNCHANGED vars
                 \/ (\E r \in Requests : Submit(r))
        BY <3>2, <3>a DEF Drain, DrainDone, DeliverDone, NothingReady, Throttled, Commit,
           StartSend, ChannelBusyRetry, RetryElapsed, SendOk, SendErr, TakeTx, TimerFired,
           RecvNothing, TakeRx, Tick, Submit, vars, rxVars
      <3> QED
        BY <3>1, <3>2 DEF Next, Run, Hear, ChannelClear, ChannelBusyTimeout
    <2> QED
      BY <2>1, <2>2, <2>3
  <1>3. TypeOK /\ InFlightOK /\ CadIsBounded /\ HeldInTime => DeliveredInTime
    <2> SUFFICES ASSUME TypeOK, InFlightOK, CadIsBounded, HeldInTime,
                        NEW i \in 1..Len(rxDelayQueue)
                 PROVE  Away(rxDelayQueue[i].deliver_at + MaxLag, clock)
      BY DEF DeliveredInTime
    <2>1. PICK d : d = rxDelayQueue[i].deliver_at
      OBVIOUS
    <2>2. rxDelayQueue[i] \in RxEntries /\ rxDelayQueue[i] \in Occupants(rxDelayQueue)
      BY PacketsType, ElementOfSeq DEF Occupants
    <2>3. d \in Nat /\ clock \in Nat
      BY <2>1, <2>2, PacketsType DEF RxEntries
    <2>4. Returning(d) /\ (current = NoRequest => Away(d + MaxLag, clock))
      BY <2>1, <2>2 DEF HeldInTime
    <2>5. current # NoRequest => Away(d + MaxLag, clock)
      BY <2>3, <2>4, ReturnsInTime, AwayFacts
    <2> QED
      BY <2>1, <2>4, <2>5
  <1> QED
    BY <1>1, <1>2, <1>3, TypeCorrect, InFlight, ChannelWaitEnds, NoFrameTwice, NoRequestIsLost,
       InOrder, PTL DEF Spec

-----------------------------------------------------------------------------
\* What ScheduledInTime needs to be inductive: a request that comes while the loop is away
\* finds it on its way back, and nothing delays the loop while the channel is not empty.
SubmittedInTime ==
    /\ pc \in {"cad", "backoff"} => cadDeadline <= clock + CadTimeoutMs
    /\ \A r \in Occupants(txIn) :
          Returning(submittedAt[r]) /\ (current = NoRequest => Away(submittedAt[r], clock))

EntriesInTime ==
    \A e \in Occupants(txQueue) :
        Away(submittedAt[e.request] + DelayMs[e.request], e.send_after)

\* What is submitted, and what is in the queue, keeps its submission time.
LEMMA SubmissionsStay ==
    ASSUME TypeOK, RequestsAccounted, [Next]_vars
    PROVE  /\ \A r \in Occupants(txIn) :
                 r \in Requests /\ submittedAt[r] \in Nat /\ submittedAt'[r] = submittedAt[r]
           /\ \A e \in Occupants(txQueue) :
                 /\ e \in TxEntries /\ submittedAt[e.request] \in Nat
                 /\ submittedAt'[e.request] = submittedAt[e.request]
  <1>0. /\ submittedAt \in [Requests -> 0..clock \cup {NoTime}] /\ clock \in Nat
        /\ NoTime \notin Nat
    BY DEF TypeOK, NoTime
  <1>1. ASSUME NEW r \in Requests, submittedAt[r] # NoTime
        PROVE  submittedAt[r] \in Nat /\ submittedAt'[r] = submittedAt[r]
    <2>1. submittedAt[r] \in Nat
      BY <1>0, <1>1
    <2>2. submittedAt' = submittedAt
            \/ \E q \in Requests : /\ submittedAt[q] = NoTime
                                   /\ submittedAt' = [submittedAt EXCEPT ![q] = clock]
      BY DEF Next, Run, Hear, Drain, DrainDone, Deliver, DeliverDone, NothingReady, Throttled,
         Commit, ChannelClear, ChannelBusyTimeout, StartSend, ChannelBusyRetry, RetryElapsed,
         SendOk, SendErr, TakeTx, TimerFired, Recv, RecvNothing, TakeRx, Tick, Submit, vars,
         txVars
    <2> QED
      BY <1>0, <1>1, <2>1, <2>2
  <1>2. ASSUME NEW r \in Occupants(txIn)
        PROVE  r \in Requests /\ submittedAt[r] # NoTime
    BY <1>2 DEF RequestsAccounted
  <1>3. ASSUME NEW e \in Occupants(txQueue)
        PROVE  e \in TxEntries /\ e.request \in Requests /\ submittedAt[e.request] # NoTime
    <2>1. PICK i \in 1..Len(txQueue) : e = txQueue[i]
      BY <1>3 DEF Occupants
    <2>2. e \in TxEntries
      BY <2>1, RequestsType, ElementOfSeq
    <2>3. e.request \in Occupants(QueuedRequests)
      BY <2>1, RequestsType DEF Occupants
    <2> QED
      BY <2>2, <2>3 DEF RequestsAccounted
  <1> QED
    BY <1>1, <1>2, <1>3

\* The code behaviour: run() drains the channel in every iteration, before and after each
\* transmission, so that push() starts the delay of a request at most one transmission after
\* the mesh layer submitted it.
THEOREM RequestsInTime == Spec => []ScheduledInTime
  <1>1. Init => SubmittedInTime /\ EntriesInTime
    <2> SUFFICES ASSUME Init PROVE Occupants(txIn) = {} /\ Occupants(txQueue) = {}
      BY DEF SubmittedInTime, EntriesInTime, Init
    <2>1. Len(txIn) = 0 /\ Len(txQueue) = 0
      BY EmptySeq DEF Init
    <2> QED
      BY <2>1 DEF Occupants
  <1>2. TypeOK /\ InFlightOK /\ CadIsBounded /\ PacketsAccounted /\ RequestsAccounted /\ LoopOrder
          /\ SubmittedInTime /\ [Next]_vars => SubmittedInTime'
    <2> SUFFICES ASSUME TypeOK, InFlightOK, CadIsBounded, PacketsAccounted, RequestsAccounted,
                        LoopOrder, SubmittedInTime, [Next]_vars
                 PROVE  SubmittedInTime'
      OBVIOUS
    <2>0. /\ clock \in Nat /\ since \in 0..clock /\ cadDeadline \in Nat \cup {NoTime}
          /\ CadTimeoutMs \in Nat
          /\ current \in Requests \cup {NoRequest} /\ NoRequest \notin Requests
      BY DispatcherAssumption DEF TypeOK
    <2>1. pc' \in {"cad", "backoff"} => cadDeadline' <= clock' + CadTimeoutMs
      <3>1. CASE Commit
        BY <2>0, <3>1 DEF Commit
      <3>2. CASE Tick
        BY <2>0, <3>2, AwayFacts DEF Tick, cadVars, SubmittedInTime, CadIsBounded, NoTime
      <3>3. CASE ChannelBusyRetry \/ RetryElapsed \/ TakeRx \/ Drain \/ Deliver
                 \/ UNCHANGED vars \/ (\E r \in Requests : Submit(r))
        BY <3>3 DEF ChannelBusyRetry, RetryElapsed, TakeRx, Drain, Deliver, Submit, vars,
           cadVars, SubmittedInTime, Goto
      <3>4. CASE DrainDone \/ DeliverDone \/ NothingReady \/ Throttled \/ StartSend \/ SendOk
                 \/ SendErr \/ TakeTx \/ TimerFired \/ RecvNothing \/ (\E p \in Packets : Recv(p))
        BY <3>4 DEF DrainDone, DeliverDone, NothingReady, Throttled, StartSend, SendOk, SendErr,
           TakeTx, TimerFired, RecvNothing, Recv, Goto
      <3> QED
        BY <3>1, <3>2, <3>3, <3>4 DEF Next, Run, Hear, ChannelClear, ChannelBusyTimeout
    <2>2. ASSUME NEW r \in Occupants(txIn)'
          PROVE  /\ Returning(submittedAt[r])'
                 /\ current' = NoRequest => Away(submittedAt'[r], clock')
      \* A request that has just been submitted,
      <3>1. CASE Submit(r) /\ r \in Requests
        <4>1. submittedAt'[r] = clock /\ UNCHANGED <<clock, pc, since, cadDeadline, current>>
          BY <2>0, <3>1 DEF Submit, TypeOK, cadVars
        <4> QED
          BY <2>0, <4>1, AwayFacts DEF Returning, SubmittedInTime
      \* one that was in the channel, which is empty when a request is committed,
      <3>2. CASE r \in Occupants(txIn) /\ ~Commit
        <4>1. PICK d \in Nat : d = submittedAt[r] /\ d = submittedAt'[r]
          BY <3>2, SubmissionsStay
        <4>2. Returning(d) /\ (current = NoRequest => Away(d, clock))
          BY <3>2, <4>1 DEF SubmittedInTime
        <4>3. Returning(d)'
          BY <3>2, <4>2, StillReturning
        <4>4. current' = NoRequest => Away(d, clock')
          <5>1. CASE SendOk \/ SendErr
            <6>1. clock' = clock /\ current # NoRequest
              BY <5>1 DEF SendOk, SendErr, InFlightOK
            <6> QED
              BY <4>2, <6>1, ReturnsInTime
          <5>2. CASE Tick
            <6>1. InTime /\ current' = current
              BY <5>2 DEF Tick, txVars
            <6>2. pc # "wait"
              <7>1. txIn # <<>>
                BY <3>2, EmptySeq DEF Occupants
              <7> QED
                BY <6>1, <7>1, Zenon DEF InTime
            <6>3. pc \in {"cad", "backoff", "send"}
              BY <6>1, <6>2, Zenon DEF InTime
            <6> QED
              BY <6>1, <6>3 DEF InFlightOK
          <5>3. CASE Drain \/ DrainDone \/ Deliver \/ DeliverDone \/ NothingReady \/ Throttled
                     \/ StartSend \/ ChannelBusyRetry \/ RetryElapsed \/ TakeTx \/ TimerFired
                     \/ RecvNothing \/ TakeRx \/ UNCHANGED vars
                     \/ (\E p \in Packets : Recv(p)) \/ (\E q \in Requests : Submit(q))
            <6>1. UNCHANGED <<clock, current>>
              BY <5>3 DEF Drain, DrainDone, Deliver, DeliverDone, NothingReady, Throttled,
                 StartSend, ChannelBusyRetry, RetryElapsed, TakeTx, TimerFired, RecvNothing,
                 TakeRx, Recv, Submit, vars, txVars
            <6> QED
              BY <4>2, <6>1
          <5> QED
            BY <3>2, <5>1, <5>2, <5>3 DEF Next, Run, Hear, ChannelClear, ChannelBusyTimeout
        <4> QED
          BY <4>1, <4>3, <4>4 DEF Returning
      \* and there is no other.
      <3>3. (Submit(r) /\ r \in Requests) \/ (r \in Occupants(txIn) /\ ~Commit)
        <4>1. CASE Commit
          <5>1. txIn' = <<>>
            BY <4>1 DEF Commit, LoopOrder
          <5> QED
            BY <5>1, EmptySeq DEF Occupants
        <4>2. CASE Drain \/ TakeTx
          <5>1. txIn # <<>> /\ txIn' = Tail(txIn) /\ pc # "transmit"
            BY <4>2 DEF Drain, TakeTx, Receive
          <5>2. Occupants(txIn') \subseteq Occupants(txIn)
            BY <5>1, RequestsType, TailRemovesHead DEF RequestsAccounted
          <5> QED
            BY <5>1, <5>2 DEF Commit
        <4>3. ASSUME NEW q \in Requests, Submit(q)
              PROVE  (Submit(r) /\ r \in Requests) \/ (r \in Occupants(txIn) /\ ~Commit)
          <5>1. q \notin Occupants(txIn)
            BY <4>3 DEF Submit, RequestsAccounted
          <5>2. Occupants(txIn') = Occupants(txIn) \cup {q} /\ ~Commit
            BY <4>3, <5>1, RequestsType, AppendAdds DEF Submit, Awaiting, Commit, RequestsAccounted
          <5> QED
            BY <4>3, <5>2
        <4>4. CASE DrainDone \/ Deliver \/ DeliverDone \/ NothingReady \/ Throttled \/ StartSend
                   \/ ChannelBusyRetry \/ RetryElapsed \/ SendOk \/ SendErr \/ TimerFired
                   \/ RecvNothing \/ TakeRx \/ Tick \/ UNCHANGED vars
                   \/ (\E p \in Packets : Recv(p))
          <5>1. txIn' = txIn
            BY <4>4 DEF DrainDone, Deliver, DeliverDone, NothingReady, Throttled, StartSend,
               ChannelBusyRetry, RetryElapsed, SendOk, SendErr, TimerFired, RecvNothing, TakeRx,
               Tick, Recv, vars, txVars
          <5> QED
            BY <4>1, <5>1 DEF Occupants
        <4> QED
          BY <4>1, <4>2, <4>3, <4>4 DEF Next, Run, Hear, ChannelClear, ChannelBusyTimeout
      <3> QED
        BY <3>1, <3>2, <3>3
    <2> QED
      BY <2>1, <2>2 DEF SubmittedInTime, Returning, Away
  <1>3. TypeOK /\ InFlightOK /\ PacketsAccounted /\ RequestsAccounted /\ SubmittedInTime
          /\ EntriesInTime /\ [Next]_vars => EntriesInTime'
    <2> SUFFICES ASSUME TypeOK, InFlightOK, PacketsAccounted, RequestsAccounted, SubmittedInTime,
                        EntriesInTime, [Next]_vars, NEW e \in Occupants(txQueue)'
                 PROVE  Away(submittedAt'[e.request] + DelayMs[e.request], e.send_after)
      BY DEF EntriesInTime, Away
    <2>1. CASE e \in Occupants(txQueue)
      BY <2>1, SubmissionsStay DEF EntriesInTime
    <2>2. CASE Drain \/ TakeTx
      <3> DEFINE r == Head(txIn)
                 new == TxEntry(r, Priority[r], clock + DelayMs[r])
      <3>1. /\ r \in Occupants(txIn) /\ r \in Requests
            /\ e \in Occupants(txQueue) \/ e = new
        BY <2>2, ReceiveAdds DEF Drain, TakeTx, Occupants
      <3>2. new.request = r /\ new.send_after = clock + DelayMs[r]
        BY DEF TxEntry
      <3>3. Away(submittedAt[r], clock)
        BY <2>2, <3>1 DEF SubmittedInTime, InFlightOK, Drain, TakeTx
      <3>4. /\ clock \in Nat /\ submittedAt[r] \in Nat /\ DelayMs[r] \in Nat
            /\ submittedAt'[r] = submittedAt[r]
        BY <3>1, SubmissionsStay, DispatcherAssumption DEF TypeOK
      <3>5. Away(submittedAt[r] + DelayMs[r], clock + DelayMs[r])
        BY <3>3, <3>4, AwayFacts
      <3> HIDE DEF r, new
      <3> QED
        BY <2>1, <3>1, <3>2, <3>4, <3>5
    <2>3. CASE Throttled \/ Commit
      <3> DEFINE i == TxBest(txQueue, clock)
                 rest == SwapRemove(txQueue, i)
      <3>1. /\ TxReady(txQueue, clock) # {}
            /\ txQueue' = rest \/ txQueue' = Append(rest, txQueue[i])
        BY <2>3 DEF Throttled, Commit
      <3>2. /\ Occupants(rest) = Occupants(txQueue) \ {txQueue[i]}
            /\ Occupants(Append(rest, txQueue[i])) = Occupants(txQueue)
        BY <3>1, PopRemoves
      <3> HIDE DEF i, rest
      <3> QED
        BY <2>1, <3>1, <3>2
    <2>4. CASE DrainDone \/ Deliver \/ DeliverDone \/ NothingReady \/ StartSend
               \/ ChannelBusyRetry \/ RetryElapsed \/ SendOk \/ SendErr \/ TimerFired
               \/ RecvNothing \/ TakeRx \/ Tick \/ UNCHANGED vars
               \/ (\E p \in Packets : Recv(p)) \/ (\E r \in Requests : Submit(r))
      <3>1. txQueue' = txQueue
        BY <2>4 DEF DrainDone, Deliver, DeliverDone, NothingReady, StartSend, ChannelBusyRetry,
           RetryElapsed, SendOk, SendErr, TimerFired, RecvNothing, TakeRx, Tick, Recv, Submit,
           vars, txVars
      <3> QED
        BY <2>1, <3>1 DEF Occupants
    <2> QED
      BY <2>2, <2>3, <2>4 DEF Next, Run, Hear, ChannelClear, ChannelBusyTimeout
  <1>4. EntriesInTime => ScheduledInTime
    BY DEF EntriesInTime, ScheduledInTime, Occupants
  <1> QED
    BY <1>1, <1>2, <1>3, <1>4, TypeCorrect, InFlight, ChannelWaitEnds, NoFrameTwice,
       NoRequestIsLost, InOrder, PTL DEF Spec

-----------------------------------------------------------------------------
\* What stays with an entry wherever pop_ready(), swap_remove() and the put-back move it: the
\* priority of its request, and a delay that has begun.
EntriesAsAsked ==
    \A e \in Occupants(txQueue) :
        /\ e.priority = Priority[e.request]
        /\ e.send_after <= clock + DelayMs[e.request]

LEMMA AsAsked == Spec => []EntriesAsAsked
  <1>1. Init => EntriesAsAsked
    <2> SUFFICES ASSUME Init PROVE Occupants(txQueue) = {}
      BY DEF EntriesAsAsked
    <2> QED
      BY EmptySeq DEF Init, Occupants
  <1>2. TypeOK /\ PacketsAccounted /\ RequestsAccounted /\ EntriesAsAsked /\ [Next]_vars
          => EntriesAsAsked'
    <2> SUFFICES ASSUME TypeOK, PacketsAccounted, RequestsAccounted, EntriesAsAsked, [Next]_vars,
                        NEW e \in Occupants(txQueue)'
                 PROVE  /\ e.priority = Priority[e.request]
                        /\ e.send_after <= clock' + DelayMs[e.request]
      BY DEF EntriesAsAsked
    <2>0. clock \in Nat /\ clock' \in Nat /\ clock <= clock'
      <3>1. clock \in Nat
        BY DEF TypeOK
      <3>2. clock' = clock \/ clock' = clock + 1
        BY DEF Next, Run, Hear, Drain, DrainDone, Deliver, DeliverDone, NothingReady, Throttled,
           Commit, ChannelClear, ChannelBusyTimeout, StartSend, ChannelBusyRetry, RetryElapsed,
           SendOk, SendErr, TakeTx, TimerFired, Recv, RecvNothing, TakeRx, Tick, Submit, vars
      <3> QED
        BY <3>1, <3>2
    <2>1. CASE e \in Occupants(txQueue)
      <3>1. e \in TxEntries
        BY <2>1, SubmissionsStay
      <3>2. e.send_after \in Nat /\ DelayMs[e.request] \in Nat
        BY <3>1, DispatcherAssumption DEF TxEntries
      <3>3. e.priority = Priority[e.request] /\ e.send_after <= clock + DelayMs[e.request]
        BY <2>1 DEF EntriesAsAsked
      <3> QED
        BY <2>0, <3>2, <3>3
    <2>2. CASE Drain \/ TakeTx
      <3> DEFINE r == Head(txIn)
                 new == TxEntry(r, Priority[r], clock + DelayMs[r])
      <3>1. r \in Requests /\ (e \in Occupants(txQueue) \/ e = new)
        BY <2>2, ReceiveAdds DEF Drain, TakeTx, Occupants
      <3>2. /\ new.request = r /\ new.priority = Priority[r]
            /\ new.send_after = clock + DelayMs[r]
        BY DEF TxEntry
      <3>3. DelayMs[r] \in Nat
        BY <3>1, DispatcherAssumption
      <3> HIDE DEF r, new
      <3>4. CASE e = new
        BY <2>0, <3>2, <3>3, <3>4
      <3> QED
        BY <2>1, <3>1, <3>4
    <2>3. CASE Throttled \/ Commit
      <3> DEFINE i == TxBest(txQueue, clock)
                 rest == SwapRemove(txQueue, i)
      <3>1. /\ TxReady(txQueue, clock) # {}
            /\ txQueue' = rest \/ txQueue' = Append(rest, txQueue[i])
        BY <2>3 DEF Throttled, Commit
      <3>2. /\ Occupants(rest) = Occupants(txQueue) \ {txQueue[i]}
            /\ Occupants(Append(rest, txQueue[i])) = Occupants(txQueue)
        BY <3>1, PopRemoves
      <3> HIDE DEF i, rest
      <3> QED
        BY <2>1, <3>1, <3>2
    <2>4. CASE DrainDone \/ Deliver \/ DeliverDone \/ NothingReady \/ StartSend
               \/ ChannelBusyRetry \/ RetryElapsed \/ SendOk \/ SendErr \/ TimerFired
               \/ RecvNothing \/ TakeRx \/ Tick \/ UNCHANGED vars
               \/ (\E p \in Packets : Recv(p)) \/ (\E r \in Requests : Submit(r))
      <3>1. txQueue' = txQueue
        BY <2>4 DEF DrainDone, Deliver, DeliverDone, NothingReady, StartSend, ChannelBusyRetry,
           RetryElapsed, SendOk, SendErr, TimerFired, RecvNothing, TakeRx, Tick, Recv, Submit,
           vars, txVars
      <3> QED
        BY <2>1, <3>1 DEF Occupants
    <2> QED
      BY <2>2, <2>3, <2>4 DEF Next, Run, Hear, ChannelClear, ChannelBusyTimeout
  <1> QED
    BY <1>1, <1>2, TypeCorrect, NoFrameTwice, NoRequestIsLost, PTL DEF Spec

\* The code behaviour: run() empties the channel before each maybe_transmit(), and pop_ready()
\* looks at every entry, so that no request is sent while a more urgent one that the mesh
\* layer submitted has waited for more than its delay and one transmission, none while one
\* without a delay waits at all.
THEOREM UrgentGoFirst == Spec => UrgentNotOvertaken
  <1> DEFINE NotOvertaken ==
        \A r \in Requests :
           /\ current = NoRequest /\ current' # NoRequest
           /\ submittedAt[r] # NoTime /\ outcome[r] = "none"
           /\ Priority[r] < Priority[current']
           => /\ DelayMs[r] > 0
              /\ Away(submittedAt[r] + DelayMs[r], clock)
  <1>1. TypeOK /\ PacketsAccounted /\ RequestsAccounted /\ LoopOrder /\ ScheduledInTime
          /\ EntriesAsAsked /\ [Next]_vars => [NotOvertaken]_vars
    <2> SUFFICES ASSUME TypeOK, PacketsAccounted, RequestsAccounted, LoopOrder, ScheduledInTime,
                        EntriesAsAsked, [Next]_vars,
                        NEW r \in Requests,
                        current = NoRequest, current' # NoRequest,
                        submittedAt[r] # NoTime, outcome[r] = "none",
                        Priority[r] < Priority[current']
                 PROVE  DelayMs[r] > 0 /\ Away(submittedAt[r] + DelayMs[r], clock)
      OBVIOUS
    <2> DEFINE b == TxBest(txQueue, clock)
    <2>1. Commit
      BY DEF Next, Run, Hear, Drain, DrainDone, Deliver, DeliverDone, NothingReady, Throttled,
         ChannelClear, ChannelBusyTimeout, StartSend, ChannelBusyRetry, RetryElapsed, SendOk,
         SendErr, TakeTx, TimerFired, Recv, RecvNothing, TakeRx, Tick, Submit, vars, txVars
    <2>2. /\ txIn = <<>> /\ TxReady(txQueue, clock) # {} /\ current' = txQueue[b].request
          /\ clock \in Nat
      BY <2>1 DEF Commit, LoopOrder, TypeOK
    \* The request is in the queue, ...
    <2>3. r \in Occupants(QueuedRequests)
      <3>1. Occupants(txIn) = {}
        BY <2>2, EmptySeq DEF Occupants
      <3> QED
        BY <3>1 DEF RequestsAccounted
    <2>4. PICK j \in 1..Len(txQueue) : txQueue[j].request = r
      BY <2>3, RequestsType DEF Occupants
    <2> DEFINE e == txQueue[j]
               f == txQueue[b]
    <2>5. /\ b \in 1..Len(txQueue) /\ ~(j \in TxReady(txQueue, clock) /\ Before(e, f))
      BY <2>2, RequestsType, TxBestIsBest DEF TxEntries, TxReady
    <2>6. e \in Occupants(txQueue) /\ f \in Occupants(txQueue)
      BY <2>5 DEF Occupants
    <2>7. /\ e \in TxEntries /\ f \in TxEntries /\ submittedAt[r] \in Nat
      BY <2>4, <2>6, SubmissionsStay
    <2>8. /\ e.priority = Priority[r] /\ f.priority = Priority[current']
          /\ e.send_after <= clock + DelayMs[r]
      BY <2>2, <2>4, <2>6 DEF EntriesAsAsked
    <2>9. Away(submittedAt[r] + DelayMs[r], e.send_after)
      BY <2>4 DEF ScheduledInTime
    <2>10. e.send_after \in Nat /\ DelayMs[r] \in Nat
      BY <2>7, DispatcherAssumption DEF TxEntries
    \* ... but it is not ready, since the entry that was taken is less urgent.
    <2>11. e.send_after > clock
      <3>1. Before(e, f)
        BY <2>8 DEF Before
      <3>2. ~(e.send_after <= clock)
        BY <2>4, <2>5, <3>1 DEF TxReady
      <3> QED
        BY <2>2, <2>10, <3>2
    <2> HIDE DEF e, f, b
    <2>12. DelayMs[r] > 0
      BY <2>2, <2>8, <2>10, <2>11
    <2>13. Away(submittedAt[r] + DelayMs[r], clock)
      <3>1. submittedAt[r] + DelayMs[r] \in Nat /\ clock <= e.send_after
        BY <2>2, <2>7, <2>10, <2>11
      <3>2. PICK d \in Nat : d = submittedAt[r] + DelayMs[r]
        BY <3>1
      <3>3. Away(d, e.send_after)
        BY <2>9, <3>2
      <3>4. Away(d, clock)
        BY <2>2, <2>10, <3>1, <3>3, AwayEarlier
      <3> QED
        BY <3>2, <3>4
    <2> QED
      BY <2>12, <2>13
  <1> QED
    BY <1>1, TypeCorrect, NoFrameTwice, NoRequestIsLost, InOrder, RequestsInTime, AsAsked, PTL
       DEF Spec, UrgentNotOvertaken
=============================================================================
