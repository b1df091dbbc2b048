------------------------------ MODULE TxQueue ------------------------------
(* TxQueue (crates/meshcore-dispatch/src/tx_queue.rs): the bounded queue of  *)
(* packets waiting to be transmitted.  An entry is a record with the fields  *)
(* request (its packet), priority (0 is the most urgent) and send_after.     *)
EXTENDS HeaplessVec

TxEntry(request, priority, sendAfter) ==
    [request |-> request, priority |-> priority, send_after |-> sendAfter]

\* The tuple comparison (priority, send_after) < (priority, send_after).
Before(e, f) ==
    \/ e.priority < f.priority
    \/ e.priority = f.priority /\ e.send_after < f.send_after

\* Mutant: pop_ready does not look at send_after.
TxReady_All(queue, now) == 1..Len(queue)

TxReady(queue, now) == {i \in 1..Len(queue) : queue[i].send_after <= now}

\* Mutant: the first ready entry, whatever its priority.
TxBest_First(queue, now) ==
    CHOOSE i \in TxReady(queue, now) : \A j \in TxReady(queue, now) : i <= j

\* The index pop_ready removes: the least ready entry, the first of equals.
TxBest(queue, now) ==
    CHOOSE i \in TxReady(queue, now) :
        \A j \in TxReady(queue, now) \ {i} :
            \/ Before(queue[i], queue[j])
            \/ ~Before(queue[j], queue[i]) /\ i < j

\* next_ready_time(): whatever its priority, the earliest entry.
TxNextReadyTime(queue) == Earliest({queue[i].send_after : i \in 1..Len(queue)})
=============================================================================
