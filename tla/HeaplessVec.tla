---------------------------- MODULE HeaplessVec ----------------------------
(* heapless::Vec as the queues of the dispatcher use it (external library):  *)
(* a sequence with a capacity.                                               *)
EXTENDS Integers, Sequences

\* swap_remove(i): the last element takes the place of the removed one, so the
\* order of the others is not kept.
SwapRemove(v, i) ==
    [k \in 1..(Len(v) - 1) |-> IF k = i THEN v[Len(v)] ELSE v[k]]

\* What `iter().map(..).min()` finds in a set of instants; NoTime is None.
NoTime == -1

Earliest(instants) ==
    IF instants = {} THEN NoTime
    ELSE CHOOSE t \in instants : \A u \in instants : t <= u
=============================================================================
