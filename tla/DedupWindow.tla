---------------------------- MODULE DedupWindow ----------------------------
(* What a PacketDedup<N> promises: it remembers the last N hashes inserted,  *)
(* the newest first, whatever was cleared in between.  A cleared place stays *)
(* Empty until it is N insertions old.  PacketDedup.tla implements this.     *)
EXTENDS Integers

CONSTANTS Hashes, Empty, N

VARIABLES
    window,   \* what was inserted 0, 1, ..., N - 1 insertions ago
    dups,     \* duplicates detected since the last reset
    answer    \* what the last has_seen() returned

vars == <<window, dups, answer>>

Ages == 0..(N - 1)

Init ==
    /\ window = [k \in Ages |-> Empty]
    /\ dups = 0
    /\ answer = FALSE

Remembered(h) == \E k \in Ages : window[k] = h

\* has_seen() of something remembered: no place is renewed.
Duplicate(h) ==
    /\ Remembered(h)
    /\ dups' = dups + 1
    /\ answer' = TRUE
    /\ UNCHANGED window

\* has_seen() of something new: what is N insertions old is forgotten.
Insert(h) ==
    /\ ~Remembered(h)
    /\ window' = [k \in Ages |-> IF k = 0 THEN h ELSE window[k - 1]]
    /\ answer' = FALSE
    /\ UNCHANGED dups

Clear(h) ==
    /\ window' = [k \in Ages |-> IF window[k] = h THEN Empty ELSE window[k]]
    /\ UNCHANGED <<dups, answer>>

ResetStats == dups' = 0 /\ UNCHANGED <<window, answer>>

Next ==
    \/ \E h \in Hashes : Duplicate(h) \/ Insert(h) \/ Clear(h)
    \/ ResetStats

Spec == Init /\ [][Next]_vars
=============================================================================
