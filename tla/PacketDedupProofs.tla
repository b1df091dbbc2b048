------------------------- MODULE PacketDedupProofs -------------------------
(* The deduplication table is the window of its last N insertions, for every *)
(* capacity and every set of packets.                                        *)
EXTENDS PacketDedup, TLAPS

\* The index after i, without the remainder: next_idx moves cyclically.
LEMMA NextIndex ==
    ASSUME NEW i \in Indices
    PROVE  (i + 1) % N = IF i + 1 = N THEN 0 ELSE i + 1
<1>1. N \in Nat \ {0} /\ i \in 0..(N - 1)
  BY DedupAssumption DEF Indices
<1>2. CASE i + 1 = N
  <2>1. N % N = 0
    BY <1>1
  <2> QED BY <1>2, <2>1
<1>3. CASE i + 1 # N
  <2>1. i + 1 \in 0..(N - 1)
    BY <1>1, <1>3
  <2>2. \A x \in 0..(N - 1) : x % N = x
    BY <1>1
  <2> QED BY <1>3, <2>1, <2>2
<1> QED BY <1>2, <1>3

\* Ages and indices correspond one to one.
LEMMA SlotIsIndex ==
    ASSUME next_idx \in Indices
    PROVE  /\ \A age \in Indices : Slot(age) \in Indices
           /\ \A i \in Indices : \E age \in Indices : Slot(age) = i
           /\ \A a, b \in Indices : Slot(a) = Slot(b) => a = b
<1>1. N \in Nat \ {0} /\ next_idx \in 0..(N - 1)
  BY DedupAssumption DEF Indices
<1>2. \A age \in Indices : Slot(age) \in Indices
  BY <1>1 DEF Slot, Indices
<1>3. ASSUME NEW i \in Indices
      PROVE  \E age \in Indices : Slot(age) = i
  <2>1. CASE i < next_idx
    <3>1. next_idx - 1 - i \in Indices /\ Slot(next_idx - 1 - i) = i
      BY <1>1, <2>1 DEF Slot, Indices
    <3> QED BY <3>1
  <2>2. CASE i >= next_idx
    <3>1. next_idx - 1 - i + N \in Indices /\ Slot(next_idx - 1 - i + N) = i
      BY <1>1, <2>2 DEF Slot, Indices
    <3> QED BY <3>1
  <2> QED BY <1>1, <2>1, <2>2 DEF Indices
<1>4. \A a, b \in Indices : Slot(a) = Slot(b) => a = b
  BY <1>1 DEF Slot, Indices
<1> QED BY <1>2, <1>3, <1>4

-----------------------------------------------------------------------------
\* The ring keeps its shape: next_idx (dedup.rs 108) never leaves the array, however
\* often has_seen() inserts.
THEOREM TypeCorrect == Spec => []TypeOK
<1>1. Init => TypeOK
  <2> SUFFICES ASSUME Init
               PROVE  TypeOK
    OBVIOUS
  <2>1. hashes \in [Indices -> Hashes \cup {ZERO_HASH}]
    BY DEF Init
  <2>2. next_idx \in Indices /\ direct_dups \in Nat /\ flood_dups \in Nat
    BY DedupAssumption DEF Init, Indices
  <2>3. answer \in BOOLEAN
    BY Zenon DEF Init
  <2> QED BY <2>1, <2>2, <2>3 DEF TypeOK
<1>2. TypeOK /\ [Next]_vars => TypeOK'
  <2> SUFFICES ASSUME TypeOK, [Next]_vars
               PROVE  TypeOK'
    OBVIOUS
  <2> USE DEF TypeOK
  <2>1. ASSUME NEW p \in Packets, Duplicate(p)
        PROVE  TypeOK'
    BY <2>1 DEF Duplicate
  <2>2. ASSUME NEW p \in Packets, Insert(p)
        PROVE  TypeOK'
    <3>1. next_idx' \in Indices
      BY <2>2, NextIndex, DedupAssumption DEF Insert, Indices
    <3>2. hashes' \in [Indices -> Hashes \cup {ZERO_HASH}]
      BY <2>2 DEF Insert, Hashes
    <3> QED BY <2>2, <3>1, <3>2 DEF Insert
  <2>3. ASSUME NEW p \in Packets, ClearEntry(p)
        PROVE  TypeOK'
    BY <2>3 DEF ClearEntry
  <2>4. CASE ResetStats
    BY <2>4 DEF ResetStats
  <2>5. CASE UNCHANGED vars
    BY <2>5 DEF vars
  <2> QED BY <2>1, <2>2, <2>3, <2>4, <2>5 DEF Next
<1> QED BY <1>1, <1>2, PTL DEF Spec

\* No hash is in the ring twice: has_seen() (dedup.rs 85-109) inserts only what its
\* scan did not find.
THEOREM StoredOnce == Spec => []NoRepeats
<1>1. Init => NoRepeats
  BY DEF Init, NoRepeats
<1>2. TypeOK /\ NoRepeats /\ [Next]_vars => NoRepeats'
  <2> SUFFICES ASSUME TypeOK, NoRepeats, [Next]_vars
               PROVE  NoRepeats'
    OBVIOUS
  <2>1. ASSUME NEW p \in Packets, Duplicate(p)
        PROVE  NoRepeats'
    BY <2>1 DEF Duplicate, NoRepeats
  <2>2. ASSUME NEW p \in Packets, Insert(p)
        PROVE  NoRepeats'
    BY <2>2 DEF Insert, Stored, NoRepeats, TypeOK
  <2>3. ASSUME NEW p \in Packets, ClearEntry(p)
        PROVE  NoRepeats'
    BY <2>3 DEF ClearEntry, NoRepeats, TypeOK
  <2>4. CASE ResetStats
    BY <2>4 DEF ResetStats, NoRepeats
  <2>5. CASE UNCHANGED vars
    BY <2>5 DEF vars, NoRepeats
  <2> QED BY <2>1, <2>2, <2>3, <2>4, <2>5 DEF Next
<1> QED BY <1>1, <1>2, TypeCorrect, PTL DEF Spec
-----------------------------------------------------------------------------
\* What an insertion does to the indices: the newest is where next_idx was, what was
\* k - 1 insertions old is now k insertions old, and the oldest is overwritten.
LEMMA SlotAfterInsert ==
    ASSUME next_idx \in Indices, next_idx' = (next_idx + 1) % N
    PROVE  /\ Slot(0)' = next_idx
           /\ \A k \in Indices \ {0} : Slot(k)' = Slot(k - 1) /\ Slot(k - 1) # next_idx
<1>1. N \in Nat \ {0} /\ next_idx \in 0..(N - 1)
  BY DedupAssumption DEF Indices
<1>2. next_idx' = IF next_idx + 1 = N THEN 0 ELSE next_idx + 1
  BY NextIndex
<1>3. Slot(0)' = next_idx
  BY <1>1, <1>2 DEF Slot
<1>4. ASSUME NEW k \in Indices \ {0}
      PROVE  Slot(k)' = Slot(k - 1) /\ Slot(k - 1) # next_idx
  <2>1. k \in 1..(N - 1)
    BY <1>1 DEF Indices
  <2>2. CASE next_idx + 1 = N
    BY <1>1, <1>2, <2>1, <2>2 DEF Slot
  <2>3. CASE next_idx + 1 # N
    BY <1>1, <1>2, <2>1, <2>3 DEF Slot
  <2> QED BY <2>2, <2>3
<1> QED BY <1>3, <1>4

\* PacketDedup implements DedupWindow: has_seen() and clear_entry() (dedup.rs 85-122)
\* answer and forget exactly as the window of the last N insertions does.
THEOREM RingIsWindow == Spec => ImplementsWindow
<1> DEFINE W == [age \in Indices |-> hashes[Slot(age)]]
<1>1. Init => Window!Init
  <2> SUFFICES ASSUME Init
               PROVE  Window!Init
    OBVIOUS
  <2>1. next_idx \in Indices
    BY DedupAssumption DEF Init, Indices
  <2>2. \A age \in Indices : W[age] = ZERO_HASH
    BY <2>1, SlotIsIndex DEF Init
  <2>3. W = [k \in Indices |-> ZERO_HASH]
    BY <2>2
  <2>4. direct_dups + flood_dups = 0 /\ answer = FALSE
    BY DEF Init
  <2> QED BY <2>3, <2>4 DEF Window!Init, Window!Ages, Indices
<1>2. TypeOK /\ NoRepeats /\ [Next]_vars => [Window!Next]_(Window!vars)
  <2> SUFFICES ASSUME TypeOK, NoRepeats, [Next]_vars
               PROVE  [Window!Next]_(Window!vars)
    OBVIOUS
  <2>1. next_idx \in Indices
    BY DEF TypeOK
  <2>2. ASSUME NEW p \in Packets
        PROVE  Window!Remembered(PacketHash(p)) <=> Stored(p)
    BY <2>1, SlotIsIndex DEF Window!Remembered, Window!Ages, Stored, Indices
  <2>3. ASSUME NEW p \in Packets, Duplicate(p)
        PROVE  Window!Duplicate(PacketHash(p))
    <3>1. W' = W
      BY <2>3 DEF Duplicate, Slot
    <3>2. direct_dups' + flood_dups' = direct_dups + flood_dups + 1
      BY <2>3 DEF Duplicate, TypeOK
    <3>3. Stored(p) /\ answer' = TRUE
      BY <2>3 DEF Duplicate
    <3> QED BY <2>2, <3>1, <3>2, <3>3 DEF Window!Duplicate
  <2>4. ASSUME NEW p \in Packets, Insert(p)
        PROVE  Window!Insert(PacketHash(p))
    <3>1. next_idx' = (next_idx + 1) % N
      BY <2>4 DEF Insert
    <3>2. /\ Slot(0)' = next_idx
          /\ \A k \in Indices \ {0} : Slot(k)' = Slot(k - 1) /\ Slot(k - 1) # next_idx
      BY <2>1, <3>1, SlotAfterInsert
    <3>3. hashes' = [hashes EXCEPT ![next_idx] = PacketHash(p)]
      BY <2>4 DEF Insert
    <3>4. ASSUME NEW k \in Indices
          PROVE  hashes'[Slot(k)'] = IF k = 0 THEN PacketHash(p) ELSE W[k - 1]
      <4>1. CASE k = 0
        BY <2>1, <3>2, <3>3, <4>1 DEF TypeOK
      <4>2. CASE k # 0
        <5>1. k - 1 \in Indices
          BY <4>2, DedupAssumption DEF Indices
        <5>2. Slot(k - 1) \in Indices
          BY <2>1, <5>1, SlotIsIndex
        <5>3. hashes'[Slot(k)'] = hashes[Slot(k - 1)]
          BY <3>2, <3>3, <4>2, <5>2 DEF TypeOK
        <5> QED BY <4>2, <5>1, <5>3
      <4> QED BY <4>1, <4>2
    <3>5. W' = [k \in Indices |-> IF k = 0 THEN PacketHash(p) ELSE W[k - 1]]
      BY <3>4
    <3>6. ~Stored(p) /\ answer' = FALSE
      BY <2>4 DEF Insert
    <3>7. direct_dups' + flood_dups' = direct_dups + flood_dups
      BY <2>4 DEF Insert
    <3> QED BY <2>2, <3>5, <3>6, <3>7 DEF Window!Insert, Window!Ages, Indices
  <2>5. ASSUME NEW p \in Packets, ClearEntry(p)
        PROVE  Window!Clear(PacketHash(p))
    <3>1. PICK i \in Indices : /\ hashes[i] = PacketHash(p)
                               /\ hashes' = [hashes EXCEPT ![i] = ZERO_HASH]
      BY <2>5 DEF ClearEntry
    <3>2. PacketHash(p) # ZERO_HASH
      BY DedupAssumption DEF Hashes
    <3>3. UNCHANGED <<next_idx, direct_dups, flood_dups, answer>>
      BY <2>5 DEF ClearEntry
    <3>4. ASSUME NEW k \in Indices
          PROVE  hashes'[Slot(k)'] = IF W[k] = PacketHash(p) THEN ZERO_HASH ELSE W[k]
      <4>1. Slot(k)' = Slot(k) /\ Slot(k) \in Indices
        BY <2>1, <3>3, SlotIsIndex DEF Slot
      <4>2. hashes[Slot(k)] = PacketHash(p) => Slot(k) = i
        BY <3>1, <3>2, <4>1 DEF NoRepeats
      <4> QED BY <3>1, <4>1, <4>2 DEF TypeOK
    <3>5. W' = [k \in Indices |-> IF W[k] = PacketHash(p) THEN ZERO_HASH ELSE W[k]]
      BY <3>4
    <3> QED BY <3>3, <3>5 DEF Window!Clear, Window!Ages, Indices
  <2>6. CASE ResetStats
    <3>1. W' = W
      BY <2>6 DEF ResetStats, Slot
    <3>2. direct_dups' + flood_dups' = 0 /\ UNCHANGED answer
      BY <2>6 DEF ResetStats
    <3> QED BY <3>1, <3>2 DEF Window!Next, Window!ResetStats
  <2>7. CASE UNCHANGED vars
    BY <2>7 DEF vars, Slot, Window!vars
  <2>8. \A p \in Packets : PacketHash(p) \in Hashes
    BY DEF Hashes
  <2> QED BY <2>3, <2>4, <2>5, <2>6, <2>7, <2>8 DEF Next, Window!Next
<1> QED BY <1>1, <1>2, TypeCorrect, StoredOnce, PTL DEF Spec, ImplementsWindow, Window!Spec
=============================================================================
