---------------------------- MODULE PacketDedup ----------------------------
(* PacketDedup<N> (crates/meshcore-core/src/dedup.rs): the ring buffer of    *)
(* packet hashes behind duplicate detection.  Its one user owns it, so every *)
(* call is one step.  A packet is a record with the fields payload_type,     *)
(* path_len, payload and direct (route_type().is_direct()); the truncated    *)
(* SHA-256 is taken to be free of collisions.                                *)
EXTENDS Integers

CONSTANTS
    Packets,
    Trace,        \* PayloadType::Trace
    ZERO_HASH,    \* the hash that marks an unused entry
    N,            \* the capacity
    MaxDups       \* bound of the model: the counters stop here

\* packet_hash(): the path and the route type are left out, so copies of a packet
\* that came another way have the same hash; a TRACE keeps its path length.
PacketHash(p) ==
    IF p.payload_type = Trace THEN <<p.payload_type, p.payload, p.path_len>>
    ELSE <<p.payload_type, p.payload>>

Hashes == {PacketHash(p) : p \in Packets}

ASSUME DedupAssumption ==
    /\ N \in Nat \ {0}
    /\ MaxDups \in Nat
    /\ ZERO_HASH \notin Hashes

VARIABLES
    hashes, next_idx,           \* the ring
    direct_dups, flood_dups,    \* the counters
    answer                      \* what the last has_seen() returned

vars == <<hashes, next_idx, direct_dups, flood_dups, answer>>

Indices == 0..(N - 1)

Init ==
    /\ hashes = [i \in Indices |-> ZERO_HASH]
    /\ next_idx = 0
    /\ direct_dups = 0 /\ flood_dups = 0
    /\ answer = FALSE

\* Mutant: the scan stops where the next insertion goes.
Stored_BelowNext(p) == \E i \in 0..(next_idx - 1) : hashes[i] = PacketHash(p)

\* The linear scan of has_seen().
Stored(p) == \E i \in Indices : hashes[i] = PacketHash(p)

\* has_seen() finds the packet.
Duplicate(p) ==
    /\ direct_dups + flood_dups < MaxDups
    /\ Stored(p)
    /\ IF p.direct
       THEN direct_dups' = direct_dups + 1 /\ UNCHANGED flood_dups
       ELSE flood_dups' = flood_dups + 1 /\ UNCHANGED direct_dups
    /\ answer' = TRUE
    /\ UNCHANGED <<hashes, next_idx>>

\* Mutant: the index does not wrap around.
Insert_NoWrap(p) ==
    /\ ~Stored(p)
    /\ hashes' = [hashes EXCEPT ![next_idx] = PacketHash(p)]
    /\ next_idx' = next_idx + 1
    /\ answer' = FALSE
    /\ UNCHANGED <<direct_dups, flood_dups>>

\* has_seen() does not find it.
Insert(p) ==
    /\ ~Stored(p)
    /\ hashes' = [hashes EXCEPT ![next_idx] = PacketHash(p)]
    /\ next_idx' = (next_idx + 1) % N
    /\ answer' = FALSE
    /\ UNCHANGED <<direct_dups, flood_dups>>

\* Mutant: the next insertion fills the hole.
ClearEntry_RefillHole(p) ==
    \E i \in Indices :
        /\ hashes[i] = PacketHash(p)
        /\ hashes' = [hashes EXCEPT ![i] = ZERO_HASH]
        /\ next_idx' = i
        /\ UNCHANGED <<direct_dups, flood_dups, answer>>

\* clear_entry(): the first match, if there is one, becomes a hole; next_idx stays.
ClearEntry(p) ==
    \E i \in Indices :
        /\ hashes[i] = PacketHash(p)
        /\ \A j \in 0..(i - 1) : hashes[j] # PacketHash(p)
        /\ hashes' = [hashes EXCEPT ![i] = ZERO_HASH]
        /\ UNCHANGED <<next_idx, direct_dups, flood_dups, answer>>

ResetStats ==
    /\ direct_dups' = 0 /\ flood_dups' = 0
    /\ UNCHANGED <<hashes, next_idx, answer>>

Next ==
    \/ \E p \in Packets : Duplicate(p) \/ Insert(p) \/ ClearEntry(p)
    \/ ResetStats

Spec == Init /\ [][Next]_vars
-----------------------------------------------------------------------------
TypeOK ==
    /\ hashes \in [Indices -> Hashes \cup {ZERO_HASH}]
    /\ next_idx \in Indices
    /\ direct_dups \in Nat /\ flood_dups \in Nat
    /\ answer \in BOOLEAN

\* No hash is in the ring twice, so that clear_entry, which stops at the first
\* match, leaves no copy behind and the packet is really processed again.
NoRepeats ==
    \A i, j \in Indices : hashes[i] = hashes[j] /\ hashes[i] # ZERO_HASH => i = j

\* The index of what was inserted `age` insertions ago.
Slot(age) == IF age < next_idx THEN next_idx - 1 - age ELSE next_idx - 1 - age + N

\* The ring is the window of the last N insertions: has_seen() answers as the
\* window does, however often it wrapped around and whatever was cleared.
Window == INSTANCE DedupWindow WITH
    Hashes <- Hashes,
    Empty <- ZERO_HASH,
    window <- [age \in Indices |-> hashes[Slot(age)]],
    dups <- direct_dups + flood_dups

ImplementsWindow == Window!Spec
=============================================================================
