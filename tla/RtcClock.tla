----------------------------- MODULE RtcClock -----------------------------
(* VolatileRtcClock (crates/meshcore-radio/src/rtc.rs): wall-clock seconds   *)
(* that advance from a base epoch with the monotonic clock, and timestamps   *)
(* that are meant to be unique.  Its users share it behind a mutex, so every *)
(* call is one step.  u32 is 0..MAX_U32 with the arithmetic of the release   *)
(* build, where + wraps around.                                              *)
EXTENDS Integers

CONSTANTS
    MAX_U32,         \* u32::MAX
    Epochs,          \* the epochs that may be set, at start or later
    TicksPerSecond,  \* the resolution of Instant
    MaxTicks         \* bound of the model: the monotonic clock stops here

ASSUME ClockAssumption ==
    /\ MAX_U32 \in Nat \ {0}
    /\ Epochs \subseteq 0..MAX_U32
    /\ TicksPerSecond \in Nat \ {0}
    /\ MaxTicks \in Nat

VARIABLES
    now,            \* Instant::now(), in ticks
    base_epoch, base_instant, last_unique,
    issued,         \* history: what get_time_unique() returned
    repeated,       \* history: it returned something a second time
    wrapped         \* history: last_unique + 1 wrapped around

vars == <<now, base_epoch, base_instant, last_unique, issued, repeated, wrapped>>

U32 == 0..MAX_U32

Init ==
    /\ now = 0
    /\ base_epoch \in Epochs /\ base_instant = 0
    /\ last_unique = 0
    /\ issued = {} /\ repeated = FALSE /\ wrapped = FALSE

Tick ==
    /\ now < MaxTicks
    /\ now' = now + 1
    /\ UNCHANGED <<base_epoch, base_instant, last_unique, issued, repeated, wrapped>>

\* get_time(): whole seconds, cast to u32, added with saturation.
GetTime ==
    LET elapsedSecs == ((now - base_instant) \div TicksPerSecond) % (MAX_U32 + 1)
    IN  IF base_epoch + elapsedSecs < MAX_U32 THEN base_epoch + elapsedSecs ELSE MAX_U32

\* set_time(): to any epoch, also an earlier one.
SetTime(epoch) ==
    /\ base_epoch' = epoch
    /\ base_instant' = now
    /\ UNCHANGED <<now, last_unique, issued, repeated, wrapped>>

\* Mutant: only an equal time is pushed on.
Unique_OnlyEqual == IF GetTime # last_unique THEN GetTime ELSE (last_unique + 1) % (MAX_U32 + 1)

\* Mutant: the sum does not wrap around.
Unique_Unbounded == IF GetTime > last_unique THEN GetTime ELSE last_unique + 1

\* The local `unique` of get_time_unique().
Unique == IF GetTime > last_unique THEN GetTime ELSE (last_unique + 1) % (MAX_U32 + 1)

GetTimeUnique ==
    /\ last_unique' = Unique
    /\ issued' = issued \cup {Unique}
    /\ repeated' = (repeated \/ Unique \in issued)
    /\ wrapped' = (wrapped \/ last_unique = MAX_U32)
    /\ UNCHANGED <<now, base_epoch, base_instant>>

Next ==
    \/ Tick
    \/ \E epoch \in Epochs : SetTime(epoch)
    \/ GetTimeUnique

Spec == Init /\ [][Next]_vars
-----------------------------------------------------------------------------
TypeOK ==
    /\ now \in Nat /\ base_instant \in 0..now
    /\ base_epoch \in U32 /\ last_unique \in U32
    /\ issued \subseteq U32
    /\ repeated \in BOOLEAN /\ wrapped \in BOOLEAN

\* However the clock is set, forward or back, and however fast the calls follow each
\* other, no timestamp is issued a second time until the last one possible was.
\* (rtc.rs 19 promises "never"; after u32::MAX the sum of rtc.rs 73 wraps around.)
UniqueUntilMax == repeated => wrapped
=============================================================================
