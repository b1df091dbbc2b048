-------------------------- MODULE RtcClockProofs --------------------------
(* Unique timestamps, for every width of the integers and every setting of   *)
(* the clock.                                                                *)
EXTENDS RtcClock, TLAPS

\* The time is a u32, whatever the remainder of the elapsed seconds is.
LEMMA TimeInRange ==
    ASSUME TypeOK
    PROVE  GetTime \in U32
<1> DEFINE secs == ((now - base_instant) \div TicksPerSecond) % (MAX_U32 + 1)
<1>1. (now - base_instant) \div TicksPerSecond \in Int
  BY ClockAssumption DEF TypeOK
<1>2. secs \in 0..MAX_U32
  <2>1. MAX_U32 + 1 \in Nat \ {0}
    BY ClockAssumption
  <2>2. \A x \in Int, m \in Nat \ {0} : x % m \in 0..(m - 1)
    OBVIOUS
  <2>3. secs \in 0..((MAX_U32 + 1) - 1)
    BY <1>1, <2>1, <2>2
  <2> QED BY <2>3, ClockAssumption
<1>3. GetTime = IF base_epoch + secs < MAX_U32 THEN base_epoch + secs ELSE MAX_U32
  BY DEF GetTime
<1> HIDE DEF secs
<1> QED BY <1>2, <1>3, ClockAssumption DEF TypeOK, U32

\* A timestamp is above the last one, unless the last one was the greatest.
LEMMA UniqueIsNext ==
    ASSUME TypeOK
    PROVE  Unique \in U32 /\ (last_unique # MAX_U32 => Unique > last_unique)
<1>1. GetTime \in U32 /\ last_unique \in U32
  BY TimeInRange DEF TypeOK
<1>2. CASE GetTime > last_unique
  BY <1>1, <1>2 DEF Unique
<1>3. CASE ~(GetTime > last_unique)
  <2>1. Unique = (last_unique + 1) % (MAX_U32 + 1)
    BY <1>3 DEF Unique
  <2>2. CASE last_unique = MAX_U32
    <3>1. (MAX_U32 + 1) % (MAX_U32 + 1) = 0
      BY ClockAssumption
    <3> QED BY <1>1, <2>1, <2>2, <3>1, ClockAssumption DEF U32
  <2>3. CASE last_unique # MAX_U32
    <3>1. last_unique + 1 \in 0..MAX_U32
      BY <1>1, <2>3, ClockAssumption DEF U32
    <3>2. \A x \in 0..MAX_U32 : x % (MAX_U32 + 1) = x
      BY ClockAssumption
    <3>3. Unique = last_unique + 1
      BY <2>1, <3>1, <3>2
    <3> QED BY <1>1, <3>1, <3>3 DEF U32
  <2> QED BY <2>2, <2>3
<1> QED BY <1>2, <1>3

\* The clock keeps its shape: u32 sums saturate or wrap around (rtc.rs 58-77).
THEOREM TypeCorrect == Spec => []TypeOK
<1>1. Init => TypeOK
  <2> SUFFICES ASSUME Init
               PROVE  TypeOK
    OBVIOUS
  <2>1. repeated \in BOOLEAN /\ wrapped \in BOOLEAN
    BY Zenon DEF Init
  <2> QED BY <2>1, ClockAssumption DEF Init, TypeOK, U32
<1>2. TypeOK /\ [Next]_vars => TypeOK'
  <2> SUFFICES ASSUME TypeOK, [Next]_vars
               PROVE  TypeOK'
    OBVIOUS
  <2>1. CASE Tick
    BY <2>1 DEF TypeOK, Tick
  <2>2. ASSUME NEW epoch \in Epochs, SetTime(epoch)
        PROVE  TypeOK'
    BY <2>2, ClockAssumption DEF TypeOK, SetTime, U32
  <2>3. CASE GetTimeUnique
    <3>1. last_unique' \in U32 /\ issued' \subseteq U32
      BY <2>3, UniqueIsNext DEF TypeOK, GetTimeUnique
    <3>2. repeated' \in BOOLEAN /\ wrapped' \in BOOLEAN
      BY <2>3, Zenon DEF TypeOK, GetTimeUnique
    <3> QED BY <2>3, <3>1, <3>2 DEF TypeOK, GetTimeUnique
  <2>4. CASE UNCHANGED vars
    BY <2>4 DEF TypeOK, vars
  <2> QED BY <2>1, <2>2, <2>3, <2>4 DEF Next
<1> QED BY <1>1, <1>2, PTL DEF Spec

-----------------------------------------------------------------------------
\* Until the wrap, last_unique is the greatest timestamp issued.
IssuedBelow == ~wrapped => ~repeated /\ \A t \in issued : t <= last_unique

\* However set_time() moves the clock, get_time_unique() (rtc.rs 68-77) repeats no
\* timestamp before the u32 is exhausted.
THEOREM TimestampsUnique == Spec => []UniqueUntilMax
<1>1. Init => IssuedBelow
  BY DEF Init, IssuedBelow
<1>2. TypeOK /\ IssuedBelow /\ [Next]_vars => IssuedBelow'
  <2> SUFFICES ASSUME TypeOK, IssuedBelow, [Next]_vars
               PROVE  IssuedBelow'
    OBVIOUS
  <2>1. CASE Tick
    BY <2>1 DEF IssuedBelow, Tick
  <2>2. ASSUME NEW epoch \in Epochs, SetTime(epoch)
        PROVE  IssuedBelow'
    BY <2>2 DEF IssuedBelow, SetTime
  <2>3. CASE GetTimeUnique
    <3>1. SUFFICES ASSUME ~wrapped'
                   PROVE  ~repeated' /\ \A t \in issued' : t <= last_unique'
      BY DEF IssuedBelow
    <3>2. ~wrapped /\ last_unique # MAX_U32
      BY <2>3, <3>1 DEF GetTimeUnique
    <3>3. Unique \in U32 /\ Unique > last_unique
      BY <3>2, UniqueIsNext
    <3>4. ~repeated /\ \A t \in issued : t \in U32 /\ t < Unique
      BY <3>2, <3>3, ClockAssumption DEF IssuedBelow, TypeOK, U32
    <3>5. Unique \notin issued
      BY <3>3, <3>4 DEF U32
    <3>6. ~repeated'
      BY <2>3, <3>4, <3>5 DEF GetTimeUnique
    <3>7. \A t \in issued' : t <= last_unique'
      BY <2>3, <3>3, <3>4 DEF GetTimeUnique, U32
    <3> QED BY <3>6, <3>7
  <2>4. CASE UNCHANGED vars
    BY <2>4 DEF IssuedBelow, vars
  <2> QED BY <2>1, <2>2, <2>3, <2>4 DEF Next
<1>3. IssuedBelow => UniqueUntilMax
  BY DEF IssuedBelow, UniqueUntilMax
<1> QED BY <1>1, <1>2, <1>3, TypeCorrect, PTL DEF Spec
=============================================================================
