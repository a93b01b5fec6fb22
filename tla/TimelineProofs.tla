--------------------------- MODULE TimelineProofs ---------------------------
(***************************************************************************)
(* Theorems about Timeline, for every frame time, period and schedule.     *)
(***************************************************************************)
EXTENDS Timeline, TLAPS

(* What C's division of a non-negative number by a positive one yields.    *)
LEMMA Quotient ==
    ASSUME NEW n \in Nat, NEW d \in Nat, d > 0
    PROVE  /\ n \div d \in Nat
           /\ (n \div d) * d <= n
           /\ n < (n \div d) * d + d
  OBVIOUS

(* The margin is at least a frame.                                         *)
LEMMA MarginValue ==
    ASSUME nosound \in BOOLEAN
    PROVE  Margin \in Nat /\ Margin >= frametime_us
  BY TimesAssumption DEF Margin, Maximum, periodtime_us

(* How far advance_frameno() moves the video, and where that leaves it.    *)
LEMMA IncrementValue ==
    ASSUME nosound \in BOOLEAN, avd \in Int
    PROVE  /\ Increment \in Nat
           /\ avd + Increment * frametime_us \in Int
           /\ ~FarBehind(avd + Increment * frametime_us)
           /\ FarBehind(avd) => Increment > 1
           /\ avd <= Margin + frametime_us
                => avd + Increment * frametime_us <= Margin + frametime_us
<1>1. Margin \in Nat /\ Margin >= frametime_us /\ frametime_us \in Nat /\ frametime_us > 0
  BY MarginValue, TimesAssumption
<1>2. CASE FarAhead(avd)
  BY <1>1, <1>2 DEF Increment, FarAhead, FarBehind
<1>3. CASE ~FarAhead(avd) /\ FarBehind(avd)
  <2> DEFINE q == (-avd) \div frametime_us
  <2>1. Increment = q
    BY <1>3 DEF Increment
  <2>2. -avd \in Nat /\ -avd >= 2 * frametime_us
    BY <1>1, <1>3 DEF FarBehind
  <2>3. q \in Nat /\ q * frametime_us <= -avd /\ -avd < q * frametime_us + frametime_us
    BY <1>1, <2>2, Quotient
  <2> HIDE DEF q
  <2>4. q * frametime_us \in Nat
    BY <1>1, <2>3
  <2>5. q > 1
    <3>1. CASE q = 0
      BY <1>1, <2>2, <2>3, <3>1
    <3>2. CASE q = 1
      BY <1>1, <2>2, <2>3, <3>2
    <3> QED BY <2>3, <3>1, <3>2
  <2> QED BY <1>1, <2>1, <2>3, <2>4, <2>5 DEF FarBehind
<1>4. CASE ~FarAhead(avd) /\ ~FarBehind(avd)
  BY <1>1, <1>4 DEF Increment, FarAhead, FarBehind
<1> QED BY <1>2, <1>3, <1>4
-----------------------------------------------------------------------------
(***************************************************************************)
(* The inductive invariant.  That frames counted without a new picture are *)
(* clones needs no more than that the other thread only moves avd back;    *)
(* the bound ahead, that advance_frameno() adds a frame at most from less  *)
(* than the margin, and never more than there is to make up for.           *)
(***************************************************************************)
StaleInv == pc = "advance" /\ ~acquire => FarBehind(avd)

TimelineInv == TypeOK /\ NoDrift /\ NeverFarAhead /\ StaleInv

(* It holds at the start.                                                  *)
LEMMA InitInv == ASSUME Init PROVE TimelineInv
<1>1. Margin \in Nat /\ Margin >= frametime_us
  BY MarginValue DEF Init
<1>2. 0 * frametime_us = 0 /\ 0 * periodtime_us = 0
  BY TimesAssumption DEF Init, periodtime_us
<1> HIDE DEF Margin, periodtime_us
<1>3. NoDrift
  BY <1>2 DEF Init, NoDrift
<1>4. NeverFarAhead
  BY <1>1, TimesAssumption DEF Init, NeverFarAhead
<1>5. TypeOK
  <2>1. nosound \in BOOLEAN /\ acquire \in BOOLEAN /\ paused \in BOOLEAN
    BY DEF Init
  <2>2. /\ pc \in {"top", "sync", "sleep", "advance"}
        /\ avd \in Int /\ frameno \in Nat /\ last_frame_ts \in Nat /\ clock \in Nat
        /\ last_frame_ts <= clock
        /\ periods \in Nat /\ charged \in Nat /\ recorded \in Nat /\ pauses \in Nat
    BY DEF Init
  <2> QED BY <2>1, <2>2 DEF TypeOK
<1>6. StaleInv
  BY DEF Init, StaleInv
<1> QED BY <1>3, <1>4, <1>5, <1>6 DEF TimelineInv

(* One step of either thread, of the clock or of a pause.                  *)
LEMMA NextInv == ASSUME TimelineInv, [Next]_vars PROVE TimelineInv'
<1> USE DEF TimelineInv, TypeOK
<1>1. /\ nosound' = nosound
      /\ Margin \in Nat /\ Margin >= frametime_us /\ periodtime_us \in Nat
      /\ frametime_us \in Nat /\ frametime_us > 0
  <2>1. nosound' = nosound
    BY DEF Next, Grab, Top, Sync, Wake, Advance, TogglePause, ReadPeriod, Tick, vars
  <2> QED BY <2>1, MarginValue, TimesAssumption DEF periodtime_us
<1>2. Margin' = Margin /\ periodtime_us' = periodtime_us
  BY <1>1 DEF Margin, periodtime_us, Maximum
<1> USE <1>1, <1>2 DEF NoDrift, NeverFarAhead, StaleInv, FarBehind
<1>3. CASE Top
  BY <1>3 DEF Top
<1>4. CASE Sync
  <2>1. Elapsed \in Nat
    BY DEF Elapsed
  <2>2. /\ avd' = avd - Elapsed /\ charged' = charged + Elapsed
        /\ last_frame_ts' = (IF nosound THEN clock ELSE last_frame_ts)
        /\ UNCHANGED <<nosound, frameno, paused, clock, periods, recorded, pauses>>
    BY <1>4, Zenon DEF Sync
  <2>3. \/ pc' = "sleep" /\ acquire' = acquire
        \/ pc' = "advance" /\ acquire' \in BOOLEAN /\ (~acquire' => FarBehind(avd'))
    BY <1>4, Zenon DEF Sync
  <2>4. NoDrift'
    BY <2>1, <2>2
  <2> QED BY <2>1, <2>2, <2>3, <2>4
<1>5. CASE Wake
  <2>1. /\ pc' = "advance" /\ acquire' \in BOOLEAN /\ (~acquire' => FarBehind(avd))
        /\ UNCHANGED <<nosound, avd, frameno, paused, last_frame_ts, clock,
                       periods, charged, recorded, pauses>>
    BY <1>5, Zenon DEF Wake
  <2> QED BY <2>1
<1>6. CASE Advance
  <2>1. Increment \in Nat /\ avd' <= Margin + frametime_us /\ avd' \in Int
    BY <1>6, IncrementValue DEF Advance
  <2>2. frameno' * frametime_us = frameno * frametime_us + Increment * frametime_us
    BY <1>6, <2>1 DEF Advance
  <2>3. NoDrift'
    BY <1>6, <2>1, <2>2 DEF Advance
  <2> QED BY <1>6, <2>1, <2>3 DEF Advance
<1>7. CASE TogglePause
  BY <1>7 DEF TogglePause
<1>8. CASE ReadPeriod
  <2>1. (periods + 1) * periodtime_us = periods * periodtime_us + periodtime_us
    OBVIOUS
  <2>2. nosound = FALSE /\ avd' = avd - periodtime_us /\ periods' = periods + 1
    BY <1>8 DEF ReadPeriod
  <2> QED BY <1>8, <2>1, <2>2 DEF ReadPeriod
<1>9. CASE Tick
  BY <1>9 DEF Tick
<1>10. CASE UNCHANGED vars
  BY <1>10 DEF vars
<1> QED BY <1>3, <1>4, <1>5, <1>6, <1>7, <1>8, <1>9, <1>10 DEF Next, Grab

(* The inductive invariant holds in every reachable state.                 *)
THEOREM TimelineCorrect == Spec => []TimelineInv
<1> QED BY InitInv, NextInv, PTL DEF Spec

(* avd is the video's length less the reference's: no update is lost.      *)
THEOREM AvdExact == Spec => []NoDrift
<1>1. TimelineInv => NoDrift
  BY DEF TimelineInv
<1> QED BY <1>1, TimelineCorrect, PTL

(* Video is never ahead by more than the margin and one frame.             *)
THEOREM AheadBounded == Spec => []NeverFarAhead
<1>1. TimelineInv => NeverFarAhead
  BY DEF TimelineInv
<1> QED BY <1>1, TimelineCorrect, PTL

(* Frames counted without a new picture are clones that make up for time.  *)
THEOREM StaleAreClones == Spec => []SkipOnlyFarBehind
<1>1. ASSUME TimelineInv PROVE SkipOnlyFarBehind
  BY <1>1, IncrementValue DEF TimelineInv, TypeOK, StaleInv, SkipOnlyFarBehind
<1> QED BY <1>1, TimelineCorrect, PTL

(* However far behind it was, a turn leaves it less than two margins so.   *)
THEOREM TurnCatchesUp == Spec => CatchesUp
<1>1. ASSUME TimelineInv, [Next]_vars
      PROVE  [pc = "advance" /\ pc' = "top" => ~FarBehind(avd')]_vars
  <2>1. CASE Advance
    <3>1. nosound' = nosound
      BY <2>1 DEF Advance
    <3>2. Margin' = Margin
      BY <3>1 DEF Margin, Maximum, periodtime_us
    <3>3. avd' = avd + Increment * frametime_us
      BY <2>1 DEF Advance
    <3>4. ~FarBehind(avd + Increment * frametime_us)
      BY <1>1, IncrementValue DEF TimelineInv, TypeOK
    <3> QED BY <3>2, <3>3, <3>4 DEF FarBehind
  <2>2. CASE Top \/ Sync \/ Wake \/ TogglePause \/ ReadPeriod \/ Tick
    BY <2>2 DEF Top, Sync, Wake, TogglePause, ReadPeriod, Tick
  <2> QED BY <1>1, <2>1, <2>2 DEF Next, Grab
<1> QED BY <1>1, TimelineCorrect, PTL DEF Spec, CatchesUp
=============================================================================
