------------------------------ MODULE Timeline ------------------------------
(***************************************************************************)
(* How video keeps step with sound: avd, the microseconds video is ahead   *)
(* of the reference timeline, is moved back by rmdCaptureAudio for every   *)
(* period it reads (by rmdGetFrames itself, from CLOCK_MONOTONIC, when no  *)
(* sound is recorded) and forward by advance_frameno() for every frame.    *)
(* rmdGetFrames reads it three times per turn, each under avd_mutex but    *)
(* with the mutex released in between: the other thread moves it meanwhile.*)
(***************************************************************************)
EXTENDS Integers

CONSTANTS
    frametime_us,  \* duration of a frame
    period_us,     \* duration of a sound period
    MinSleep,      \* a shorter delay is not worth sleeping
    MaxPeriods,    \* bound: periods the sound device delivers
    MaxTime,       \* bound: last instant of the clock
    MaxPauses      \* bound: pauses

ASSUME TimesAssumption ==
    /\ frametime_us \in Nat \ {0} /\ period_us \in Nat /\ MinSleep \in Nat
    /\ MaxPeriods \in Nat /\ MaxTime \in Nat /\ MaxPauses \in Nat

VARIABLES
    nosound,        \* args.nosound
    pc,             \* rmdGetFrames: top, sync, sleep, advance
    avd,            \* pdata->avd
    acquire,        \* what sync_next_frame() returned
    frameno,        \* the local frameno
    paused,         \* pdata->paused
    last_frame_ts,  \* pdata->last_frame_ts, 0 when never set
    clock,          \* CLOCK_MONOTONIC; 0 is never read
    \* history
    periods,        \* periods read from the sound device
    charged,        \* clock time avd has been moved back by
    recorded,       \* clock time spent unpaused since the first frame
    pauses

vars == <<nosound, pc, avd, acquire, frameno, paused, last_frame_ts, clock,
          periods, charged, recorded, pauses>>

Maximum(a, b) == IF a > b THEN a ELSE b
(* Zero in a ProgData no sound device has filled in.                       *)
periodtime_us == IF nosound THEN 0 ELSE period_us
Margin == Maximum(frametime_us, periodtime_us)
FarAhead(d)  == d > Margin
FarBehind(d) == d <= -(2 * Margin)
-----------------------------------------------------------------------------
Init ==
    /\ nosound \in BOOLEAN
    /\ pc = "top"
    /\ avd = 0 /\ acquire = TRUE /\ frameno = 0
    /\ paused = FALSE /\ last_frame_ts = 0 /\ clock = 1
    /\ periods = 0 /\ charged = 0 /\ recorded = 0 /\ pauses = 0

(* The top of rmdGetFrames' loop: sit out a pause or go on.                *)
Top ==
    /\ pc = "top" /\ ~paused
    /\ pc' = "sync"
    /\ UNCHANGED <<nosound, avd, acquire, frameno, paused, last_frame_ts, clock,
                   periods, charged, recorded, pauses>>

(* paused() toggles at the top of the loop only.                           *)
TogglePause ==
    /\ pc = "top" /\ pauses < MaxPauses
    /\ paused' = ~paused
    /\ pauses' = pauses + 1
    /\ UNCHANGED <<nosound, pc, avd, acquire, frameno, last_frame_ts, clock,
                   periods, charged, recorded>>

(* What the clock says has passed since the last frame; with sound, none.  *)
Elapsed == IF nosound /\ last_frame_ts # 0 THEN clock - last_frame_ts ELSE 0

(* sync_next_frame() until it sleeps, or until it returns.                 *)
Sync ==
    /\ pc = "sync"
    /\ avd' = avd - Elapsed
    /\ charged' = charged + Elapsed
    /\ last_frame_ts' = IF nosound THEN clock ELSE last_frame_ts
    /\ IF frametime_us + avd' > MinSleep
       THEN pc' = "sleep" /\ UNCHANGED acquire
       ELSE pc' = "advance" /\ acquire' = ~FarBehind(avd')
    /\ UNCHANGED <<nosound, frameno, paused, clock, periods, recorded, pauses>>

(* nanosleep() returns, when the delay is over or on a signal.             *)
Wake ==
    /\ pc = "sleep"
    /\ pc' = "advance"
    /\ acquire' = ~FarBehind(avd)
    /\ UNCHANGED <<nosound, avd, frameno, paused, last_frame_ts, clock,
                   periods, charged, recorded, pauses>>

(* Deviation: never hold a frame back.                                     *)
IncrementAlways ==
    IF FarBehind(avd) THEN (-avd) \div frametime_us ELSE 1

(* Deviation: one frame per turn, however far behind.                      *)
IncrementByOne == IF FarAhead(avd) THEN 0 ELSE 1

(* Deviation: frames that are late are dropped, not made up for.           *)
IncrementDropped == IF FarAhead(avd) \/ FarBehind(avd) THEN 0 ELSE 1

(* How many frames this turn counts.                                       *)
Increment ==
    IF FarAhead(avd) THEN 0
    ELSE IF FarBehind(avd) THEN (-avd) \div frametime_us
    ELSE 1

(* Deviation: avd moves by one frame, however many were counted.           *)
AdvanceOnce ==
    /\ pc = "advance"
    /\ avd' = avd + frametime_us
    /\ frameno' = frameno + Increment
    /\ pc' = "top"
    /\ UNCHANGED <<nosound, acquire, paused, last_frame_ts, clock,
                   periods, charged, recorded, pauses>>

(* advance_frameno(), and publishing the number when it grew.              *)
Advance ==
    /\ pc = "advance"
    /\ avd' = avd + Increment * frametime_us
    /\ frameno' = frameno + Increment
    /\ pc' = "top"
    /\ UNCHANGED <<nosound, acquire, paused, last_frame_ts, clock,
                   periods, charged, recorded, pauses>>

(* rmdCaptureAudio reads a period; a pause lets the one under way finish.  *)
ReadPeriod ==
    /\ ~nosound /\ periods < MaxPeriods
    /\ avd' = avd - periodtime_us
    /\ periods' = periods + 1
    /\ UNCHANGED <<nosound, pc, acquire, frameno, paused, last_frame_ts, clock,
                   charged, recorded, pauses>>

Tick ==
    /\ nosound /\ clock < MaxTime
    /\ clock' = clock + 1
    /\ recorded' = IF paused \/ last_frame_ts = 0 THEN recorded ELSE recorded + 1
    /\ UNCHANGED <<nosound, pc, avd, acquire, frameno, paused, last_frame_ts,
                   periods, charged, pauses>>

Grab == Top \/ Sync \/ Wake \/ Advance
Next == Grab \/ TogglePause \/ ReadPeriod \/ Tick

Spec == Init /\ [][Next]_vars

(* The scheduler runs rmdGetFrames; nothing else need happen.              *)
FairSpec == Spec /\ WF_vars(Grab)
-----------------------------------------------------------------------------
TypeOK ==
    /\ nosound \in BOOLEAN /\ pc \in {"top", "sync", "sleep", "advance"}
    /\ avd \in Int /\ acquire \in BOOLEAN /\ frameno \in Nat
    /\ paused \in BOOLEAN
    /\ last_frame_ts \in Nat /\ clock \in Nat /\ last_frame_ts <= clock
    /\ periods \in Nat /\ charged \in Nat /\ recorded \in Nat /\ pauses \in Nat

(* No update of avd is lost between the two threads, and none counts twice:*)
(* it is the video's length less the reference's, whatever the order.      *)
NoDrift == avd = frameno * frametime_us - periods * periodtime_us - charged

(* Video is never ahead by more than the margin and the frame then made,   *)
(* which also bounds how long sync_next_frame() sleeps.                    *)
NeverFarAhead == avd <= Margin + frametime_us

(* The decision to leave the picture as it is still stands when frames are *)
(* counted, though avd was read again: such frames are always clones.      *)
SkipOnlyFarBehind == pc = "advance" /\ ~acquire => Increment > 1 /\ FarBehind(avd)

(* Every turn leaves the video less than two margins behind.               *)
CatchesUp == [][pc = "advance" /\ pc' = "top" => ~FarBehind(avd')]_vars

(* Falling far behind is made up for, unless the recording is paused.      *)
EventuallyCaughtUp == FarBehind(avd) ~> (~FarBehind(avd) \/ paused)

(* doc/recordmydesktop.1:41: SIGUSR1 "causes the program to pause".  With   *)
(* no sound, what the video holds is what passed while not paused.         *)
PauseNotRecorded ==
    nosound => frameno * frametime_us <= recorded + Margin + frametime_us
=============================================================================
