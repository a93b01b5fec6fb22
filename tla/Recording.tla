----------------------------- MODULE Recording -----------------------------
(***************************************************************************)
(* What the capture phase promises, without its threads: a recording has a *)
(* video track and a sound track, each fed from a source that never waits. *)
(* Video may fall behind the frames counted so far and catches up in one   *)
(* step, in clones; sound is stored period by period.  Neither runs ahead  *)
(* of its source.  Closing the recording may add one frame to the video.   *)
(***************************************************************************)
EXTENDS Naturals

VARIABLES
    open,    \* the recording has not been told to stop
    frames,  \* frames counted by the screen's timeline
    video,   \* of those, the ones the video track accounts for
    extra,   \* frames in the track beyond these
    periods, \* sound periods read
    sound    \* of those, the ones stored, a prefix

recordingVars == <<open, frames, video, extra, periods, sound>>

RecInit ==
    /\ open = TRUE
    /\ frames = 0 /\ video = 0 /\ extra = 0
    /\ periods = 0 /\ sound = 0

Count ==
    /\ frames' \in Nat /\ frames' > frames
    /\ UNCHANGED <<open, video, extra, periods, sound>>

Show ==
    /\ extra = 0
    /\ video' \in Nat /\ video < video' /\ video' <= frames
    /\ UNCHANGED <<open, frames, extra, periods, sound>>

ShowExtra ==
    /\ ~open /\ extra = 0
    /\ extra' = 1
    /\ UNCHANGED <<open, frames, video, periods, sound>>

Hear ==
    /\ periods' = periods + 1
    /\ UNCHANGED <<open, frames, video, extra, sound>>

Store ==
    /\ sound < periods
    /\ sound' = sound + 1
    /\ UNCHANGED <<open, frames, video, extra, periods>>

Close ==
    /\ open' = FALSE
    /\ UNCHANGED <<frames, video, extra, periods, sound>>

RecNext == Count \/ Show \/ ShowExtra \/ Hear \/ Store \/ Close

RecSpec == RecInit /\ [][RecNext]_recordingVars
=============================================================================
