--------------------------- MODULE CaptureProofs ---------------------------
(***************************************************************************)
(* Theorems about Capture, for every set of command lines and every bound. *)
(***************************************************************************)
EXTENDS Capture, SequenceTheorems, TLAPS

(* Every variable keeps to its values.                                     *)
THEOREM TypeCorrect == Spec => []TypeOK
<1> USE BoundsAssumption
    DEF Thread, Cond, Label, MainLabels, GrabLabels, ImgLabels, SndLabels, AudLabels,
        controlVars, imageVars, soundVars, cleanVars, At, Go
<1>1. ASSUME Init PROVE TypeOK
  <2> USE <1>1 DEF Init
  <2>1. pc \in [Thread -> Label]
    OBVIOUS
  <2>2. /\ pc["main"] \in MainLabels /\ pc["grab"] \in GrabLabels
        /\ pc["img"] \in ImgLabels /\ pc["snd"] \in SndLabels /\ pc["aud"] \in AudLabels
    OBVIOUS
  <2>3. sound_buffer \in Seq(Nat)
    OBVIOUS
  <2>4. waiters \in [Cond -> SUBSET Thread]
    OBVIOUS
  <2>5. /\ frameno \in 0..MaxFrames /\ capture_frameno \in 0..MaxFrames
        /\ encode_frameno \in 0..MaxFrames /\ last_encode_frameno \in 0..MaxFrames
        /\ buff \in Nat /\ emitted \in Nat /\ captured \in Nat /\ written \in Nat
        /\ pausedPeriods \in Nat /\ pauses \in 0..MaxPauses /\ spurious \in 0..MaxSpurious
    OBVIOUS
  <2>6. /\ running \in BOOLEAN /\ aborted \in BOOLEAN /\ args \in Args
        /\ paused \in BOOLEAN /\ pause_state_changed \in BOOLEAN
        /\ th_encoding_clean \in BOOLEAN /\ v_encoding_clean \in BOOLEAN
    OBVIOUS
  <2> HIDE <1>1 DEF Init, Label, MainLabels, GrabLabels, ImgLabels, SndLabels, AudLabels, Thread, Cond
  <2> QED BY <2>1, <2>2, <2>3, <2>4, <2>5, <2>6 DEF TypeOK
<1>2. ASSUME TypeOK, [Next]_vars PROVE TypeOK'
  <2> USE <1>2 DEF TypeOK
  <2>1. CASE Grab
    <3>1. CASE GrabLoop
      BY <3>1 DEF GrabLoop
    <3>2. CASE GrabPaused
      BY <3>2 DEF GrabPaused, Broadcast
    <3>3. ASSUME NEW n \in 0..MaxClone, GrabAdvance(n) PROVE TypeOK'
      BY <3>3 DEF GrabAdvance
    <3>4. CASE GrabPublish
      BY <3>4 DEF GrabPublish, Signal
    <3>5. CASE GrabSignalExit
      BY <3>5 DEF GrabSignalExit, Signal
    <3>6. CASE GrabUnpauseExit
      BY <3>6 DEF GrabUnpauseExit, Broadcast
    <3> QED BY <2>1, <3>1, <3>2, <3>3, <3>4, <3>5, <3>6 DEF Grab
  <2>2. CASE Img
    <3>1. CASE ImgStart
      BY <3>1 DEF ImgStart
    <3>2. CASE ImgLoop
      BY <3>2 DEF ImgLoop, ImgTop
    <3>3. CASE ImgPause
      BY <3>3 DEF ImgPause, Wait
    <3>4. CASE ImgTest
      BY <3>4 DEF ImgTest
    <3>5. CASE ImgWait
      BY <3>5 DEF ImgWait, Wait
    <3>6. CASE ImgSink
      BY <3>6 DEF ImgSink, FramesFor
    <3>7. CASE ImgEncoderNotReady
      BY <3>7 DEF ImgEncoderNotReady
    <3>8. CASE ImgFinish
      BY <3>8 DEF ImgFinish
    <3> QED BY <2>2, <3>1, <3>2, <3>3, <3>4, <3>5, <3>6, <3>7, <3>8 DEF Img
  <2>3. CASE Snd
    <3>1. CASE SndLoop
      BY <3>1 DEF SndLoop
    <3>2. CASE SndCheck
      BY <3>2 DEF SndCheck
    <3>3. CASE SndWait
      BY <3>3 DEF SndWait, Wait
    <3>4. CASE SndResume
      BY <3>4 DEF SndResume
    <3>5. CASE SndReopenFails
      BY <3>5 DEF SndReopenFails
    <3>6. CASE SndRead
      BY <3>6 DEF SndRead
    <3>7. CASE SndQueue
      BY <3>7 DEF SndQueue, Signal
    <3> QED BY <2>3, <3>1, <3>2, <3>3, <3>4, <3>5, <3>6, <3>7 DEF Snd
  <2>4. CASE Aud
    <3>1. CASE AudStart
      BY <3>1 DEF AudStart
    <3>2. CASE AudLoop
      BY <3>2 DEF AudLoop
    <3>3. CASE AudPause
      BY <3>3 DEF AudPause, Wait
    <3>4. CASE AudTest
      <4>1. sound_buffer' \in Seq(Nat) /\ buff' \in Nat
        <5>1. CASE sound_buffer # <<>>
          <6>1. Head(sound_buffer) \in Nat /\ Tail(sound_buffer) \in Seq(Nat)
            BY <5>1, HeadTailProperties
          <6>2. sound_buffer' = Tail(sound_buffer) /\ buff' = Head(sound_buffer)
            BY <3>4, <5>1, Zenon DEF AudTest
          <6> QED BY <6>1, <6>2
        <5>2. CASE sound_buffer = <<>>
          <6> HIDE DEF Label, MainLabels, GrabLabels, ImgLabels, SndLabels, AudLabels, Thread, Cond
          <6>1. sound_buffer' = sound_buffer /\ (buff' = buff \/ buff' = 0)
            BY <3>4, <5>2 DEF AudTest
          <6> QED BY <6>1
        <5> QED BY <5>1, <5>2
      <4>2. /\ pc' = [pc EXCEPT !["aud"] = "towait"] \/ pc' = [pc EXCEPT !["aud"] = "check"]
            /\ UNCHANGED <<controlVars, waiters, imageVars, cleanVars, captured,
                           written, pausedPeriods>>
        BY <3>4, Zenon DEF AudTest
      <4> QED BY <4>1, <4>2
    <3>5. CASE AudWait
      BY <3>5 DEF AudWait, Wait
    <3>6. CASE AudCheck
      BY <3>6 DEF AudCheck
    <3>7. CASE AudSink
      BY <3>7 DEF AudSink
    <3>8. CASE AudFinish
      BY <3>8 DEF AudFinish
    <3> QED BY <2>4, <3>1, <3>2, <3>3, <3>4, <3>5, <3>6, <3>7, <3>8 DEF Aud
  <2>5. CASE Main
    <3>1. CASE rmdRegisterCallbacks
      BY <3>1 DEF rmdRegisterCallbacks
    <3>2. CASE MainJoinGrab
      BY <3>2 DEF MainJoinGrab
    <3>3. CASE MainWakeImg
      BY <3>3 DEF MainWakeImg, Signal
    <3>4. CASE MainJoinImg
      BY <3>4 DEF MainJoinImg
    <3>5. CASE MainJoinSnd
      BY <3>5 DEF MainJoinSnd
    <3>6. CASE MainWakeAud
      BY <3>6 DEF MainWakeAud, Signal
    <3>7. CASE MainJoinAud
      BY <3>7 DEF MainJoinAud
    <3> QED BY <2>5, <3>1, <3>2, <3>3, <3>4, <3>5, <3>6, <3>7 DEF Main
  <2>6. CASE Signals
    <3>1. CASE rmdSetPaused
      BY <3>1 DEF rmdSetPaused
    <3>2. ASSUME NEW s \in EndSignals, rmdSetRunning(s) PROVE TypeOK'
      <4>1. aborted' \in BOOLEAN
        BY <3>2, Zenon DEF rmdSetRunning
      <4>2. /\ running' = FALSE
            /\ UNCHANGED <<args, pc, paused, pause_state_changed, waiters, imageVars,
                           soundVars, cleanVars, pauses, spurious>>
        BY <3>2, Zenon DEF rmdSetRunning
      <4> HIDE DEF Label, MainLabels, GrabLabels, ImgLabels, SndLabels, AudLabels, Thread, Cond
      <4> QED BY <4>1, <4>2
    <3>3. ASSUME NEW t \in Thread, NEW c \in Cond, SpuriousWakeup(t, c) PROVE TypeOK'
      BY <3>3 DEF SpuriousWakeup
    <3> QED BY <2>6, <3>1, <3>2, <3>3 DEF Signals
  <2>7. CASE UNCHANGED vars
    BY <2>7 DEF vars
  <2> QED BY <1>2, <2>1, <2>2, <2>3, <2>4, <2>5, <2>6, <2>7 DEF Next
<1>3. QED BY <1>1, <1>2, PTL DEF Spec
-----------------------------------------------------------------------------
(***************************************************************************)
(* The video track.  FramesInStep is not inductive: that the consumer does *)
(* not emit a frame twice while running rests on where it can be when      *)
(* encode_frameno equals last_encode_frameno, and that it adds one frame   *)
(* at most, on where it is once it has.                                    *)
(***************************************************************************)
HasFrame == At("img", "sink") \/ (~args.encOnTheFly /\ At("img", "pause"))

FrameInv ==
    /\ NumbersInOrder
    /\ HasFrame => (encode_frameno > last_encode_frameno \/ ~running)
    /\ \/ emitted = last_encode_frameno
       \/ /\ emitted = last_encode_frameno + 1
          /\ ~running /\ pc["img"] \in {"loop", "finish", "done"}

(* The other threads and the signals leave the consumer of frames alone.   *)
LEMMA ImageUntouched ==
    ASSUME TypeOK, Snd \/ Aud \/ Main \/ Signals
    PROVE  /\ UNCHANGED <<imageVars, args>> /\ pc'["img"] = pc["img"]
           /\ ~running => ~running'
<1> USE DEF TypeOK, Thread, controlVars, At, Go
<1>1. CASE Snd
  BY <1>1 DEF Snd, SndLoop, SndCheck, SndWait, SndResume, SndReopenFails, SndRead, SndQueue
<1>2. CASE Aud
  <2> USE DEF imageVars
  <2>1. CASE AudTest
    <3>1. /\ \E l \in AudLabels : pc' = [pc EXCEPT !["aud"] = l]
          /\ UNCHANGED <<imageVars, args, running>>
      BY <2>1 DEF AudTest, AudLabels, ImgLabels
    <3> QED BY <3>1
  <2>2. CASE AudPause
    BY <2>2 DEF AudPause
  <2>3. CASE AudStart
    BY <2>3 DEF AudStart
  <2>4. CASE AudLoop \/ AudCheck
    BY <2>4 DEF AudLoop, AudCheck
  <2>5. CASE AudWait
    BY <2>5 DEF AudWait
  <2>6. CASE AudSink
    BY <2>6 DEF AudSink
  <2>7. CASE AudFinish
    BY <2>7 DEF AudFinish
  <2> QED BY <1>2, <2>1, <2>2, <2>3, <2>4, <2>5, <2>6, <2>7 DEF Aud
<1>3. CASE Main
  BY <1>3 DEF Main, rmdRegisterCallbacks, MainJoinGrab, MainWakeImg, MainJoinImg,
              MainJoinSnd, MainWakeAud, MainJoinAud
<1>4. CASE Signals
  BY <1>4 DEF Signals, rmdSetPaused, rmdSetRunning, SpuriousWakeup
<1> QED BY <1>1, <1>2, <1>3, <1>4

(* The numbers and the frames emitted, in every reachable state.           *)
THEOREM FramesCorrect == Spec => []FrameInv
<1> USE DEF At, Go
<1>1. ASSUME Init PROVE FrameInv
  BY <1>1 DEF Init, FrameInv, NumbersInOrder, HasFrame, Thread
<1>2. ASSUME TypeOK, FrameInv, [Next]_vars PROVE FrameInv'
  <2> USE <1>2 DEF TypeOK, FrameInv, NumbersInOrder, HasFrame, Thread, ImgLabels
  <2>1. CASE Grab
    <3>1. CASE GrabLoop
      BY <3>1 DEF GrabLoop, controlVars, imageVars
    <3>2. CASE GrabPaused
      BY <3>2 DEF GrabPaused, imageVars
    <3>3. ASSUME NEW n \in 0..MaxClone, GrabAdvance(n) PROVE FrameInv'
      BY <3>3, BoundsAssumption DEF GrabAdvance, controlVars
    <3>4. CASE GrabPublish
      BY <3>4, BoundsAssumption DEF GrabPublish, controlVars
    <3>5. CASE GrabSignalExit
      BY <3>5 DEF GrabSignalExit, controlVars, imageVars
    <3>6. CASE GrabUnpauseExit
      BY <3>6 DEF GrabUnpauseExit, controlVars, imageVars
    <3> QED BY <2>1, <3>1, <3>2, <3>3, <3>4, <3>5, <3>6 DEF Grab
  <2>2. CASE Img
    <3> USE DEF controlVars, imageVars
    <3>1. CASE ImgStart
      BY <3>1 DEF ImgStart
    <3>2. CASE ImgLoop
      BY <3>2 DEF ImgLoop, ImgTop
    <3>3. CASE ImgPause
      BY <3>3 DEF ImgPause
    <3>4. CASE ImgTest
      BY <3>4, BoundsAssumption DEF ImgTest
    <3>5. CASE ImgWait
      BY <3>5 DEF ImgWait
    <3>6. CASE ImgSink
      BY <3>6, BoundsAssumption DEF ImgSink, FramesFor
    <3>7. CASE ImgEncoderNotReady
      BY <3>7 DEF ImgEncoderNotReady
    <3>8. CASE ImgFinish
      BY <3>8 DEF ImgFinish
    <3> QED BY <2>2, <3>1, <3>2, <3>3, <3>4, <3>5, <3>6, <3>7, <3>8 DEF Img
  <2>3. CASE Snd \/ Aud \/ Main \/ Signals
    <3>1. /\ UNCHANGED <<imageVars, args>> /\ pc'["img"] = pc["img"]
          /\ ~running => ~running'
      BY <2>3, ImageUntouched
    <3> QED BY <3>1 DEF imageVars
  <2>4. CASE UNCHANGED vars
    BY <2>4 DEF vars
  <2> QED BY <1>2, <2>1, <2>2, <2>3, <2>4 DEF Next
<1>3. QED BY <1>1, <1>2, TypeCorrect, PTL DEF Spec

(* The length of the video agrees with the timeline, up to one last frame. *)
THEOREM VideoLength == Spec => []FramesInStep
<1>1. FrameInv => FramesInStep
  BY DEF FrameInv, FramesInStep
<1> QED BY <1>1, FramesCorrect, PTL
-----------------------------------------------------------------------------
(***************************************************************************)
(* The sound track.  That periods stay in order rests on the consumer's    *)
(* hand being empty when it comes for the next one, and that it never      *)
(* works on NULL, on running being FALSE once it leaves without a period.  *)
(***************************************************************************)
HandEmpty == pc["aud"] \in {"start", "loop", "pause", "test", "towait"}

SoundInv ==
    /\ AudioInOrder
    /\ HandEmpty => buff = 0
    /\ NoNullBuffer
    /\ At("aud", "check") /\ buff = 0 => ~running

(* The image threads, rmdThreads and the signals do not touch the sound.   *)
LEMMA SoundUntouched ==
    ASSUME TypeOK, Grab \/ Img \/ Main \/ Signals
    PROVE  /\ UNCHANGED <<sound_buffer, buff, captured, written>>
           /\ pc'["snd"] = pc["snd"] /\ pc'["aud"] = pc["aud"]
           /\ ~running => ~running'
<1> USE DEF TypeOK, Thread, controlVars, soundVars, At, Go
<1>1. CASE Grab
  <2>1. CASE GrabLoop
    BY <2>1 DEF GrabLoop
  <2>2. CASE GrabPaused
    BY <2>2 DEF GrabPaused
  <2>3. CASE \E n \in 0..MaxClone : GrabAdvance(n)
    BY <2>3 DEF GrabAdvance
  <2>4. CASE GrabPublish
    BY <2>4 DEF GrabPublish
  <2>5. CASE GrabSignalExit
    BY <2>5 DEF GrabSignalExit
  <2>6. CASE GrabUnpauseExit
    BY <2>6 DEF GrabUnpauseExit
  <2> QED
    BY <1>1, <2>1, <2>2, <2>3, <2>4, <2>5, <2>6 DEF Grab
<1>2. CASE Img
  <2>1. CASE ImgTest
    <3>1. /\ \E l \in ImgLabels : pc' = [pc EXCEPT !["img"] = l]
          /\ UNCHANGED <<soundVars, running>>
      BY <2>1 DEF ImgTest, ImgLabels
    <3> QED BY <3>1
  <2>2. CASE ImgStart
    BY <2>2 DEF ImgStart
  <2>3. CASE ImgLoop
    BY <2>3 DEF ImgLoop
  <2>4. CASE ImgPause
    BY <2>4 DEF ImgPause
  <2>5. CASE ImgWait
    BY <2>5 DEF ImgWait
  <2>6. CASE ImgSink
    BY <2>6 DEF ImgSink
  <2>7. CASE ImgEncoderNotReady
    BY <2>7 DEF ImgEncoderNotReady
  <2>8. CASE ImgFinish
    BY <2>8 DEF ImgFinish
  <2> QED BY <1>2, <2>1, <2>2, <2>3, <2>4, <2>5, <2>6, <2>7, <2>8 DEF Img
<1>3. CASE Main
  BY <1>3 DEF Main, rmdRegisterCallbacks, MainJoinGrab, MainWakeImg, MainJoinImg,
              MainJoinSnd, MainWakeAud, MainJoinAud
<1>4. CASE Signals
  BY <1>4 DEF Signals, rmdSetPaused, rmdSetRunning, SpuriousWakeup
<1> QED BY <1>1, <1>2, <1>3, <1>4

(* A queue of consecutive numbers stays one when the next is appended ...  *)
LEMMA QueueAppend ==
    ASSUME NEW q \in Seq(Nat), NEW base \in Nat, NEW next \in Nat,
           next = base + Len(q) + 1,
           \A i \in 1..Len(q) : q[i] = base + i
    PROVE  /\ Len(Append(q, next)) = Len(q) + 1
           /\ \A i \in 1..Len(Append(q, next)) : Append(q, next)[i] = base + i
<1>1. /\ Len(q) \in Nat
      /\ Len(Append(q, next)) = Len(q) + 1
      /\ \A i \in 1..Len(q) : Append(q, next)[i] = q[i]
      /\ Append(q, next)[Len(q) + 1] = next
  BY AppendProperties, LenProperties
<1>2. ASSUME NEW i \in 1..(Len(q) + 1) PROVE Append(q, next)[i] = base + i
  <2>1. CASE i = Len(q) + 1
    BY <1>1, <2>1
  <2>2. CASE i \in 1..Len(q)
    BY <1>1, <2>2
  <2> QED BY <1>1, <2>1, <2>2
<1> QED BY <1>1, <1>2

(* ... and when the oldest is taken off.                                   *)
LEMMA QueueTail ==
    ASSUME NEW q \in Seq(Nat), NEW base \in Nat, q # <<>>,
           \A i \in 1..Len(q) : q[i] = base + i
    PROVE  /\ Head(q) = base + 1
           /\ Len(Tail(q)) = Len(q) - 1 /\ Len(q) \in Nat
           /\ \A i \in 1..Len(Tail(q)) : Tail(q)[i] = base + 1 + i
<1>1. Len(q) \in Nat /\ Len(q) > 0
  BY EmptySeq, LenProperties
<1>2. Head(q) = q[1]
  OBVIOUS
<1>3. /\ Len(Tail(q)) = Len(q) - 1
      /\ \A i \in 1..Len(Tail(q)) : Tail(q)[i] = q[i+1]
  BY HeadTailProperties
<1>4. ASSUME NEW i \in 1..Len(Tail(q)) PROVE Tail(q)[i] = base + 1 + i
  <2>1. i + 1 \in 1..Len(q)
    BY <1>1, <1>3
  <2>2. Tail(q)[i] = base + (i + 1)
    BY <1>3, <2>1
  <2> QED BY <2>2
<1> QED BY <1>1, <1>2, <1>3, <1>4

(* The queue, the period in hand and the ones stored, in every state.      *)
THEOREM SoundCorrect == Spec => []SoundInv
<1> USE DEF At, Go, InHand, InFlight, NoNullBuffer, HandEmpty, Thread
<1>1. ASSUME Init PROVE SoundInv
  BY <1>1 DEF Init, SoundInv, AudioInOrder
<1>2. ASSUME TypeOK, SoundInv, [Next]_vars PROVE SoundInv'
  <2> USE <1>2 DEF TypeOK, SoundInv, AudioInOrder
  <2>1. CASE Snd
    <3> USE DEF controlVars, soundVars
    <3>1. CASE SndLoop
      BY <3>1 DEF SndLoop
    <3>2. CASE SndCheck
      BY <3>2 DEF SndCheck
    <3>3. CASE SndWait
      BY <3>3 DEF SndWait
    <3>4. CASE SndResume
      BY <3>4 DEF SndResume
    <3>5. CASE SndReopenFails
      BY <3>5 DEF SndReopenFails
    <3>6. CASE SndRead
      <4>1. /\ captured' = captured + 1 /\ pc["snd"] = "read"
            /\ UNCHANGED <<sound_buffer, buff, written, running>>
            /\ pc' = [pc EXCEPT !["snd"] = "queue"]
        BY <3>6 DEF SndRead
      <4> QED BY <4>1
    <3>7. CASE SndQueue
      <4>1. /\ sound_buffer' = Append(sound_buffer, captured)
            /\ UNCHANGED <<buff, captured, written, running>>
            /\ pc["snd"] = "queue" /\ pc' = [pc EXCEPT !["snd"] = "loop"]
        BY <3>7 DEF SndQueue
      <4>2. /\ InHand \in Nat /\ Len(sound_buffer) \in Nat /\ InHand' = InHand
            /\ InFlight = 1 /\ InFlight' = 0
        BY <4>1, LenProperties
      <4>3. captured = (written + InHand) + Len(sound_buffer) + 1
        BY <4>2
      <4>4. /\ Len(sound_buffer') = Len(sound_buffer) + 1
            /\ \A i \in 1..Len(sound_buffer') : sound_buffer'[i] = (written + InHand) + i
        <5> HIDE DEF InHand, InFlight
        <5>1. /\ sound_buffer \in Seq(Nat) /\ written + InHand \in Nat /\ captured \in Nat
              /\ \A i \in 1..Len(sound_buffer) : sound_buffer[i] = (written + InHand) + i
          BY <4>2
        <5>2. PICK base \in Nat :
                /\ base = written + InHand /\ captured = base + Len(sound_buffer) + 1
                /\ \A i \in 1..Len(sound_buffer) : sound_buffer[i] = base + i
          BY <4>3, <5>1
        <5> HIDE <1>2 DEF TypeOK
        <5>3. /\ Len(Append(sound_buffer, captured)) = Len(sound_buffer) + 1
              /\ \A i \in 1..Len(Append(sound_buffer, captured)) :
                    Append(sound_buffer, captured)[i] = base + i
          BY <5>1, <5>2, QueueAppend
        <5> QED BY <4>1, <5>2, <5>3
      <4> HIDE DEF InHand, InFlight
      <4>5. AudioInOrder'
        <5>1. buff' # 0 => buff' = written' + 1
          <6> HIDE DEF TypeOK, Thread
          <6>1. buff # 0 => buff = written + 1
            BY DEF AudioInOrder
          <6> QED BY <6>1, <4>1
        <5>2. \A i \in 1..Len(sound_buffer') : sound_buffer'[i] = written' + InHand' + i
          BY <4>1, <4>2, <4>4
        <5>3. captured' = written' + InHand' + Len(sound_buffer') + InFlight'
          <6> HIDE <1>2 DEF TypeOK
          <6>1. written \in Nat
            BY <1>2 DEF TypeOK
          <6> QED BY <6>1, <4>1, <4>2, <4>3, <4>4
        <5> QED BY <5>1, <5>2, <5>3
      <4> QED BY <4>1, <4>5
    <3> QED BY <2>1, <3>1, <3>2, <3>3, <3>4, <3>5, <3>6, <3>7 DEF Snd
  <2>2. CASE Aud
    <3> USE DEF controlVars, soundVars
    <3>1. CASE AudStart
      BY <3>1 DEF AudStart
    <3>2. CASE AudLoop
      BY <3>2 DEF AudLoop
    <3>3. CASE AudPause
      BY <3>3 DEF AudPause
    <3>4. CASE AudTest
      <4>1. UNCHANGED <<captured, written, running>> /\ buff = 0
        BY <3>4 DEF AudTest
      <4>2. CASE sound_buffer # <<>>
        <5>1. /\ buff' = Head(sound_buffer) /\ sound_buffer' = Tail(sound_buffer)
              /\ pc' = [pc EXCEPT !["aud"] = "check"]
          BY <3>4, <4>2, Zenon DEF AudTest
        <5>2. /\ Head(sound_buffer) = written + 1
              /\ Len(Tail(sound_buffer)) = Len(sound_buffer) - 1
              /\ Len(sound_buffer) \in Nat
              /\ \A i \in 1..Len(Tail(sound_buffer)) :
                    Tail(sound_buffer)[i] = written + 1 + i
          <6>1. \A i \in 1..Len(sound_buffer) : sound_buffer[i] = written + i
            BY <4>1
          <6> QED BY <6>1, <4>2, QueueTail
        <5>3. buff' # 0 /\ InHand' = 1 /\ InHand = 0 /\ InFlight' = InFlight
          BY <5>1, <5>2, <4>1
        <5>4. captured = written + Len(sound_buffer) + InFlight
          BY <5>2, <5>3, <4>1
        <5> HIDE DEF InHand
        <5>5. AudioInOrder'
          <6> HIDE <1>2 DEF TypeOK
          <6>1. written \in Nat /\ InFlight \in Nat
            BY <1>2 DEF TypeOK
          <6>2. buff' # 0 => buff' = written' + 1
            BY <5>1, <5>2, <4>1
          <6>3. \A i \in 1..Len(sound_buffer') : sound_buffer'[i] = written' + InHand' + i
            BY <5>1, <5>2, <5>3, <4>1
          <6>4. captured' = written' + InHand' + Len(sound_buffer') + InFlight'
            <7> HIDE DEF InFlight
            <7>1. captured' = captured /\ written' = written
              BY <4>1
            <7>2. Len(sound_buffer') = Len(sound_buffer) - 1 /\ Len(sound_buffer) \in Nat
              BY <5>1, <5>2
            <7> QED BY <6>1, <7>1, <7>2, <5>3, <5>4
          <6> QED BY <6>2, <6>3, <6>4 DEF AudioInOrder
        <5> QED BY <5>1, <5>3, <5>5
      <4>3. CASE sound_buffer = <<>>
        <5>1. /\ sound_buffer' = sound_buffer /\ buff' = buff
              /\ \/ pc' = [pc EXCEPT !["aud"] = "towait"]
                 \/ pc' = [pc EXCEPT !["aud"] = "check"] /\ ~running
          BY <3>4, <4>1, <4>3 DEF AudTest
        <5> QED BY <5>1, <4>1
      <4> QED BY <4>2, <4>3
    <3>5. CASE AudWait
      BY <3>5 DEF AudWait
    <3>6. CASE AudCheck
      BY <3>6 DEF AudCheck
    <3>7. CASE AudSink
      BY <3>7 DEF AudSink
    <3>8. CASE AudFinish
      BY <3>8 DEF AudFinish
    <3> QED BY <2>2, <3>1, <3>2, <3>3, <3>4, <3>5, <3>6, <3>7, <3>8 DEF Aud
  <2>3. CASE Grab \/ Img \/ Main \/ Signals
    <3>1. /\ UNCHANGED <<sound_buffer, buff, captured, written>>
          /\ pc'["snd"] = pc["snd"] /\ pc'["aud"] = pc["aud"]
          /\ ~running => ~running'
      BY <2>3, SoundUntouched
    <3> QED BY <3>1
  <2>4. CASE UNCHANGED vars
    BY <2>4 DEF vars
  <2> QED BY <1>2, <2>1, <2>2, <2>3, <2>4 DEF Next
<1>3. QED BY <1>1, <1>2, TypeCorrect, PTL DEF Spec

(* No period is lost, repeated or reordered on its way to the sound track. *)
THEOREM SoundOrder == Spec => []AudioInOrder
<1>1. SoundInv => AudioInOrder
  BY DEF SoundInv
<1> QED BY <1>1, SoundCorrect, PTL

(* The consumer of periods never works on a NULL buffer.                   *)
THEOREM BufferThere == Spec => []NoNullBuffer
<1>1. SoundInv => NoNullBuffer
  BY DEF SoundInv
<1> QED BY <1>1, SoundCorrect, PTL

(* Sound reaches its track whole, whatever pauses and ends the recording.  *)
THEOREM SoundStaysKept == Spec => []SoundKept
<1>1. TypeOK /\ AudioInOrder /\ NoNullBuffer => SoundKept
  BY DEF SoundKept
<1> QED BY <1>1, TypeCorrect, SoundOrder, BufferThere, PTL
-----------------------------------------------------------------------------
(***************************************************************************)
(* Pauses.  The bound on what a pause records rests on where the sound     *)
(* capture can be while paused: on its way to queue a period, it has not   *)
(* used up the one allowed; and it gets there from its wait only by a      *)
(* wakeup nobody signalled, because a signalled one ends the pause.        *)
(***************************************************************************)
AboutToRecord ==
    pc["snd"] \in {"read", "queue"} \/ (At("snd", "resume") /\ ~Blocked("snd"))

PauseInv ==
    /\ WaitersInPlace
    /\ OnePeriodPerPause
    /\ paused /\ AboutToRecord => pausedPeriods <= spurious

(* Who waits where, and what a pause may record, in every reachable state. *)
THEOREM PausesCorrect == Spec => []PauseInv
<1> USE DEF At, Go, Thread, Cond, Blocked, WaitersInPlace, OnePeriodPerPause, AboutToRecord
<1>1. ASSUME Init PROVE PauseInv
  BY <1>1 DEF Init, PauseInv
<1>2. ASSUME TypeOK, PauseInv, [Next]_vars PROVE PauseInv'
  <2> USE <1>2, BoundsAssumption DEF TypeOK, PauseInv, controlVars, imageVars, soundVars
  <2>1. CASE Grab
    <3>1. CASE GrabLoop
      BY <3>1 DEF GrabLoop
    <3>2. CASE GrabPaused
      <4>1. UNCHANGED spurious /\ \E l \in {"loop", "advance"} : pc' = [pc EXCEPT !["grab"] = l]
        BY <3>2 DEF GrabPaused
      <4>2. CASE ~pause_state_changed
        <5>1. UNCHANGED <<paused, waiters, pausedPeriods>>
          BY <3>2, <4>2 DEF GrabPaused
        <5> QED BY <4>1, <5>1
      <4>3. CASE pause_state_changed /\ ~paused
        <5>1. UNCHANGED waiters /\ pausedPeriods' = 0
          BY <3>2, <4>3 DEF GrabPaused
        <5> QED BY <4>1, <5>1
      <4>4. CASE pause_state_changed /\ paused
        <5>1. /\ ~paused' /\ UNCHANGED pausedPeriods
              /\ waiters' = [waiters EXCEPT !["pause_cond"] = {}]
          BY <3>2, <4>4 DEF GrabPaused, Broadcast
        <5> QED BY <4>1, <5>1
      <4> QED BY <4>2, <4>3, <4>4
    <3>3. ASSUME NEW n \in 0..MaxClone, GrabAdvance(n) PROVE PauseInv'
      BY <3>3 DEF GrabAdvance
    <3>4. CASE GrabPublish
      BY <3>4 DEF GrabPublish, Signal
    <3>5. CASE GrabSignalExit
      BY <3>5 DEF GrabSignalExit, Signal
    <3>6. CASE GrabUnpauseExit
      BY <3>6 DEF GrabUnpauseExit, Broadcast
    <3> QED BY <2>1, <3>1, <3>2, <3>3, <3>4, <3>5, <3>6 DEF Grab
  <2>2. CASE Img
    <3>1. CASE ImgStart
      BY <3>1 DEF ImgStart
    <3>2. CASE ImgLoop
      BY <3>2 DEF ImgLoop, ImgTop
    <3>3. CASE ImgPause
      BY <3>3 DEF ImgPause, Wait
    <3>4. CASE ImgTest
      BY <3>4 DEF ImgTest
    <3>5. CASE ImgWait
      BY <3>5 DEF ImgWait, Wait
    <3>6. CASE ImgSink
      BY <3>6 DEF ImgSink, FramesFor
    <3>7. CASE ImgEncoderNotReady
      BY <3>7 DEF ImgEncoderNotReady
    <3>8. CASE ImgFinish
      BY <3>8 DEF ImgFinish
    <3> QED BY <2>2, <3>1, <3>2, <3>3, <3>4, <3>5, <3>6, <3>7, <3>8 DEF Img
  <2>3. CASE Snd
    <3>1. CASE SndLoop
      BY <3>1 DEF SndLoop
    <3>2. CASE SndCheck
      BY <3>2 DEF SndCheck
    <3>3. CASE SndWait
      BY <3>3 DEF SndWait, Wait
    <3>4. CASE SndResume
      BY <3>4 DEF SndResume
    <3>5. CASE SndReopenFails
      BY <3>5 DEF SndReopenFails
    <3>6. CASE SndRead
      BY <3>6 DEF SndRead
    <3>7. CASE SndQueue
      BY <3>7 DEF SndQueue, Signal
    <3> QED BY <2>3, <3>1, <3>2, <3>3, <3>4, <3>5, <3>6, <3>7 DEF Snd
  <2>4. CASE Aud
    <3>1. CASE AudStart
      BY <3>1 DEF AudStart
    <3>2. CASE AudLoop
      BY <3>2 DEF AudLoop
    <3>3. CASE AudPause
      BY <3>3 DEF AudPause, Wait
    <3>4. CASE AudTest
      <4>1. /\ \E l \in {"towait", "check"} : pc' = [pc EXCEPT !["aud"] = l]
            /\ pc["aud"] = "test" /\ ~Blocked("aud")
            /\ UNCHANGED <<waiters, paused, pausedPeriods, spurious>>
        BY <3>4 DEF AudTest
      <4> QED BY <4>1
    <3>5. CASE AudWait
      BY <3>5 DEF AudWait, Wait
    <3>6. CASE AudCheck
      BY <3>6 DEF AudCheck
    <3>7. CASE AudSink
      BY <3>7 DEF AudSink
    <3>8. CASE AudFinish
      BY <3>8 DEF AudFinish
    <3> QED BY <2>4, <3>1, <3>2, <3>3, <3>4, <3>5, <3>6, <3>7, <3>8 DEF Aud
  <2>5. CASE Main
    <3>1. CASE rmdRegisterCallbacks
      BY <3>1 DEF rmdRegisterCallbacks
    <3>2. CASE MainJoinGrab
      BY <3>2 DEF MainJoinGrab
    <3>3. CASE MainWakeImg
      BY <3>3 DEF MainWakeImg, Signal
    <3>4. CASE MainJoinImg
      BY <3>4 DEF MainJoinImg
    <3>5. CASE MainJoinSnd
      BY <3>5 DEF MainJoinSnd
    <3>6. CASE MainWakeAud
      BY <3>6 DEF MainWakeAud, Signal
    <3>7. CASE MainJoinAud
      BY <3>7 DEF MainJoinAud
    <3> QED BY <2>5, <3>1, <3>2, <3>3, <3>4, <3>5, <3>6, <3>7 DEF Main
  <2>6. CASE Signals
    <3>1. CASE rmdSetPaused
      BY <3>1 DEF rmdSetPaused
    <3>2. ASSUME NEW s \in EndSignals, rmdSetRunning(s) PROVE PauseInv'
      BY <3>2 DEF rmdSetRunning
    <3>3. ASSUME NEW t \in Thread, NEW c \in Cond, SpuriousWakeup(t, c) PROVE PauseInv'
      BY <3>3 DEF SpuriousWakeup
    <3> QED BY <2>6, <3>1, <3>2, <3>3 DEF Signals
  <2>7. CASE UNCHANGED vars
    BY <2>7 DEF vars
  <2> QED BY <1>2, <2>1, <2>2, <2>3, <2>4, <2>5, <2>6, <2>7 DEF Next
<1>3. QED BY <1>1, <1>2, TypeCorrect, PTL DEF Spec

(* A pause records one period at most, and one per unsignalled wakeup.     *)
THEOREM PauseBound == Spec => []OnePeriodPerPause
<1>1. PauseInv => OnePeriodPerPause
  BY DEF PauseInv
<1> QED BY <1>1, PausesCorrect, PTL
-----------------------------------------------------------------------------
(***************************************************************************)
(* Wakeups.  A consumer on its way to sleep holds the mutex without which  *)
(* nothing is published for it.  At the end, main leaves its repeated      *)
(* signals only when the consumer has not started, or is done: one that    *)
(* starts then finds that running is FALSE and does not come to wait.      *)
(***************************************************************************)
AwakeInv ==
    /\ At("img", "towait") \/ "img" \in waiters["image_buffer_ready"] => encode_frameno >= capture_frameno
    /\ At("aud", "towait") \/ "aud" \in waiters["sound_data_read"] => sound_buffer = <<>>
    /\ {"img", "aud"} \cap waiters["pause_cond"] # {} => paused

Leaving == {"start", "loop", "finish", "done"}
EndInv ==
    /\ pc["grab"] \in {"signal", "unpause", "done"} => ~running
    /\ pc["main"] \notin {"register", "joinGrab"} => Done("grab")
    /\ args.nosound => Done("aud")
    /\ args.encOnTheFly =>
           /\ th_encoding_clean => pc["img"] \in {"start", "done"}
           /\ v_encoding_clean => pc["aud"] \in {"start", "done"}
           /\ pc["main"] \in {"joinImg", "joinSnd", "wakeAud", "joinAud", "done"} => pc["img"] \in Leaving
           /\ pc["main"] \in {"joinAud", "done"} => pc["aud"] \in Leaving

(* Who sleeps, and over what, in every reachable state.                    *)
THEOREM SleepersCorrect == Spec => []AwakeInv
<1> USE DEF At, Go, Thread, Cond, Blocked, WaitersInPlace
<1>1. ASSUME Init PROVE AwakeInv
  BY <1>1 DEF Init, AwakeInv
<1>2. ASSUME TypeOK, WaitersInPlace, AwakeInv, [Next]_vars PROVE AwakeInv'
  <2> USE <1>2, BoundsAssumption DEF TypeOK, AwakeInv, controlVars, imageVars, soundVars
  <2>1. CASE Grab
    <3>1. CASE GrabLoop
      BY <3>1 DEF GrabLoop
    <3>2. CASE GrabPaused
      <4>1. /\ UNCHANGED <<encode_frameno, capture_frameno, sound_buffer>>
            /\ \E l \in {"loop", "advance"} : pc' = [pc EXCEPT !["grab"] = l]
        BY <3>2 DEF GrabPaused
      <4>2. CASE ~pause_state_changed \/ ~paused
        <5>1. UNCHANGED waiters /\ (paused => paused')
          BY <3>2, <4>2 DEF GrabPaused
        <5> QED BY <4>1, <5>1
      <4>3. CASE pause_state_changed /\ paused
        <5>1. waiters' = [waiters EXCEPT !["pause_cond"] = {}]
          BY <3>2, <4>3 DEF GrabPaused, Broadcast
        <5> QED BY <4>1, <5>1
      <4> QED BY <4>2, <4>3
    <3>3. ASSUME NEW n \in 0..MaxClone, GrabAdvance(n) PROVE AwakeInv'
      BY <3>3 DEF GrabAdvance
    <3>4. CASE GrabPublish
      BY <3>4 DEF GrabPublish, Signal, ImgBuffReadyMutexFree
    <3>5. CASE GrabSignalExit
      BY <3>5 DEF GrabSignalExit, Signal
    <3>6. CASE GrabUnpauseExit
      BY <3>6 DEF GrabUnpauseExit, Broadcast
    <3> QED BY <2>1, <3>1, <3>2, <3>3, <3>4, <3>5, <3>6 DEF Grab
  <2>2. CASE Img
    <3>1. CASE ImgStart
      BY <3>1 DEF ImgStart
    <3>2. CASE ImgLoop
      BY <3>2 DEF ImgLoop, ImgTop
    <3>3. CASE ImgPause
      BY <3>3 DEF ImgPause, Wait
    <3>4. CASE ImgTest
      BY <3>4 DEF ImgTest
    <3>5. CASE ImgWait
      BY <3>5 DEF ImgWait, Wait
    <3>6. CASE ImgSink
      BY <3>6 DEF ImgSink, FramesFor
    <3>7. CASE ImgEncoderNotReady
      BY <3>7 DEF ImgEncoderNotReady
    <3>8. CASE ImgFinish
      BY <3>8 DEF ImgFinish
    <3> QED BY <2>2, <3>1, <3>2, <3>3, <3>4, <3>5, <3>6, <3>7, <3>8 DEF Img
  <2>3. CASE Snd
    <3>1. CASE SndLoop
      BY <3>1 DEF SndLoop
    <3>2. CASE SndCheck
      BY <3>2 DEF SndCheck
    <3>3. CASE SndWait
      BY <3>3 DEF SndWait, Wait
    <3>4. CASE SndResume
      BY <3>4 DEF SndResume
    <3>5. CASE SndReopenFails
      BY <3>5 DEF SndReopenFails
    <3>6. CASE SndRead
      BY <3>6 DEF SndRead
    <3>7. CASE SndQueue
      <4>1. "aud" \notin waiters'["sound_data_read"] /\ ~At("aud", "towait")'
        BY <3>7 DEF SndQueue, Signal, SoundBufferMutexFree
      <4>2. /\ UNCHANGED <<encode_frameno, capture_frameno, paused>> /\ pc'["img"] = pc["img"]
            /\ waiters'["image_buffer_ready"] = waiters["image_buffer_ready"]
            /\ waiters'["pause_cond"] = waiters["pause_cond"]
        BY <3>7 DEF SndQueue, Signal
      <4> QED BY <4>1, <4>2
    <3> QED BY <2>3, <3>1, <3>2, <3>3, <3>4, <3>5, <3>6, <3>7 DEF Snd
  <2>4. CASE Aud
    <3>1. CASE AudStart
      BY <3>1 DEF AudStart
    <3>2. CASE AudLoop
      BY <3>2 DEF AudLoop
    <3>3. CASE AudPause
      BY <3>3 DEF AudPause, Wait
    <3>4. CASE AudTest
      <4>1. /\ UNCHANGED <<encode_frameno, capture_frameno, paused, waiters>>
            /\ "aud" \notin waiters["sound_data_read"]
        BY <3>4, Zenon DEF AudTest, imageVars, controlVars
      <4>2. \/ sound_buffer = <<>> /\ sound_buffer' = <<>> /\ pc' = [pc EXCEPT !["aud"] = "towait"]
            \/ pc' = [pc EXCEPT !["aud"] = "check"]
        BY <3>4, Zenon DEF AudTest
      <4> QED BY <4>1, <4>2
    <3>5. CASE AudWait
      BY <3>5 DEF AudWait, Wait
    <3>6. CASE AudCheck
      BY <3>6 DEF AudCheck
    <3>7. CASE AudSink
      BY <3>7 DEF AudSink
    <3>8. CASE AudFinish
      BY <3>8 DEF AudFinish
    <3> QED BY <2>4, <3>1, <3>2, <3>3, <3>4, <3>5, <3>6, <3>7, <3>8 DEF Aud
  <2>5. CASE Main
    <3>1. CASE MainWakeImg
      BY <3>1 DEF MainWakeImg, Signal
    <3>2. CASE MainWakeAud
      BY <3>2 DEF MainWakeAud, Signal
    <3>3. CASE rmdRegisterCallbacks \/ MainJoinGrab \/ MainJoinImg \/ MainJoinSnd \/ MainJoinAud
      BY <3>3 DEF rmdRegisterCallbacks, MainJoinGrab, MainJoinImg, MainJoinSnd, MainJoinAud
    <3> QED BY <2>5, <3>1, <3>2, <3>3 DEF Main
  <2>6. CASE Signals
    <3>1. CASE rmdSetPaused
      BY <3>1 DEF rmdSetPaused
    <3>2. ASSUME NEW s \in EndSignals, rmdSetRunning(s) PROVE AwakeInv'
      BY <3>2 DEF rmdSetRunning
    <3>3. ASSUME NEW t \in Thread, NEW c \in Cond, SpuriousWakeup(t, c) PROVE AwakeInv'
      BY <3>3 DEF SpuriousWakeup
    <3> QED BY <2>6, <3>1, <3>2, <3>3 DEF Signals
  <2>7. CASE UNCHANGED vars
    BY <2>7 DEF vars
  <2> QED BY <1>2, <2>1, <2>2, <2>3, <2>4, <2>5, <2>6, <2>7 DEF Next
<1>3. PauseInv => WaitersInPlace
  BY DEF PauseInv
<1>4. QED BY <1>1, <1>2, <1>3, TypeCorrect, PausesCorrect, PTL DEF Spec

(* How far the end has come, in every reachable state.                     *)
THEOREM EndCorrect == Spec => []EndInv
<1> USE DEF At, Go, Thread, Done
<1>1. ASSUME Init PROVE EndInv
  BY <1>1 DEF Init, EndInv
<1>2. ASSUME TypeOK, EndInv, [Next]_vars PROVE EndInv'
  <2> USE <1>2 DEF TypeOK, EndInv, Leaving, controlVars, cleanVars
  <2>1. CASE Grab
    <3>1. /\ pc'["main"] = pc["main"] /\ pc'["img"] = pc["img"] /\ pc'["aud"] = pc["aud"]
          /\ UNCHANGED <<args, running, th_encoding_clean, v_encoding_clean>>
          /\ pc["grab"] # "done"
      BY <2>1 DEF Grab, GrabLoop, GrabPaused, GrabAdvance, GrabPublish, GrabSignalExit, GrabUnpauseExit
    <3>2. pc'["grab"] \in {"signal", "unpause", "done"} => ~running
      BY <2>1 DEF Grab, GrabLoop, GrabPaused, GrabAdvance, GrabPublish, GrabSignalExit, GrabUnpauseExit
    <3> QED BY <3>1, <3>2
  <2>2. CASE Img
    <3>1. /\ pc'["main"] = pc["main"] /\ pc'["grab"] = pc["grab"] /\ pc'["aud"] = pc["aud"]
          /\ UNCHANGED <<args, running, v_encoding_clean>>
      BY <2>2 DEF Img, ImgStart, ImgLoop, ImgPause, ImgTest, ImgWait, ImgSink, ImgEncoderNotReady, ImgFinish
    <3>2. args.encOnTheFly /\ th_encoding_clean' => pc'["img"] \in {"start", "done"}
      BY <2>2 DEF Img, ImgStart, ImgLoop, ImgPause, ImgTest, ImgWait, ImgSink, ImgEncoderNotReady, ImgFinish
    <3>3. pc["img"] \in Leaving /\ ~running => pc'["img"] \in Leaving
      BY <2>2 DEF Img, ImgStart, ImgLoop, ImgPause, ImgTest, ImgWait, ImgSink, ImgEncoderNotReady, ImgFinish
    <3> QED BY <3>1, <3>2, <3>3
  <2>3. CASE Snd
    <3>1. /\ pc'["main"] = pc["main"] /\ pc'["grab"] = pc["grab"]
          /\ pc'["img"] = pc["img"] /\ pc'["aud"] = pc["aud"]
          /\ UNCHANGED <<args, th_encoding_clean, v_encoding_clean>> /\ (~running => ~running')
      BY <2>3 DEF Snd, SndLoop, SndCheck, SndWait, SndResume, SndReopenFails, SndRead, SndQueue
    <3> QED BY <3>1
  <2>4. CASE Aud
    <3>1. /\ pc'["main"] = pc["main"] /\ pc'["grab"] = pc["grab"] /\ pc'["img"] = pc["img"]
          /\ UNCHANGED <<args, running, th_encoding_clean>> /\ pc["aud"] # "done"
      BY <2>4 DEF Aud, AudStart, AudLoop, AudPause, AudTest, AudWait, AudCheck, AudSink, AudFinish
    <3>2. args.encOnTheFly /\ v_encoding_clean' => pc'["aud"] \in {"start", "done"}
      BY <2>4 DEF Aud, AudStart, AudLoop, AudPause, AudTest, AudWait, AudCheck, AudSink, AudFinish
    <3>3. pc["aud"] \in Leaving /\ ~running => pc'["aud"] \in Leaving
      BY <2>4 DEF Aud, AudStart, AudLoop, AudPause, AudTest, AudWait, AudCheck, AudSink, AudFinish
    <3> QED BY <3>1, <3>2, <3>3
  <2>5. CASE Main
    <3>1. /\ pc'["grab"] = pc["grab"] /\ pc'["img"] = pc["img"] /\ pc'["aud"] = pc["aud"]
          /\ UNCHANGED <<args, running, th_encoding_clean, v_encoding_clean>>
      BY <2>5 DEF Main, rmdRegisterCallbacks, MainJoinGrab, MainWakeImg, MainJoinImg, MainJoinSnd,
                  MainWakeAud, MainJoinAud
    <3>2. pc'["main"] \notin {"register", "joinGrab"} => Done("grab")
      BY <2>5 DEF Main, rmdRegisterCallbacks, MainJoinGrab, MainWakeImg, MainJoinImg, MainJoinSnd,
                  MainWakeAud, MainJoinAud
    <3>3. args.encOnTheFly /\ pc'["main"] \in {"joinImg", "joinSnd", "wakeAud", "joinAud", "done"}
            => pc["img"] \in Leaving
      BY <2>5 DEF Main, rmdRegisterCallbacks, MainJoinGrab, MainWakeImg, MainJoinImg, MainJoinSnd,
                  MainWakeAud, MainJoinAud
    <3>4. args.encOnTheFly /\ pc'["main"] \in {"joinAud", "done"} => pc["aud"] \in Leaving
      BY <2>5 DEF Main, rmdRegisterCallbacks, MainJoinGrab, MainWakeImg, MainJoinImg, MainJoinSnd,
                  MainWakeAud, MainJoinAud
    <3> QED BY <3>1, <3>2, <3>3, <3>4
  <2>6. CASE Signals
    <3>1. UNCHANGED <<pc, args, th_encoding_clean, v_encoding_clean>> /\ (~running => ~running')
      BY <2>6 DEF Signals, rmdSetPaused, rmdSetRunning, SpuriousWakeup
    <3> QED BY <3>1
  <2>7. CASE UNCHANGED vars
    BY <2>7 DEF vars
  <2> QED BY <1>2, <2>1, <2>2, <2>3, <2>4, <2>5, <2>6, <2>7 DEF Next
<1>3. QED BY <1>1, <1>2, TypeCorrect, PTL DEF Spec

(* No consumer sleeps over what it waits for.                              *)
THEOREM NoWakeupLost == Spec => []NothingMissed
<1>1. AwakeInv => NothingMissed
  BY DEF AwakeInv, NothingMissed
<1> QED BY <1>1, SleepersCorrect, PTL

(* On the fly, main joins no consumer that is asleep.                      *)
THEOREM NoneJoinedAsleep == Spec => []JoinedAwake
<1>1. PauseInv /\ EndInv => JoinedAwake
  BY DEF PauseInv, WaitersInPlace, EndInv, Leaving, JoinedAwake, Blocked, At, Cond
<1> QED BY <1>1, PausesCorrect, EndCorrect, PTL

(* The consumers sleep neither over something to take nor when joined.     *)
THEOREM ConsumersStayAwake == Spec => []ConsumersAwake
<1>1. NothingMissed /\ JoinedAwake => ConsumersAwake
  BY DEF ConsumersAwake
<1> QED BY <1>1, NoWakeupLost, NoneJoinedAsleep, PTL
-----------------------------------------------------------------------------
(***************************************************************************)
(* The threads implement Recording.  Publishing counts frames, the         *)
(* consumer's sink shows them, a read hears a period and the sound         *)
(* consumer's sink stores it; whatever clears running closes the recording *)
(* and every other step is invisible there.                                *)
(***************************************************************************)
recorded == <<running, capture_frameno, last_encode_frameno, emitted, captured, written>>

LEMMA InvisibleSteps ==
    ASSUME TypeOK,
           \/ GrabLoop \/ GrabPaused \/ (\E n \in 0..MaxClone : GrabAdvance(n))
           \/ GrabSignalExit \/ GrabUnpauseExit
           \/ ImgStart \/ ImgLoop \/ ImgPause \/ ImgTest \/ ImgWait
           \/ ImgEncoderNotReady \/ ImgFinish
           \/ SndLoop \/ SndCheck \/ SndWait \/ SndResume \/ SndQueue
           \/ AudStart \/ AudLoop \/ AudPause \/ AudTest \/ AudWait \/ AudCheck
           \/ AudFinish \/ Main \/ rmdSetPaused
           \/ (\E t \in Thread, c \in Cond : SpuriousWakeup(t, c))
    PROVE  UNCHANGED recorded
<1> USE DEF recorded, controlVars, imageVars, soundVars
<1>1. CASE \/ GrabLoop \/ GrabPaused \/ (\E n \in 0..MaxClone : GrabAdvance(n))
           \/ GrabSignalExit \/ GrabUnpauseExit
  BY <1>1 DEF GrabLoop, GrabPaused, GrabAdvance, GrabSignalExit, GrabUnpauseExit
<1>2. CASE ImgStart \/ ImgLoop \/ ImgPause \/ ImgWait \/ ImgEncoderNotReady \/ ImgFinish
  BY <1>2 DEF ImgStart, ImgLoop, ImgPause, ImgWait, ImgEncoderNotReady, ImgFinish
<1>3. CASE ImgTest
  BY <1>3 DEF ImgTest
<1>4. CASE SndLoop \/ SndCheck \/ SndWait \/ SndResume \/ SndQueue
  BY <1>4 DEF SndLoop, SndCheck, SndWait, SndResume, SndQueue
<1>5. CASE AudStart \/ AudLoop \/ AudPause \/ AudWait \/ AudCheck \/ AudFinish
  BY <1>5 DEF AudStart, AudLoop, AudPause, AudWait, AudCheck, AudFinish
<1>6. CASE AudTest
  BY <1>6 DEF AudTest
<1>7. CASE Main
  BY <1>7 DEF Main, rmdRegisterCallbacks, MainJoinGrab, MainWakeImg, MainJoinImg,
              MainJoinSnd, MainWakeAud, MainJoinAud
<1>8. CASE rmdSetPaused \/ (\E t \in Thread, c \in Cond : SpuriousWakeup(t, c))
  BY <1>8 DEF rmdSetPaused, SpuriousWakeup
<1> QED BY <1>1, <1>2, <1>3, <1>4, <1>5, <1>6, <1>7, <1>8

(* Every behaviour of the capture threads is one of Recording.             *)
THEOREM CaptureImplementsRecording == Spec => ImplementsRecording
<1>1. ASSUME Init PROVE R!RecInit
  BY <1>1 DEF Init, R!RecInit
<1>2. ASSUME TypeOK, FrameInv, SoundInv, [Next]_vars
      PROVE  [R!RecNext]_(R!recordingVars)
  <2> USE <1>2 DEF R!recordingVars, recorded
  <2>1. CASE GrabPublish
    <3>1. /\ capture_frameno' = frameno /\ frameno >= capture_frameno
          /\ frameno \in Nat /\ capture_frameno \in Nat
          /\ UNCHANGED <<running, last_encode_frameno, emitted, captured, written>>
      BY <2>1, BoundsAssumption
         DEF GrabPublish, controlVars, soundVars, TypeOK, FrameInv, NumbersInOrder
    <3>2. CASE frameno = capture_frameno
      BY <3>1, <3>2
    <3>3. CASE frameno > capture_frameno
      BY <3>1, <3>3 DEF R!RecNext, R!Count
    <3> QED BY <3>1, <3>2, <3>3
  <2>2. CASE ImgSink
    <3>1. /\ emitted' = emitted + FramesFor(encode_frameno - last_encode_frameno)
          /\ last_encode_frameno' = encode_frameno
          /\ UNCHANGED <<running, capture_frameno, captured, written>>
          /\ emitted = last_encode_frameno
          /\ encode_frameno > last_encode_frameno \/ ~running
      BY <2>2 DEF ImgSink, Go, At, controlVars, soundVars, FrameInv, HasFrame
    <3>2. /\ last_encode_frameno <= encode_frameno /\ encode_frameno <= capture_frameno
          /\ encode_frameno \in Nat /\ last_encode_frameno \in Nat
      BY BoundsAssumption DEF TypeOK, FrameInv, NumbersInOrder
    <3>3. CASE encode_frameno > last_encode_frameno
      <4>1. emitted' = encode_frameno
        BY <3>1, <3>2, <3>3 DEF FramesFor
      <4> QED BY <3>1, <3>2, <3>3, <4>1 DEF R!RecNext, R!Show
    <3>4. CASE encode_frameno = last_encode_frameno /\ ~running
      <4>1. emitted' = last_encode_frameno + 1
        BY <3>1, <3>2, <3>4 DEF FramesFor
      <4> QED BY <3>1, <3>2, <3>4, <4>1 DEF R!RecNext, R!ShowExtra
    <3> QED BY <3>1, <3>2, <3>3, <3>4
  <2>3. CASE SndRead
    BY <2>3 DEF SndRead, controlVars, imageVars, R!RecNext, R!Hear
  <2>4. CASE AudSink
    <3>1. /\ written' = buff
          /\ UNCHANGED <<running, capture_frameno, last_encode_frameno, emitted, captured>>
      BY <2>4 DEF AudSink, controlVars, imageVars
    <3>2. buff = written + 1 /\ buff # 0
      BY <2>4 DEF AudSink, Go, At, SoundInv, NoNullBuffer, AudioInOrder
    <3>3. captured = written + 1 + Len(sound_buffer) + InFlight
      BY <3>2 DEF SoundInv, AudioInOrder, InHand
    <3>4. written < captured
      <4>1. written \in Nat /\ Len(sound_buffer) \in Nat /\ InFlight \in Nat
        BY LenProperties DEF TypeOK, InFlight
      <4> QED BY <3>3, <4>1
    <3> QED BY <3>1, <3>2, <3>4 DEF R!RecNext, R!Store
  <2>5. CASE SndReopenFails \/ (\E s \in EndSignals : rmdSetRunning(s))
    <3>1. /\ running' = FALSE
          /\ UNCHANGED <<capture_frameno, last_encode_frameno, emitted, captured, written>>
      BY <2>5, Zenon DEF SndReopenFails, rmdSetRunning, imageVars, soundVars
    <3> QED BY <3>1 DEF R!RecNext, R!Close
  <2>6. CASE UNCHANGED vars
    BY <2>6 DEF vars
  <2>7. CASE UNCHANGED recorded
    BY <2>7
  <2> QED BY <1>2, <2>1, <2>2, <2>3, <2>4, <2>5, <2>6, <2>7, InvisibleSteps
          DEF Next, Grab, Img, Snd, Aud, Signals
<1>3. QED BY <1>1, <1>2, TypeCorrect, FramesCorrect, SoundCorrect, PTL
          DEF Spec, ImplementsRecording, R!RecSpec
=============================================================================
