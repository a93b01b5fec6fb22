------------------------------ MODULE Capture ------------------------------
(***************************************************************************)
(* The capture phase of recordmydesktop: the threads rmdThreads() starts,  *)
(* from their creation until it has joined them.                           *)
(*                                                                         *)
(*   main   rmdThreads itself: joins the others, in order                  *)
(*   grab   rmdGetFrames: samples the screen, advances capture_frameno     *)
(*   img    rmdEncodeImageBuffers (on the fly) or rmdCacheImageBuffer      *)
(*   snd    rmdCaptureAudio: reads periods, queues them on sound_buffer    *)
(*   aud    rmdEncodeAudioBuffers (on the fly) or rmdCacheAudioBuffer      *)
(*                                                                         *)
(* They share running, paused, capture_frameno and sound_buffer, and wait  *)
(* on image_buffer_ready, sound_data_read and pause_cond.  A critical      *)
(* section is one action, with one exception: running is cleared by a      *)
(* signal handler that takes no mutex, so the test of a wait loop that     *)
(* reads it and the wait itself are two steps, the mutex held in between.  *)
(***************************************************************************)
EXTENDS Integers, Sequences

CONSTANTS
    Args,        \* the command lines considered: records of ArgsType
    MaxFrames,   \* bound: capture_frameno stops growing here
    MaxClone,    \* bound: frames one advance_frameno() may add
    MaxPeriods,  \* bound: audio periods the device delivers while running
    EndSignals,  \* the signals that may end the recording: SIGINT, SIGABRT
    MaxPauses,   \* bound: SIGUSR1 signals
    MaxSpurious  \* bound: wakeups nobody signalled, which POSIX allows

(***************************************************************************)
(* The arguments the control flow depends on: encode on the fly or cache,  *)
(* record sound or not, a device that must be closed to pause it.          *)
(***************************************************************************)
ArgsType == [encOnTheFly : BOOLEAN, nosound : BOOLEAN, hardPause : BOOLEAN]

ASSUME ArgsAssumption == Args \subseteq ArgsType
ASSUME BoundsAssumption ==
    /\ MaxFrames \in Nat /\ MaxClone \in Nat /\ MaxPeriods \in Nat
    /\ MaxPauses \in Nat /\ MaxSpurious \in Nat

Thread == {"main", "grab", "img", "snd", "aud"}
Cond   == {"image_buffer_ready", "sound_data_read", "pause_cond"}

VARIABLES
    args,               \* pdata->args, fixed at start
    pc,                 \* where each thread is
    running,            \* pdata->running
    aborted,            \* pdata->aborted
    paused,             \* pdata->paused
    pause_state_changed,
    waiters,            \* the threads blocked in pthread_cond_wait, per cond
    frameno,            \* rmdGetFrames' local frameno
    capture_frameno,    \* pdata->capture_frameno, the published one
    encode_frameno,     \* img: the last capture_frameno it took
    last_encode_frameno,\* img: the last one it finished with
    sound_buffer,       \* pdata->sound_buffer: the queued periods, oldest first
    buff,               \* aud: the period it dequeued, 0 for NULL
    th_encoding_clean, v_encoding_clean,
    \* history: what the recording holds, and the bounded inputs used up
    emitted,            \* frames the video stream holds (or will, once loaded)
    captured,           \* periods read from the device so far
    written,            \* the last period handed to the sound stream or cache
    pausedPeriods,      \* periods queued since the current pause began
    pauses, spurious

vars == <<args, pc, running, aborted, paused, pause_state_changed, waiters,
          frameno, capture_frameno, encode_frameno, last_encode_frameno,
          sound_buffer, buff, th_encoding_clean, v_encoding_clean,
          emitted, captured, written, pausedPeriods, pauses, spurious>>

controlVars == <<args, running, aborted, paused, pause_state_changed, pauses, spurious>>
imageVars   == <<frameno, capture_frameno, encode_frameno, last_encode_frameno, emitted>>
soundVars   == <<sound_buffer, buff, captured, written, pausedPeriods>>
cleanVars   == <<th_encoding_clean, v_encoding_clean>>
-----------------------------------------------------------------------------
At(t, label) == pc[t] = label
Go(t, from, to) == pc[t] = from /\ pc' = [pc EXCEPT ![t] = to]

(* A thread in a condition variable's wait set runs again once removed.    *)
Blocked(t) == \E c \in Cond : t \in waiters[c]
Wait(t, c) == waiters' = [waiters EXCEPT ![c] = @ \cup {t}]
Signal(c) ==
    IF waiters[c] = {} THEN UNCHANGED waiters
    ELSE \E t \in waiters[c] : waiters' = [waiters EXCEPT ![c] = @ \ {t}]
Broadcast(c) == waiters' = [waiters EXCEPT ![c] = {}]

(* The two mutexes that stay held between two steps.                       *)
ImgBuffReadyMutexFree == ~At("img", "towait")
SoundBufferMutexFree  == ~At("aud", "towait")

Done(t) == At(t, "done")
-----------------------------------------------------------------------------
(* The state rmdThreads leaves behind once its last rmdThread() returned:  *)
(* all threads exist, none of the others need have run yet.                *)
Init ==
    /\ args \in Args
    /\ pc = [t \in Thread |->
               CASE t = "main" -> "register"
                 [] t = "grab" -> "loop"
                 [] t = "img"  -> "start"
                 [] t = "snd"  -> IF args.nosound THEN "done" ELSE "loop"
                 [] t = "aud"  -> IF args.nosound THEN "done" ELSE "start"]
    /\ running = TRUE /\ aborted = FALSE
    /\ paused = FALSE /\ pause_state_changed = FALSE
    /\ waiters = [c \in Cond |-> {}]
    /\ frameno = 0 /\ capture_frameno = 0
    /\ encode_frameno = 0 /\ last_encode_frameno = 0
    /\ sound_buffer = <<>> /\ buff = 0
    /\ th_encoding_clean = TRUE /\ v_encoding_clean = TRUE
    /\ emitted = 0 /\ captured = 0 /\ written = 0
    /\ pausedPeriods = 0 /\ pauses = 0 /\ spurious = 0
-----------------------------------------------------------------------------
(* Signals.  They are delivered once rmdRegisterCallbacks has run, at any  *)
(* point of any thread; the shortcut keys raise() the same ones.           *)
rmdRegisterCallbacks ==
    /\ Go("main", "register", "joinGrab")
    /\ UNCHANGED <<controlVars, waiters, imageVars, soundVars, cleanVars>>

SignalsHandled == ~At("main", "register") /\ ~Done("main")

rmdSetPaused ==
    /\ SignalsHandled
    /\ pauses < MaxPauses
    /\ pause_state_changed' = TRUE
    /\ pauses' = pauses + 1
    /\ UNCHANGED <<args, pc, running, aborted, paused, waiters, imageVars,
                   soundVars, cleanVars, spurious>>

rmdSetRunning(signum) ==
    /\ SignalsHandled
    /\ running' = FALSE
    /\ aborted' = (aborted \/ signum = "SIGABRT")
    /\ UNCHANGED <<args, pc, paused, pause_state_changed, waiters, imageVars,
                   soundVars, cleanVars, pauses, spurious>>

(* A return from pthread_cond_wait that nobody signalled.                  *)
SpuriousWakeup(t, c) ==
    /\ t \in waiters[c]
    /\ spurious < MaxSpurious
    /\ spurious' = spurious + 1
    /\ waiters' = [waiters EXCEPT ![c] = @ \ {t}]
    /\ UNCHANGED <<args, pc, running, aborted, paused, pause_state_changed,
                   imageVars, soundVars, cleanVars, pauses>>
-----------------------------------------------------------------------------
(* rmdGetFrames.  What it samples and when is left out: sync_next_frame()  *)
(* and the clock behind advance_frameno() are modelled in Timeline.        *)
GrabLoop ==
    /\ pc["grab"] = "loop"
    /\ pc' = [pc EXCEPT !["grab"] = IF running THEN "paused" ELSE "signal"]
    /\ UNCHANGED <<controlVars, waiters, imageVars, soundVars, cleanVars>>

(* paused(): act on a pending toggle, tell whether to sit the turn out.    *)
GrabPaused ==
    LET now == IF pause_state_changed THEN ~paused ELSE paused IN
    /\ pc["grab"] = "paused"
    /\ paused' = now
    /\ pause_state_changed' = FALSE
    /\ IF paused /\ ~now THEN Broadcast("pause_cond") ELSE UNCHANGED waiters
    /\ pausedPeriods' = IF now /\ ~paused THEN 0 ELSE pausedPeriods
    /\ pc' = [pc EXCEPT !["grab"] = IF now THEN "loop" ELSE "advance"]
    /\ UNCHANGED <<args, running, aborted, pauses, spurious, imageVars, cleanVars,
                   sound_buffer, buff, captured, written>>

(* One frame, several when behind the sound, none when far ahead of it.    *)
GrabAdvance(increment) ==
    /\ pc["grab"] = "advance"
    /\ frameno + increment <= MaxFrames
    /\ frameno' = frameno + increment
    /\ pc' = [pc EXCEPT !["grab"] = IF increment > 0 THEN "publish" ELSE "loop"]
    /\ UNCHANGED <<controlVars, waiters, soundVars, cleanVars, capture_frameno,
                   encode_frameno, last_encode_frameno, emitted>>

(* Deviation: publish without waking the consumer.                         *)
GrabPublishNoSignal ==
    /\ Go("grab", "publish", "loop")
    /\ ImgBuffReadyMutexFree
    /\ capture_frameno' = frameno
    /\ UNCHANGED <<controlVars, waiters, soundVars, cleanVars, frameno,
                   encode_frameno, last_encode_frameno, emitted>>

GrabPublish ==
    /\ Go("grab", "publish", "loop")
    /\ ImgBuffReadyMutexFree
    /\ capture_frameno' = frameno
    /\ Signal("image_buffer_ready")
    /\ UNCHANGED <<controlVars, soundVars, cleanVars, frameno,
                   encode_frameno, last_encode_frameno, emitted>>

(* On the way out: a signal sent without img_buff_ready_mutex ...          *)
GrabSignalExit ==
    /\ Go("grab", "signal", "unpause")
    /\ Signal("image_buffer_ready")
    /\ UNCHANGED <<controlVars, imageVars, soundVars, cleanVars>>

(* ... and the end of a pause that may be on.                              *)
GrabUnpauseExit ==
    /\ Go("grab", "unpause", "done")
    /\ paused' = FALSE
    /\ Broadcast("pause_cond")
    /\ UNCHANGED <<args, running, aborted, pause_state_changed, pauses, spurious,
                   imageVars, soundVars, cleanVars>>
-----------------------------------------------------------------------------
(* The consumer of frames.  rmdEncodeImageBuffers waits out a pause, then  *)
(* for a frame; rmdCacheImageBuffer does it in the other order.            *)
ImgTop == IF args.encOnTheFly THEN "pause" ELSE "test"

ImgStart ==
    /\ Go("img", "start", "loop")
    /\ th_encoding_clean' = (IF args.encOnTheFly THEN FALSE ELSE th_encoding_clean)
    /\ UNCHANGED <<controlVars, waiters, imageVars, soundVars, v_encoding_clean>>

ImgLoop ==
    /\ pc["img"] = "loop"
    /\ pc' = [pc EXCEPT !["img"] = IF running THEN ImgTop ELSE "finish"]
    /\ UNCHANGED <<controlVars, waiters, imageVars, soundVars, cleanVars>>

(* while (paused) wait(pause_cond): paused only changes under pause_mutex. *)
ImgPause ==
    /\ At("img", "pause") /\ ~Blocked("img")
    /\ \/ /\ paused
          /\ Wait("img", "pause_cond")
          /\ UNCHANGED pc
       \/ /\ ~paused
          /\ pc' = [pc EXCEPT !["img"] = IF args.encOnTheFly THEN "test" ELSE "sink"]
          /\ UNCHANGED waiters
    /\ UNCHANGED <<controlVars, imageVars, soundVars, cleanVars>>

(* Deviation: the wait loop compares with > and never waits.               *)
ImgTestIf ==
    /\ At("img", "test") /\ ~Blocked("img")
    /\ \/ /\ running /\ encode_frameno > capture_frameno
          /\ pc' = [pc EXCEPT !["img"] = "towait"]
          /\ UNCHANGED encode_frameno
       \/ /\ ~(running /\ encode_frameno > capture_frameno)
          /\ encode_frameno' = capture_frameno
          /\ pc' = [pc EXCEPT !["img"] = IF args.encOnTheFly THEN "sink" ELSE "pause"]
    /\ UNCHANGED <<controlVars, waiters, soundVars, cleanVars, frameno,
                   capture_frameno, last_encode_frameno, emitted>>

(* The wait loop's test, the mutex held; when it fails, take the frame.    *)
ImgTest ==
    /\ At("img", "test") /\ ~Blocked("img")
    /\ \/ /\ running /\ encode_frameno >= capture_frameno
          /\ pc' = [pc EXCEPT !["img"] = "towait"]
          /\ UNCHANGED encode_frameno
       \/ /\ ~(running /\ encode_frameno >= capture_frameno)
          /\ encode_frameno' = capture_frameno
          /\ pc' = [pc EXCEPT !["img"] = IF args.encOnTheFly THEN "sink" ELSE "pause"]
    /\ UNCHANGED <<controlVars, waiters, soundVars, cleanVars, frameno,
                   capture_frameno, last_encode_frameno, emitted>>

ImgWait ==
    /\ Go("img", "towait", "test")
    /\ Wait("img", "image_buffer_ready")
    /\ UNCHANGED <<controlVars, imageVars, soundVars, cleanVars>>

(* The frame and the clones that make up for the ones skipped: a frame is  *)
(* emitted even when encode_frameno has not moved.                         *)
FramesFor(n_frames) == IF n_frames > 1 THEN n_frames ELSE 1

(* Deviation: the frames emitted are not counted as done.                  *)
ImgSinkUncounted ==
    /\ Go("img", "sink", "loop")
    /\ emitted' = emitted + FramesFor(encode_frameno - last_encode_frameno)
    /\ UNCHANGED <<controlVars, waiters, soundVars, cleanVars, frameno,
                   capture_frameno, encode_frameno, last_encode_frameno>>

ImgSink ==
    /\ Go("img", "sink", "loop")
    /\ emitted' = emitted + FramesFor(encode_frameno - last_encode_frameno)
    /\ last_encode_frameno' = encode_frameno
    /\ UNCHANGED <<controlVars, waiters, soundVars, cleanVars, frameno,
                   capture_frameno, encode_frameno>>

(* theora_encode_YUVin() refuses the frame: the next one makes up for it.  *)
ImgEncoderNotReady ==
    /\ args.encOnTheFly
    /\ Go("img", "sink", "loop")
    /\ UNCHANGED <<controlVars, waiters, imageVars, soundVars, cleanVars>>

ImgFinish ==
    /\ Go("img", "finish", "done")
    /\ th_encoding_clean' = TRUE
    /\ UNCHANGED <<controlVars, waiters, imageVars, soundVars, v_encoding_clean>>
-----------------------------------------------------------------------------
(* rmdCaptureAudio.  It reads running and paused without a mutex, and it   *)
(* waits on pause_cond once, without testing paused again.                 *)
SndLoop ==
    /\ pc["snd"] = "loop"
    /\ pc' = [pc EXCEPT !["snd"] = IF running THEN "check" ELSE "done"]
    /\ UNCHANGED <<controlVars, waiters, imageVars, soundVars, cleanVars>>

(* Deviation: the capture thread does not look at paused.                  *)
SndCheckNoPause ==
    /\ Go("snd", "check", "read")
    /\ UNCHANGED <<controlVars, waiters, imageVars, soundVars, cleanVars>>

SndCheck ==
    /\ pc["snd"] = "check"
    /\ pc' = [pc EXCEPT !["snd"] = IF paused THEN "towait" ELSE "read"]
    /\ UNCHANGED <<controlVars, waiters, imageVars, soundVars, cleanVars>>

SndWait ==
    /\ Go("snd", "towait", "resume")
    /\ Wait("snd", "pause_cond")
    /\ UNCHANGED <<controlVars, imageVars, soundVars, cleanVars>>

SndResume ==
    /\ ~Blocked("snd")
    /\ Go("snd", "resume", "read")
    /\ UNCHANGED <<controlVars, waiters, imageVars, soundVars, cleanVars>>

(* The device was closed for the pause and cannot be opened again.         *)
SndReopenFails ==
    /\ args.hardPause /\ ~Blocked("snd")
    /\ Go("snd", "resume", "done")
    /\ running' = FALSE
    /\ UNCHANGED <<args, aborted, paused, pause_state_changed, pauses, spurious,
                   waiters, imageVars, soundVars, cleanVars>>

(* snd_pcm_readi() until a period is complete; the bound applies while     *)
(* running, so that a shutdown never waits for the device.                 *)
SndRead ==
    /\ Go("snd", "read", "queue")
    /\ captured < MaxPeriods \/ ~running
    /\ captured' = captured + 1
    /\ UNCHANGED <<controlVars, waiters, imageVars, cleanVars,
                   sound_buffer, buff, written, pausedPeriods>>

(* Deviation: the consumer of periods is not woken.                        *)
SndQueueNoSignal ==
    /\ Go("snd", "queue", "loop")
    /\ SoundBufferMutexFree
    /\ sound_buffer' = Append(sound_buffer, captured)
    /\ pausedPeriods' = IF paused THEN pausedPeriods + 1 ELSE pausedPeriods
    /\ UNCHANGED <<controlVars, waiters, imageVars, cleanVars, buff, captured, written>>

SndQueue ==
    /\ Go("snd", "queue", "loop")
    /\ SoundBufferMutexFree
    /\ sound_buffer' = Append(sound_buffer, captured)
    /\ Signal("sound_data_read")
    /\ pausedPeriods' = IF paused THEN pausedPeriods + 1 ELSE pausedPeriods
    /\ UNCHANGED <<controlVars, imageVars, cleanVars, buff, captured, written>>
-----------------------------------------------------------------------------
(* The consumer of periods: rmdEncodeAudioBuffers, rmdCacheAudioBuffer.    *)
AudStart ==
    /\ Go("aud", "start", "loop")
    /\ v_encoding_clean' = (IF args.encOnTheFly THEN FALSE ELSE v_encoding_clean)
    /\ UNCHANGED <<controlVars, waiters, imageVars, soundVars, th_encoding_clean>>

AudLoop ==
    /\ pc["aud"] = "loop"
    /\ pc' = [pc EXCEPT !["aud"] = IF running THEN "pause" ELSE "finish"]
    /\ UNCHANGED <<controlVars, waiters, imageVars, soundVars, cleanVars>>

AudPause ==
    /\ At("aud", "pause") /\ ~Blocked("aud")
    /\ \/ /\ paused
          /\ Wait("aud", "pause_cond")
          /\ UNCHANGED pc
       \/ /\ ~paused
          /\ pc' = [pc EXCEPT !["aud"] = "test"]
          /\ UNCHANGED waiters
    /\ UNCHANGED <<controlVars, imageVars, soundVars, cleanVars>>

(* Deviation: the newest period is taken instead of the oldest.            *)
AudTestLIFO ==
    LET n == Len(sound_buffer) IN
    /\ At("aud", "test") /\ ~Blocked("aud")
    /\ \/ /\ n = 0 /\ running
          /\ pc' = [pc EXCEPT !["aud"] = "towait"]
          /\ UNCHANGED <<sound_buffer, buff>>
       \/ /\ n = 0 /\ ~running
          /\ buff' = 0
          /\ pc' = [pc EXCEPT !["aud"] = "check"]
          /\ UNCHANGED sound_buffer
       \/ /\ n # 0
          /\ buff' = sound_buffer[n]
          /\ sound_buffer' = SubSeq(sound_buffer, 1, n - 1)
          /\ pc' = [pc EXCEPT !["aud"] = "check"]
    /\ UNCHANGED <<controlVars, waiters, imageVars, cleanVars, captured,
                   written, pausedPeriods>>

(* The wait loop's test, the mutex held; when it fails, dequeue.           *)
AudTest ==
    /\ At("aud", "test") /\ ~Blocked("aud")
    /\ \/ /\ sound_buffer = <<>> /\ running
          /\ pc' = [pc EXCEPT !["aud"] = "towait"]
          /\ UNCHANGED <<sound_buffer, buff>>
       \/ /\ sound_buffer = <<>> /\ ~running
          /\ buff' = 0
          /\ pc' = [pc EXCEPT !["aud"] = "check"]
          /\ UNCHANGED sound_buffer
       \/ /\ sound_buffer # <<>>
          /\ buff' = Head(sound_buffer)
          /\ sound_buffer' = Tail(sound_buffer)
          /\ pc' = [pc EXCEPT !["aud"] = "check"]
    /\ UNCHANGED <<controlVars, waiters, imageVars, cleanVars, captured,
                   written, pausedPeriods>>

AudWait ==
    /\ Go("aud", "towait", "test")
    /\ Wait("aud", "sound_data_read")
    /\ UNCHANGED <<controlVars, imageVars, soundVars, cleanVars>>

(* if (!running) break: the period in hand goes no further.                *)
AudCheck ==
    /\ pc["aud"] = "check"
    /\ pc' = [pc EXCEPT !["aud"] = IF running THEN "sink" ELSE "finish"]
    /\ UNCHANGED <<controlVars, waiters, imageVars, soundVars, cleanVars>>

AudSink ==
    /\ Go("aud", "sink", "loop")
    /\ written' = buff
    /\ buff' = 0
    /\ UNCHANGED <<controlVars, waiters, imageVars, cleanVars, sound_buffer,
                   captured, pausedPeriods>>

AudFinish ==
    /\ Go("aud", "finish", "done")
    /\ v_encoding_clean' = TRUE
    /\ UNCHANGED <<controlVars, waiters, imageVars, soundVars, th_encoding_clean>>
-----------------------------------------------------------------------------
(* rmdThreads after the threads exist.                                     *)
MainJoinGrab ==
    /\ Done("grab")
    /\ Go("main", "joinGrab", "wakeImg")
    /\ UNCHANGED <<controlVars, waiters, imageVars, soundVars, cleanVars>>

(* while (!th_encoding_clean) signal(image_buffer_ready), every 10 ms.     *)
MainWakeImg ==
    /\ At("main", "wakeImg")
    /\ IF th_encoding_clean
       THEN /\ pc' = [pc EXCEPT !["main"] = "joinImg"]
            /\ UNCHANGED waiters
       ELSE /\ Signal("image_buffer_ready")
            /\ UNCHANGED pc
    /\ UNCHANGED <<controlVars, imageVars, soundVars, cleanVars>>

MainJoinImg ==
    /\ Done("img")
    /\ Go("main", "joinImg", IF args.nosound THEN "done" ELSE "joinSnd")
    /\ UNCHANGED <<controlVars, waiters, imageVars, soundVars, cleanVars>>

MainJoinSnd ==
    /\ Done("snd")
    /\ Go("main", "joinSnd", "wakeAud")
    /\ UNCHANGED <<controlVars, waiters, imageVars, soundVars, cleanVars>>

(* Deviation: no one wakes the sound encoder.                              *)
MainWakeAudNone ==
    /\ Go("main", "wakeAud", "joinAud")
    /\ UNCHANGED <<controlVars, waiters, imageVars, soundVars, cleanVars>>

MainWakeAud ==
    /\ At("main", "wakeAud")
    /\ IF v_encoding_clean
       THEN /\ pc' = [pc EXCEPT !["main"] = "joinAud"]
            /\ UNCHANGED waiters
       ELSE /\ Signal("sound_data_read")
            /\ UNCHANGED pc
    /\ UNCHANGED <<controlVars, imageVars, soundVars, cleanVars>>

MainJoinAud ==
    /\ Done("aud")
    /\ Go("main", "joinAud", "done")
    /\ UNCHANGED <<controlVars, waiters, imageVars, soundVars, cleanVars>>
-----------------------------------------------------------------------------
Grab == GrabLoop \/ GrabPaused \/ (\E n \in 0..MaxClone : GrabAdvance(n))
          \/ GrabPublish \/ GrabSignalExit \/ GrabUnpauseExit
Img  == ImgStart \/ ImgLoop \/ ImgPause \/ ImgTest \/ ImgWait \/ ImgSink
          \/ ImgEncoderNotReady \/ ImgFinish
Snd  == SndLoop \/ SndCheck \/ SndWait \/ SndResume \/ SndReopenFails
          \/ SndRead \/ SndQueue
Aud  == AudStart \/ AudLoop \/ AudPause \/ AudTest \/ AudWait \/ AudCheck
          \/ AudSink \/ AudFinish
Main == rmdRegisterCallbacks \/ MainJoinGrab \/ MainWakeImg \/ MainJoinImg
          \/ MainJoinSnd \/ MainWakeAud \/ MainJoinAud
Signals == rmdSetPaused \/ (\E s \in EndSignals : rmdSetRunning(s))
             \/ (\E t \in Thread, c \in Cond : SpuriousWakeup(t, c))

(* rmdThreads returns when main is done.                                   *)
Next == Grab \/ Img \/ Snd \/ Aud \/ Main \/ Signals

Spec == Init /\ [][Next]_vars

(* The scheduler runs every thread that can run.  Nothing forces a signal, *)
(* a spurious wakeup, or the encoder to accept a frame.                    *)
FairSpec == Spec /\ WF_vars(Grab) /\ WF_vars(Img) /\ WF_vars(Snd)
                 /\ WF_vars(Aud) /\ WF_vars(Main)
-----------------------------------------------------------------------------
(* Every variable keeps to its values, program counters included.          *)
MainLabels == {"register", "joinGrab", "wakeImg", "joinImg", "joinSnd", "wakeAud",
               "joinAud", "done"}
GrabLabels == {"loop", "paused", "advance", "publish", "signal", "unpause", "done"}
ImgLabels  == {"start", "loop", "pause", "test", "towait", "sink", "finish", "done"}
SndLabels  == {"loop", "check", "towait", "resume", "read", "queue", "done"}
AudLabels  == ImgLabels \cup {"check"}
Label == MainLabels \cup GrabLabels \cup ImgLabels \cup SndLabels \cup AudLabels

TypeOK ==
    /\ args \in Args
    /\ pc \in [Thread -> Label]
    /\ pc["main"] \in MainLabels /\ pc["grab"] \in GrabLabels
    /\ pc["img"] \in ImgLabels /\ pc["snd"] \in SndLabels /\ pc["aud"] \in AudLabels
    /\ running \in BOOLEAN /\ aborted \in BOOLEAN
    /\ paused \in BOOLEAN /\ pause_state_changed \in BOOLEAN
    /\ waiters \in [Cond -> SUBSET Thread]
    /\ frameno \in 0..MaxFrames /\ capture_frameno \in 0..MaxFrames
    /\ encode_frameno \in 0..MaxFrames /\ last_encode_frameno \in 0..MaxFrames
    /\ sound_buffer \in Seq(Nat) /\ buff \in Nat
    /\ th_encoding_clean \in BOOLEAN /\ v_encoding_clean \in BOOLEAN
    /\ emitted \in Nat /\ captured \in Nat /\ written \in Nat
    /\ pausedPeriods \in Nat
    /\ pauses \in 0..MaxPauses /\ spurious \in 0..MaxSpurious

(* A condition's wait set holds only the threads whose code waits on it, at*)
(* the place where it does: no wakeup is meant for one and taken by another.*)
WaitersInPlace ==
    /\ waiters["image_buffer_ready"] \subseteq {"img"}
    /\ waiters["sound_data_read"] \subseteq {"aud"}
    /\ waiters["pause_cond"] \subseteq {"img", "snd", "aud"}
    /\ "img" \in waiters["image_buffer_ready"] => At("img", "test")
    /\ "aud" \in waiters["sound_data_read"] => At("aud", "test")
    /\ "img" \in waiters["pause_cond"] => At("img", "pause")
    /\ "aud" \in waiters["pause_cond"] => At("aud", "pause")
    /\ "snd" \in waiters["pause_cond"] => At("snd", "resume")

(* The consumer never gets ahead of what was published, nor that of what   *)
(* was counted, whichever thread runs when.                                *)
NumbersInOrder ==
    /\ last_encode_frameno <= encode_frameno
    /\ encode_frameno <= capture_frameno
    /\ capture_frameno <= frameno

(* The length of the video agrees with the timeline: skipped frames are    *)
(* cloned, none is emitted twice, except that the last pass of a consumer  *)
(* woken by the shutdown may add a single frame.                           *)
FramesInStep ==
    \/ emitted = last_encode_frameno
    \/ ~running /\ emitted = last_encode_frameno + 1

(* No period is lost, repeated or reordered between the sound device and   *)
(* the stream or cache, up to the ones left behind when running ends.      *)
InHand  == IF buff = 0 THEN 0 ELSE 1
InFlight == IF At("snd", "queue") THEN 1 ELSE 0
AudioInOrder ==
    /\ buff # 0 => buff = written + 1
    /\ \A i \in 1..Len(sound_buffer) : sound_buffer[i] = written + InHand + i
    /\ captured = written + InHand + Len(sound_buffer) + InFlight

(* The consumer of periods never works on a NULL buffer: it can leave its  *)
(* wait without one, but then running is FALSE for good.                   *)
NoNullBuffer == At("aud", "sink") => buff # 0

(* What is recorded of sound, on its way to the track.                     *)
SoundKept == TypeOK /\ AudioInOrder /\ NoNullBuffer

(* A pause records one period at most, the one being read when it began,   *)
(* and one for each wakeup nobody signalled, since paused is not retested. *)
OnePeriodPerPause == pausedPeriods <= 1 + spurious

(* No wakeup is lost while recording: a consumer that sleeps has nothing   *)
(* to take, and sits out a pause only while there is one.  (Sound capture  *)
(* does not test paused again before it waits, and may sleep on.)          *)
NothingMissed ==
    /\ "img" \in waiters["image_buffer_ready"] => encode_frameno >= capture_frameno
    /\ "aud" \in waiters["sound_data_read"] => sound_buffer = <<>>
    /\ {"img", "aud"} \cap waiters["pause_cond"] # {} => paused

(* Nor is one at the end, encoding on the fly: what rmdThreads joins is not*)
(* asleep when it stops repeating the signal, even a consumer that has not *)
(* started yet when it looked (rmd_threads.c:132).                         *)
JoinedAwake ==
    args.encOnTheFly => /\ At("main", "joinImg") => ~Blocked("img")
                        /\ At("main", "joinAud") => ~Blocked("aud")

(* The consumers are awake when there is something to do, or to end.       *)
ConsumersAwake == NothingMissed /\ JoinedAwake

(* On the way to the video: a published frame is picked up, unless the     *)
(* recording pauses or stops.                                              *)
FrameTaken ==
    (encode_frameno < capture_frameno)
        ~> (encode_frameno = capture_frameno \/ paused \/ ~running)

(* On the way to the sound track: a period read from the device gets there,*)
(* unless the recording pauses or stops.                                   *)
PeriodTaken ==
    \A n \in 1..MaxPeriods :
        (captured >= n) ~> (written >= n \/ paused \/ ~running)

(* Encoding on the fly, a recording that is told to stop does: every thread*)
(* is joined, as long as sound capture was never asked to pause.           *)
StopsOnTheFly ==
    [](args.encOnTheFly /\ (args.nosound \/ ~pause_state_changed))
        => (~running ~> Done("main"))

(* rmd_get_frames.c:711 "Make sure the encoder/cacher doen't get lost in   *)
(* pthread_cond_wait indefinitely": it leaves once running is FALSE.       *)
ConsumerNotLost == ~running ~> Done("img")

(* The threads implement the recording Recording promises, in every step.  *)
R == INSTANCE Recording WITH
         open <- running, frames <- capture_frameno, video <- last_encode_frameno,
         extra <- emitted - last_encode_frameno, periods <- captured, sound <- written
ImplementsRecording == R!RecSpec
=============================================================================
