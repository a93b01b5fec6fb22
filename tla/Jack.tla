-------------------------------- MODULE Jack ---------------------------------
(***************************************************************************)
(* Sound from a JACK server: the client rmdStartJackClient sets up, the    *)
(* process callback that writes the ports of a period one after the other  *)
(* to a ring buffer, the thread that reads whole periods from it to encode *)
(* or to cache them, and the end: rmdThreads stops the client and waits    *)
(* for the thread, or the server goes away.                                *)
(*                                                                         *)
(* The bytes of the samples are numbered as they come, since a byte is what*)
(* the ring buffer counts: period k has those from k*PeriodSize on, first  *)
(* all of one port, then all of the next.                                  *)
(***************************************************************************)
EXTENDS Integers, Sequences

CONSTANTS
    nports,         \* number of ports recorded
    nframes,        \* a port's bytes in a period: its samples, each of some bytes
    RingSize,       \* bytes the ring buffer can hold
    MaxPeriods,     \* bound: periods recorded
    MaxPauses       \* bound: changes of paused

PeriodSize == nports * nframes

ASSUME JackAssumption ==
    /\ nports \in Nat \ {0} /\ nframes \in Nat \ {0}
    /\ RingSize \in Nat /\ RingSize >= PeriodSize
    /\ MaxPeriods \in Nat /\ MaxPauses \in Nat

VARIABLES
    encOnTheFly,
    running, paused, capture_started, pauses,
    server,             \* up, or down
    client,             \* none, active, closed
    sound_buffer,       \* the bytes in the ring buffer
    freed,              \* jack_ringbuffer_free() was called
    holder,             \* who has sound_buffer_mutex
    v_encoding_clean,
    callback,           \* the callback: idle, write, ports
    port,               \* the port it writes next
    shutdown,           \* rmdJackShutdown: idle, stop, signal, lock, done
    consumer,           \* rmdEncodeAudioBuffers or rmdCacheAudioBuffer
    main,               \* rmdInitializeData, then rmdThreads
    buffer,             \* jackbuf
    sent,               \* periods the callback took
    \* history
    overrun,            \* some bytes found no room
    heard               \* the bytes encoded or cached

flags == <<encOnTheFly, running, paused, capture_started, pauses>>
ring == <<sound_buffer, freed>>
call == <<callback, port>>
history == <<overrun, heard>>
vars == <<flags, server, client, ring, holder, v_encoding_clean,
          call, shutdown, consumer, main, buffer, sent, history>>

(* Deviation: nothing is signalled.                                        *)
Unwoken == consumer

(* pthread_cond_signal(sound_data_read): one waiter, if there is one.      *)
Woken == IF consumer = "wait" THEN "relock" ELSE consumer
Recording == main \in {"record", "free", "close", "vorbis", "join"}
Ended == main \in {"done", "failed", "crashed"}
-----------------------------------------------------------------------------
Init ==
    /\ encOnTheFly \in BOOLEAN
    /\ running = TRUE /\ paused = FALSE /\ capture_started = FALSE /\ pauses = 0
    /\ server = "up" /\ client = "none"
    /\ sound_buffer = <<>> /\ freed = FALSE /\ holder = "none"
    /\ v_encoding_clean = TRUE
    /\ callback = "idle" /\ port = 0 /\ shutdown = "idle" /\ consumer = "new" /\ main = "open"
    /\ buffer = <<>> /\ sent = 0
    /\ overrun = FALSE /\ heard = <<>>

(* rmdStartJackClient(): the client may not be opened or activated; then   *)
(* rmdSetupPorts() runs while the callback is called already.              *)
Activate ==
    /\ main = "open"
    /\ \/ client' = "active" /\ main' = "ports"
       \/ UNCHANGED client /\ main' = "failed"
    /\ UNCHANGED <<flags, server, ring, holder, v_encoding_clean, call, shutdown,
                   consumer, buffer, sent, history>>

rmdSetupPorts ==
    /\ main = "ports"
    /\ \/ UNCHANGED client /\ main' = "threads"
       \/ client' = "closed" /\ main' = "failed"
    /\ UNCHANGED <<flags, server, ring, holder, v_encoding_clean, call, shutdown,
                   consumer, buffer, sent, history>>

(* rmdThreads() creates the threads, then the callback may record.         *)
Threads ==
    /\ main = "threads" /\ main' = "record"
    /\ consumer' = IF encOnTheFly THEN "start" ELSE "top"
    /\ capture_started' = TRUE
    /\ UNCHANGED <<encOnTheFly, running, paused, pauses, server, client, ring, holder,
                   v_encoding_clean, call, shutdown, buffer, sent, history>>

(* Ctrl-C, or anything else that ends the recording; a pause.              *)
Stop ==
    /\ Recording /\ running /\ running' = FALSE
    /\ UNCHANGED <<encOnTheFly, paused, capture_started, pauses, server, client, ring, holder,
                   v_encoding_clean, call, shutdown, consumer, main, buffer, sent, history>>
Pause ==
    /\ main = "record" /\ running /\ pauses < MaxPauses
    /\ paused' = ~paused /\ pauses' = pauses + 1
    /\ UNCHANGED <<encOnTheFly, running, capture_started, server, client, ring, holder,
                   v_encoding_clean, call, shutdown, consumer, main, buffer, sent, history>>
-----------------------------------------------------------------------------
(* The server calls rmdJackCapture() once a period.                        *)
Idle == ~running \/ paused \/ ~capture_started

Called == server = "up" /\ client = "active" /\ callback = "idle"
CaptureIdle ==
    /\ Called /\ Idle
    /\ consumer' = Woken
    /\ UNCHANGED <<flags, server, client, ring, holder, v_encoding_clean, call, shutdown,
                   main, buffer, sent, history>>
CaptureBegin ==
    /\ Called /\ ~Idle /\ sent < MaxPeriods
    /\ callback' = "write"
    /\ UNCHANGED <<flags, server, client, ring, holder, v_encoding_clean, port, shutdown, consumer,
                   main, buffer, sent, history>>
CaptureLock ==
    /\ callback = "write" /\ callback' = "ports"
    /\ holder = "none" /\ holder' = "callback"
    /\ port' = 0
    /\ UNCHANGED <<flags, server, client, ring, v_encoding_clean, shutdown, consumer, main,
                   buffer, sent, history>>

(* Deviation: the ports are written the last one first.                    *)
FillBackwards ==
    LET space == RingSize - Len(sound_buffer)
        first == sent * PeriodSize + (nports - 1 - port) * nframes
    IN  sound_buffer \o [i \in 1 .. (IF space < nframes THEN space ELSE nframes) |-> first + i - 1]

(* The number of the next byte a port has for the ring buffer.             *)
NextByte == sent * PeriodSize + port * nframes

(* jack_ringbuffer_write() writes as many bytes as there is room for.      *)
Room == RingSize - Len(sound_buffer)
Fill == sound_buffer \o [i \in 1 .. (IF Room < nframes THEN Room ELSE nframes) |-> NextByte + i - 1]

(* What is done with the ring buffer once it is freed may end the process; *)
(* if it does not, there seems to be as much to read as ever, or as little,*)
(* and what is read is what was there, or anything else.                   *)
Used == main' = main \/ (freed /\ main' = "crashed")
Junk == [i \in 1..PeriodSize |-> 0]

CaptureWrite ==
    /\ callback = "ports" /\ port < nports
    /\ sound_buffer' = Fill
    /\ overrun' = (overrun \/ Room < nframes)
    /\ port' = port + 1
    /\ Used
    /\ UNCHANGED <<flags, server, client, freed, holder, v_encoding_clean, callback, shutdown,
                   consumer, buffer, sent, heard>>
CaptureEnd ==
    /\ callback = "ports" /\ port = nports
    /\ callback' = "idle" /\ port' = 0
    /\ sent' = sent + 1
    /\ consumer' = Woken
    /\ holder' = "none"
    /\ UNCHANGED <<flags, server, client, ring, v_encoding_clean, shutdown, main, buffer, history>>

(* rmdJackShutdown() gives away a mutex that is not its own, and takes it  *)
(* for good; the callback is not called any more.                          *)
ShutdownUnlock ==
    /\ server = "up" /\ client = "active" /\ callback = "idle"
    /\ server' = "down"
    /\ holder' = "none" /\ shutdown' = "stop"
    /\ UNCHANGED <<flags, client, ring, v_encoding_clean, call, consumer, main, buffer, sent, history>>
ShutdownStop ==
    /\ shutdown = "stop" /\ shutdown' = "signal"
    /\ running' = FALSE
    /\ UNCHANGED <<encOnTheFly, paused, capture_started, pauses, server, client, ring, holder,
                   v_encoding_clean, call, consumer, main, buffer, sent, history>>
ShutdownSignal ==
    /\ shutdown = "signal" /\ shutdown' = "lock"
    /\ consumer' = Woken
    /\ UNCHANGED <<flags, server, client, ring, holder, v_encoding_clean, call, main,
                   buffer, sent, history>>
ShutdownLock ==
    /\ shutdown = "lock" /\ shutdown' = "done"
    /\ holder = "none" /\ holder' = "shutdown"
    /\ UNCHANGED <<flags, server, client, ring, v_encoding_clean, call, consumer, main,
                   buffer, sent, history>>
-----------------------------------------------------------------------------
(* The thread that reads.  v_encoding_clean is cleared by the encoder only.*)
consumerFrame == <<flags, server, client, call, shutdown, sent, overrun>>

Start ==
    /\ consumer = "start" /\ consumer' = "top"
    /\ v_encoding_clean' = FALSE
    /\ UNCHANGED <<consumerFrame, ring, holder, main, buffer, heard>>
Loop ==
    /\ consumer = "top" /\ consumer' = IF running THEN "pause" ELSE "finish"
    /\ UNCHANGED <<consumerFrame, ring, holder, v_encoding_clean, main, buffer, heard>>
Lock ==
    /\ \/ consumer = "pause" /\ ~paused
       \/ consumer = "relock"
    /\ holder = "none" /\ holder' = "consumer"
    /\ consumer' = "check"
    /\ UNCHANGED <<consumerFrame, ring, v_encoding_clean, main, buffer, heard>>

(* The condition of the wait reads running first, then the ring buffer.    *)
Check ==
    /\ consumer = "check" /\ consumer' = IF running THEN "space" ELSE "take"
    /\ UNCHANGED <<consumerFrame, ring, holder, v_encoding_clean, main, buffer, heard>>
Unlocked == IF holder = "consumer" THEN "none" ELSE holder
Space ==
    /\ consumer = "space"
    /\ \/ (Len(sound_buffer) < PeriodSize \/ freed) /\ consumer' = "wait" /\ holder' = Unlocked
       \/ (Len(sound_buffer) >= PeriodSize \/ freed) /\ consumer' = "take" /\ UNCHANGED holder
    /\ Used
    /\ UNCHANGED <<consumerFrame, ring, v_encoding_clean, buffer, heard>>

(* jack_ringbuffer_read(), if the recording still goes on, and the mutex.  *)
Take ==
    /\ consumer = "take"
    /\ IF running
       THEN consumer' = "read" /\ UNCHANGED holder
       ELSE consumer' = "use" /\ holder' = Unlocked
    /\ UNCHANGED <<consumerFrame, ring, v_encoding_clean, main, buffer, heard>>
Read ==
    /\ consumer = "read" /\ consumer' = "use"
    /\ buffer' = SubSeq(sound_buffer, 1, PeriodSize) \/ (freed /\ buffer' = Junk)
    /\ sound_buffer' = SubSeq(sound_buffer, PeriodSize + 1, Len(sound_buffer))
    /\ holder' = Unlocked
    /\ Used
    /\ UNCHANGED <<consumerFrame, freed, v_encoding_clean, heard>>

(* A period that was read when the recording ends is dropped.              *)
Use ==
    /\ consumer = "use"
    /\ IF running
       THEN consumer' = "top" /\ heard' = heard \o buffer
       ELSE consumer' = "finish" /\ UNCHANGED heard
    /\ UNCHANGED <<consumerFrame, ring, holder, v_encoding_clean, main, buffer>>
Finish ==
    /\ consumer = "finish" /\ consumer' = "done"
    /\ v_encoding_clean' = TRUE
    /\ UNCHANGED <<consumerFrame, ring, holder, main, buffer, heard>>
-----------------------------------------------------------------------------
mainFrame == <<encOnTheFly, running, capture_started, pauses, server, sound_buffer, holder,
               v_encoding_clean, call, shutdown, buffer, sent, history>>

(* pthread_join(image_capture_t): rmdGetFrames ends every pause at its end.*)
JoinCapture ==
    /\ main = "record" /\ ~running /\ main' = "free"
    /\ paused' = FALSE
    /\ UNCHANGED <<mainFrame, client, freed, consumer>>

(* rmdStopJackClient(): jack_client_close() waits for the callback.        *)
FreeRing ==
    /\ main = "free" /\ main' = "close"
    /\ freed' = TRUE
    /\ UNCHANGED <<mainFrame, paused, client, consumer>>
CloseClient ==
    /\ main = "close" /\ callback = "idle" /\ main' = "vorbis"
    /\ client' = "closed"
    /\ UNCHANGED <<mainFrame, paused, freed, consumer>>

(* Deviation: the thread is joined without more ado.                       *)
WakeConsumerNever ==
    /\ main = "vorbis" /\ ~v_encoding_clean /\ main' = "join"
    /\ UNCHANGED <<mainFrame, paused, client, freed, consumer>>
(* Signals until the encoder is done; nothing is signalled for the cacher. *)
WakeConsumer ==
    /\ main = "vorbis" /\ ~v_encoding_clean
    /\ consumer' = Woken
    /\ UNCHANGED <<mainFrame, main, paused, client, freed>>

EncoderClean ==
    /\ main = "vorbis" /\ v_encoding_clean /\ main' = "join"
    /\ UNCHANGED <<mainFrame, paused, client, freed, consumer>>
JoinConsumer ==
    /\ main = "join" /\ consumer = "done" /\ main' = "done"
    /\ UNCHANGED <<mainFrame, paused, client, freed, consumer>>

Alive == ~Ended
Callback == Alive /\ (CaptureIdle \/ CaptureBegin \/ CaptureLock \/ CaptureWrite \/ CaptureEnd)
Shutdown == Alive /\ (ShutdownStop \/ ShutdownSignal \/ ShutdownLock)
Consumer == Alive /\ (Start \/ Loop \/ Lock \/ Check \/ Space \/ Take \/ Read \/ Use \/ Finish)
Main == Alive /\ (Activate \/ rmdSetupPorts \/ Threads \/ JoinCapture \/ FreeRing
                  \/ CloseClient \/ WakeConsumer \/ EncoderClean \/ JoinConsumer)

Next ==
    \/ Callback \/ Shutdown \/ Consumer \/ Main
    \/ Alive /\ (ShutdownUnlock \/ Stop \/ Pause)

(* All threads run on; the server goes away, and a pause or the recording  *)
(* ends, or not.                                                           *)
Spec == Init /\ [][Next]_vars
             /\ WF_vars(Callback) /\ WF_vars(Shutdown) /\ WF_vars(Consumer) /\ WF_vars(Main)
-----------------------------------------------------------------------------
Bytes == Seq(0 .. MaxPeriods * PeriodSize - 1)
TypeOK ==
    /\ {encOnTheFly, running, paused, capture_started, freed, v_encoding_clean, overrun} \subseteq BOOLEAN
    /\ pauses \in 0..MaxPauses /\ sent \in 0..MaxPeriods
    /\ server \in {"up", "down"} /\ client \in {"none", "active", "closed"}
    /\ {sound_buffer, buffer, heard} \subseteq Bytes
    /\ Len(sound_buffer) <= RingSize /\ Len(buffer) <= PeriodSize
    /\ holder \in {"none", "callback", "consumer", "shutdown"}
    /\ callback \in {"idle", "write", "ports"} /\ port \in 0..nports
    /\ shutdown \in {"idle", "stop", "signal", "lock", "done"}
    /\ consumer \in {"new", "start", "top", "pause", "relock", "check", "space", "wait",
                     "take", "read", "use", "finish", "done"}
    /\ main \in {"open", "ports", "threads", "record", "free", "close", "vorbis", "join",
                 "done", "failed", "crashed"}

(* What is encoded or cached are the bytes in the order they came, none    *)
(* twice; and whole periods one after the other, channel by channel, unless*)
(* the ring buffer was full once: then what follows is shifted between the *)
(* channels and within the samples (rmd_jack.c:69 "placing the buffers for *)
(* every channel sequentially on the ringbuffer").  What is read from the  *)
(* ring buffer after it was freed never gets there.                        *)
SoundWhole ==
    /\ \A i, j \in DOMAIN heard : i < j => heard[i] < heard[j]
    /\ ~overrun => /\ \A i \in DOMAIN heard : heard[i] = i - 1
                   /\ Len(heard) % PeriodSize = 0
                   /\ callback # "ports" => Len(sound_buffer) % PeriodSize = 0

(* No period is written before main has connected the ports and created    *)
(* the threads, although the server calls the client from its activation.  *)
PortsReady == callback # "idle" => Recording \/ Ended

(* What is recorded of Jack's sound, at every moment from the activation   *)
(* of the client to its end.                                               *)
SoundRight == TypeOK /\ PortsReady /\ SoundWhole

(* The reader sleeps over a whole period only while the callback has still *)
(* to signal it, unless the server is gone, as long as the ring buffer is  *)
(* there; and on the fly it is not asleep when rmdThreads joins it, whoever*)
(* stopped the recording.                                                  *)
ReaderAwake ==
    consumer = "wait" =>
        /\ ~freed /\ Len(sound_buffer) >= PeriodSize => callback = "ports" \/ server = "down"
        /\ encOnTheFly => main \notin {"join", "done"}

(* A period that waits in the ring buffer is read, or the recording pauses *)
(* or ends: the reader is not left asleep (rmd_jack.c:54 "ensure the other *)
(* side wakes up").                                                        *)
PeriodHeard ==
    consumer = "wait" /\ Len(sound_buffer) >= PeriodSize ~> consumer # "wait" \/ paused \/ ~running

(* With --on-the-fly-encoding rmdThreads comes to its end after the        *)
(* recording was stopped, even if the reader missed the callback's signal, *)
(* as it repeats it: unless the server goes away, or the process dies of   *)
(* the ring buffer that rmdStopJackClient frees before it closes the       *)
(* client.  A crash is no end here: nothing is promised of a run that has  *)
(* one.                                                                    *)
JackStops == [](main # "crashed") => (encOnTheFly /\ ~running ~> main = "done" \/ server = "down")

=============================================================================
