------------------------------- MODULE Encode -------------------------------
(***************************************************************************)
(* Encoders, the two Ogg streams and rmdFlushToOgg, which writes their     *)
(* pages to the file in the order of their times and, once running is      *)
(* FALSE, the last packet of each.  On the fly rmdEncodeImageBuffers and   *)
(* rmdEncodeAudioBuffers feed the streams; when a cache is encoded          *)
(* rmdLoadCache does alone, and ends by itself.                            *)
(* A packet is the time its frame or period ends; a page is the packets    *)
(* taken from a stream, known by the last, and whether it closes it.       *)
(***************************************************************************)
EXTENDS Integers, Sequences

CONSTANTS
    frametime_us,   \* duration of a frame
    periodtime_us,  \* duration of a sound period
    Modes,          \* onTheFly, cache: what is considered
    MaxFrames,      \* bound: frames to encode
    MaxPeriods      \* bound: sound periods to encode

ASSUME EncodeAssumption ==
    /\ frametime_us \in Nat \ {0} /\ periodtime_us \in Nat \ {0}
    /\ Modes \subseteq {"onTheFly", "cache"}
    /\ MaxFrames \in Nat /\ MaxPeriods \in Nat

Stream == {"ts", "vs"}   \* m_ogg_ts, the video; m_ogg_vs, the sound
Thread == {"video", "audio", "loader", "flush", "main"}

VARIABLES
    mode, nosound,  \* args.encOnTheFly, args.nosound
    running,
    pc,             \* where each thread is
    clean,          \* th_encoding_clean, v_encoding_clean
    packets,        \* of each stream, not yet on a page
    e_o_s,          \* of each stream
    page,           \* rmdFlushToOgg: videopage_copy, audiopage_copy, or NoPage
    fin,            \* rmdFlushToOgg: the streams that are finished
    left,           \* of each stream, what the cache or the recording still has
    avd,            \* rmdLoadCache: video ahead of sound
    audio_end,      \* rmdLoadCache
    \* history
    encoded,        \* of each stream, the packets so far
    file,           \* the pages written
    interrupted     \* running was cleared by a signal from outside

streamVars == <<packets, e_o_s, encoded>>
flushVars  == <<page, fin, file>>
loaderVars == <<left, avd, audio_end>>
vars == <<mode, nosound, running, pc, clean, streamVars, flushVars, loaderVars, interrupted>>

Streams == IF nosound THEN {"ts"} ELSE Stream
Duration(s) == IF s = "ts" THEN frametime_us ELSE periodtime_us
NoPage == [last |-> 0, eos |-> FALSE]
At(t, l) == pc[t] = l
Go(t, from, to) == pc[t] = from /\ pc' = [pc EXCEPT ![t] = to]

Init ==
    /\ mode \in Modes /\ nosound \in BOOLEAN
    /\ running = TRUE
    /\ pc = [t \in Thread |->
                CASE t = "flush" -> "top"
                  [] t = "main"  -> "join"
                  [] t = "loader" -> IF mode = "cache" THEN "loop" ELSE "done"
                  [] t = "video" -> IF mode = "onTheFly" THEN "start" ELSE "done"
                  [] t = "audio" -> IF mode = "onTheFly" /\ ~nosound THEN "start" ELSE "done"]
    /\ clean = [s \in Stream |-> TRUE]
    /\ packets = [s \in Stream |-> <<>>] /\ encoded = [s \in Stream |-> 0]
    /\ e_o_s = [s \in Stream |-> FALSE]
    /\ page = [s \in Stream |-> NoPage] /\ fin = Stream \ Streams /\ file = <<>>
    /\ left = [s \in Stream |-> IF s = "ts" THEN MaxFrames ELSE MaxPeriods]
    /\ avd = 0 /\ audio_end = FALSE
    /\ interrupted = FALSE
-----------------------------------------------------------------------------
(* SIGINT.  The process is gone once main() is done.                       *)
Interrupt ==
    /\ running /\ running' = FALSE /\ interrupted' = TRUE
    /\ UNCHANGED <<mode, nosound, pc, clean, streamVars, flushVars, loaderVars>>

(* ogg_stream_packetin(), under libogg_mutex.                              *)
PacketIn(s) ==
    /\ encoded' = [encoded EXCEPT ![s] = @ + 1]
    /\ packets' = [packets EXCEPT ![s] = Append(@, encoded'[s] * Duration(s))]
-----------------------------------------------------------------------------
(* rmdEncodeImageBuffers and rmdEncodeAudioBuffers, whose waits are in     *)
(* module Capture: while in encode they use the encoder of their stream.   *)
Of(t) == IF t = "video" THEN "ts" ELSE "vs"

EncoderStart(t) ==
    /\ Go(t, "start", "loop")
    /\ clean' = [clean EXCEPT ![Of(t)] = FALSE]
    /\ UNCHANGED <<mode, nosound, running, streamVars, flushVars, loaderVars, interrupted>>

EncoderLoop(t) ==
    /\ Go(t, "loop", IF running THEN "wait" ELSE "finish")
    /\ UNCHANGED <<mode, nosound, running, clean, streamVars, flushVars, loaderVars, interrupted>>

(* The wait for a buffer ends with the recording: the sound encoder leaves,*)
(* the image encoder encodes once more what the buffer holds.              *)
EncoderWait(t) ==
    /\ left[Of(t)] > 0 \/ ~running
    /\ Go(t, "wait", IF t = "audio" /\ ~running THEN "finish" ELSE "encode")
    /\ UNCHANGED <<mode, nosound, running, clean, streamVars, flushVars, loaderVars, interrupted>>

EncoderPacket(t) ==
    /\ Go(t, "encode", "loop")
    /\ PacketIn(Of(t))
    /\ left' = [left EXCEPT ![Of(t)] = IF @ = 0 THEN 0 ELSE @ - 1]
    /\ UNCHANGED <<mode, nosound, running, clean, e_o_s, flushVars, avd, audio_end, interrupted>>

(* Deviation: the flusher is not told.                                     *)
EncoderFinishUnset(t) ==
    /\ Go(t, "finish", "done")
    /\ UNCHANGED <<mode, nosound, running, clean, streamVars, flushVars, loaderVars, interrupted>>

EncoderFinish(t) ==
    /\ Go(t, "finish", "done")
    /\ clean' = [clean EXCEPT ![Of(t)] = TRUE]
    /\ UNCHANGED <<mode, nosound, running, streamVars, flushVars, loaderVars, interrupted>>
-----------------------------------------------------------------------------
(* rmdLoadCache: a frame when video is not ahead, or no sound is left;     *)
(* else a period.  With the last frame it raises SIGINT.                   *)
VideoTurn == avd <= 0 \/ nosound \/ audio_end
LoaderLoop ==
    /\ At("loader", "loop")
    /\ IF ~running THEN Go("loader", "loop", "finish") /\ UNCHANGED <<running, audio_end>>
       ELSE IF VideoTurn
       THEN IF left["ts"] > 0 THEN Go("loader", "loop", "encodeTs") /\ UNCHANGED <<running, audio_end>>
            ELSE running' = FALSE /\ UNCHANGED <<pc, audio_end>>
       ELSE IF left["vs"] > 0 THEN Go("loader", "loop", "encodeVs") /\ UNCHANGED <<running, audio_end>>
            ELSE audio_end' = TRUE /\ UNCHANGED <<pc, running>>
    /\ UNCHANGED <<mode, nosound, clean, streamVars, flushVars, left, avd, interrupted>>

(* Deviation: the loader goes on with the video, as avd does not move.     *)
SyncEncodeUncharged ==
    /\ PacketIn("ts")
    /\ e_o_s' = [e_o_s EXCEPT !["ts"] = @ \/ ~running]
    /\ UNCHANGED avd

(* rmdSyncEncodeImageBuffer(): the stream is closed with a packet that     *)
(* comes when running is FALSE.                                            *)
rmdSyncEncodeImageBuffer ==
    /\ PacketIn("ts")
    /\ e_o_s' = [e_o_s EXCEPT !["ts"] = @ \/ ~running]
    /\ avd' = avd + frametime_us

LoaderFrame ==
    /\ Go("loader", "encodeTs", "loop")
    /\ rmdSyncEncodeImageBuffer
    /\ left' = [left EXCEPT !["ts"] = @ - 1]
    /\ UNCHANGED <<mode, nosound, running, clean, flushVars, audio_end, interrupted>>

(* rmdSyncEncodeAudioBuffer(): running is looked at, and the stream closed,*)
(* without libogg_mutex, after the packet went in.                         *)
LoaderPeriod ==
    /\ Go("loader", "encodeVs", "closeVs")
    /\ PacketIn("vs")
    /\ left' = [left EXCEPT !["vs"] = @ - 1]
    /\ UNCHANGED <<mode, nosound, running, clean, e_o_s, flushVars, avd, audio_end, interrupted>>

LoaderClose ==
    /\ Go("loader", "closeVs", "loop")
    /\ e_o_s' = [e_o_s EXCEPT !["vs"] = @ \/ ~running]
    /\ avd' = avd - periodtime_us
    /\ UNCHANGED <<mode, nosound, running, clean, packets, encoded, flushVars, left, audio_end, interrupted>>

LoaderFinish ==
    /\ Go("loader", "finish", "done")
    /\ clean' = [s \in Stream |-> TRUE]
    /\ UNCHANGED <<mode, nosound, running, streamVars, flushVars, loaderVars, interrupted>>
-----------------------------------------------------------------------------
(* ogg_stream_pageout(), ogg_stream_flush(): the first n packets make a    *)
(* page.  It closes the stream when the stream ends and nothing is left.   *)
PageOf(s, n) == [last |-> packets[s][n], eos |-> e_o_s[s] /\ n = Len(packets[s])]

(* rmdFlushToOgg while running: a page of each stream that has none, if    *)
(* the library finds one due.                                              *)
FlushTop ==
    /\ At("flush", "top")
    /\ pc' = [pc EXCEPT !["flush"] = IF fin = Stream THEN "done" ELSE IF running THEN "pages" ELSE "ts"]
    /\ UNCHANGED <<mode, nosound, running, clean, streamVars, flushVars, loaderVars, interrupted>>

Most == 2 + MaxFrames + MaxPeriods   \* no stream holds more packets

FlushPages ==
    /\ Go("flush", "pages", "choose")
    /\ \E n \in [Stream -> 0..Most] :
           /\ \A s \in Stream : n[s] <= Len(packets[s]) /\ (page[s] # NoPage => n[s] = 0)
           /\ page' = [s \in Stream |-> IF n[s] = 0 THEN page[s] ELSE PageOf(s, n[s])]
           /\ packets' = [s \in Stream |-> SubSeq(packets[s], n[s] + 1, Len(packets[s]))]
    /\ UNCHANGED <<mode, nosound, running, clean, e_o_s, encoded, fin, file, loaderVars, interrupted>>

(* The recording over, what is left of a stream; nothing left, its last    *)
(* packet, when its encoder is clean.                                      *)
After(s) == IF s = "ts" THEN "vs" ELSE "choose"
WaitFor(s) == IF s = "ts" THEN "waitTs" ELSE "waitVs"
LastOf(s)  == IF s = "ts" THEN "lastTs" ELSE "lastVs"

FlushRest(s) ==
    /\ At("flush", s)
    /\ IF s \in fin \/ page[s] # NoPage
       THEN Go("flush", s, After(s)) /\ UNCHANGED <<packets, page>>
       ELSE IF packets[s] = <<>>
       THEN Go("flush", s, WaitFor(s)) /\ UNCHANGED <<packets, page>>
       ELSE /\ Go("flush", s, After(s))
            /\ \E n \in 1..Len(packets[s]) :
                  /\ page' = [page EXCEPT ![s] = PageOf(s, n)]
                  /\ packets' = [packets EXCEPT ![s] = SubSeq(@, n + 1, Len(@))]
    /\ UNCHANGED <<mode, nosound, running, clean, e_o_s, encoded, fin, file, loaderVars, interrupted>>

(* Deviation: the encoder is not waited for.                               *)
FlushWaitNone(s) ==
    /\ Go("flush", WaitFor(s), LastOf(s))
    /\ UNCHANGED <<mode, nosound, running, clean, streamVars, flushVars, loaderVars, interrupted>>

FlushWait(s) ==
    /\ clean[s]
    /\ Go("flush", WaitFor(s), LastOf(s))
    /\ UNCHANGED <<mode, nosound, running, clean, streamVars, flushVars, loaderVars, interrupted>>

(* rmdSyncEncodeImageBuffer(pdata, 1), rmdSyncEncodeAudioBuffer(pdata,     *)
(* NULL), whose packet the library closes the stream with.                 *)
FlushLast(s) ==
    /\ Go("flush", LastOf(s), After(s))
    /\ IF s = "ts" THEN rmdSyncEncodeImageBuffer
       ELSE /\ PacketIn("vs")
            /\ e_o_s' = [e_o_s EXCEPT !["vs"] = TRUE]
            /\ avd' = avd - periodtime_us
    /\ UNCHANGED <<mode, nosound, running, clean, flushVars, left, audio_end, interrupted>>

(* Deviation: with a page of each, the video's goes first.                 *)
FirstVideo == IF page["ts"] = NoPage THEN "vs" ELSE "ts"

(* The one that ends first; of a single stream, when the other is finished.*)
First == IF page["vs"] = NoPage THEN "ts"
         ELSE IF page["ts"] = NoPage THEN "vs"
         ELSE IF page["vs"].last < page["ts"].last THEN "vs" ELSE "ts"

(* No page is written while one of a stream that goes on is missing.       *)
FlushWrite ==
    /\ Go("flush", "choose", "top")
    /\ IF \E s \in Stream : page[s] = NoPage /\ s \notin fin
       THEN UNCHANGED <<page, fin, file>>
       ELSE /\ file' = Append(file, [stream |-> First, last |-> page[First].last, eos |-> page[First].eos])
            /\ page' = [page EXCEPT ![First] = NoPage]
            /\ fin' = IF ~running /\ page[First].eos THEN fin \cup {First} ELSE fin
    /\ UNCHANGED <<mode, nosound, running, clean, streamVars, loaderVars, interrupted>>
-----------------------------------------------------------------------------
(* rmdEncodeCache() joins the loader and the flusher; rmdThreads() waits   *)
(* until the encoders are clean and joins only them; main() then ends the  *)
(* process.                                                                *)
MainJoin ==
    /\ pc["video"] = "done" /\ pc["audio"] = "done" /\ pc["loader"] = "done"
    /\ IF mode = "cache" THEN pc["flush"] = "done" ELSE \A s \in Streams : clean[s]
    /\ Go("main", "join", "done")
    /\ UNCHANGED <<mode, nosound, running, clean, streamVars, flushVars, loaderVars, interrupted>>

Alive == ~At("main", "done")
Encoder(t) == Alive /\ (EncoderStart(t) \/ EncoderLoop(t) \/ EncoderWait(t) \/ EncoderPacket(t) \/ EncoderFinish(t))
Loader == Alive /\ (LoaderLoop \/ LoaderFrame \/ LoaderPeriod \/ LoaderClose \/ LoaderFinish)
Flush  == Alive /\ (\/ FlushTop \/ FlushPages \/ FlushWrite
                    \/ \E s \in Stream : FlushRest(s) \/ FlushWait(s) \/ FlushLast(s))

Next == \/ \E t \in {"video", "audio"} : Encoder(t)
        \/ Loader \/ Flush \/ MainJoin
        \/ Alive /\ Interrupt

Spec == Init /\ [][Next]_vars
             /\ WF_vars(Encoder("video")) /\ WF_vars(Encoder("audio"))
             /\ WF_vars(Loader) /\ WF_vars(Flush) /\ WF_vars(MainJoin)
-----------------------------------------------------------------------------
(* Each stream gets what was left to encode, a frame repeated when the     *)
(* recording stops and one packet that closes it, and no more.             *)
TypeOK ==
    /\ mode \in Modes /\ nosound \in BOOLEAN /\ running \in BOOLEAN /\ interrupted \in BOOLEAN
    /\ pc \in [Thread -> {"start", "loop", "wait", "encode", "finish", "encodeTs", "encodeVs", "closeVs",
                          "top", "pages", "ts", "vs", "choose", "waitTs", "waitVs", "lastTs", "lastVs",
                          "join", "done"}]
    /\ clean \in [Stream -> BOOLEAN] /\ e_o_s \in [Stream -> BOOLEAN]
    /\ encoded["ts"] \in 0..(MaxFrames + 2) /\ encoded["vs"] \in 0..(MaxPeriods + 1)
    /\ \A s \in Stream : Len(packets[s]) <= encoded[s]
    /\ page \in [Stream -> [last : Nat, eos : BOOLEAN]] /\ fin \subseteq Stream
    /\ left["ts"] \in 0..MaxFrames /\ left["vs"] \in 0..MaxPeriods
    /\ avd \in Int /\ audio_end \in BOOLEAN

(* When a recording is encoded on the fly or a cache to its end: of a cache*)
(* whose encoding is stopped with a signal the rest may be lost.           *)
Undisturbed == mode = "onTheFly" \/ ~interrupted

(* "in order to do correct multiplexing": the pages are written in the     *)
(* order of the times at which they end, whatever the order of encoding.   *)
PagesInOrder == \A i \in DOMAIN file : \A j \in 1..i : file[j].last <= file[i].last

(* The file as far as it is written: pages of whole packets, in order.     *)
FileRight == TypeOK /\ PagesInOrder

(* Once rmdFlushToOgg has ended, and when rmdEncodeCache has joined it,    *)
(* each stream was written to the last packet that went in, and its last   *)
(* page, and no other, closes it.  On the fly the process may end before.  *)
StreamsClosed ==
    Undisturbed /\ (At("flush", "done") \/ (mode = "cache" /\ At("main", "done"))) =>
        \A s \in Streams : \E k \in DOMAIN file :
            /\ file[k] = [stream |-> s, last |-> encoded[s] * Duration(s), eos |-> TRUE]
            /\ \A i \in DOMAIN file \ {k} : file[i].stream = s => i < k /\ ~file[i].eos

(* rmdFlushToOgg makes the last packet of a stream while no other thread   *)
(* uses the encoder of that stream: libtheora and libvorbis take no locks. *)
Encoding(s) == IF s = "ts" THEN At("video", "encode") \/ At("loader", "encodeTs")
               ELSE At("audio", "encode") \/ At("loader", "encodeVs")
EncoderExclusive ==
    Undisturbed => \A s \in Stream : ~(At("flush", LastOf(s)) /\ Encoding(s))

(* rmdLoadCache ends by itself only with the last frame, and takes sound   *)
(* whenever video is ahead: of a cache that is encoded to its end all the  *)
(* frames are in the video, and all the sound, or sound no shorter than    *)
(* the video (rmd_load_cache.c:211 "If sound finishes first,we go on with  *)
(* the video").                                                            *)
Loaded(s) == (IF s = "ts" THEN MaxFrames ELSE MaxPeriods) - left[s]
CacheEncoded ==
    mode = "cache" /\ ~running /\ ~interrupted =>
        /\ left["ts"] = 0
        /\ nosound \/ left["vs"] = 0 \/ Loaded("vs") * periodtime_us >= MaxFrames * frametime_us
        /\ \A s \in Stream : encoded[s] >= Loaded(s)

(* The file is complete when rmdFlushToOgg has ended.                      *)
FileComplete == StreamsClosed /\ CacheEncoded

(* When the recording is over, rmdFlushToOgg ends, or the process does.    *)
FlushEnds == ~running ~> At("flush", "done") \/ At("main", "done")

=============================================================================
