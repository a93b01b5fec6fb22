----------------------------- MODULE CacheFile -----------------------------
(***************************************************************************)
(* The cache of pictures: rmdCacheImageBuffer writes frames to a CacheFile *)
(* that goes on in a further chapter when one is full, each open chapter   *)
(* with a thread that allocates its space and syncs it; rmdLoadCache reads *)
(* them back, rmdPurgeCache removes the chapters.  A byte stands for what  *)
(* one rmdCacheFileWrite() writes: the n-th frame is its header <<n, 0>>   *)
(* and its indexes and blocks <<n, 1>>, <<n, 2>>, ...                      *)
(***************************************************************************)
EXTENDS Integers, Sequences, SequencesExt

CONSTANTS
    CACHE_FILE_SIZE_LIMIT,
    MaxFrames,   \* bound: frames cached
    MaxBody,     \* bound: writes of a frame beside its header
    MaxFailures  \* bound: opens, closes and writes that fail

ASSUME CacheAssumption ==
    /\ CACHE_FILE_SIZE_LIMIT \in Nat /\ MaxFrames \in Nat
    /\ MaxBody \in Nat /\ MaxFailures \in Nat

VARIABLES
    compressed, \* args.zerocompression is 0: written with zlib
    pc,         \* where the cacher, then the loader, then main() is
    file,       \* the CacheFile: fp (or NULL), chapter, chapter_n_bytes
    syncer,     \* rmdCacheFileSyncer: none, allocate, sync; its fd; cancelled
    exists,     \* the chapters that exist, by number, 0 the first
    data,       \* what was written to each
    allocated,  \* the chapters posix_fallocate() brought to their full size
    todo,       \* writer: what is left to write of the frame in hand
    sizes,      \* writer: of each frame, the number of writes beside its header
    reading,    \* loader: frame, position in the chapter, bytes to read, bytes read
    loaded,     \* loader: the frames rebuilt, with what was read as their body
    nth_cache,  \* rmdPurgeCache: the chapter it has come to
    \* history
    failures, crashed

fileVars   == <<file, syncer, exists, data, allocated>>
writerVars == <<todo, sizes>>
readerVars == <<reading, loaded, nth_cache>>
history    == <<failures, crashed>>
vars == <<compressed, pc, fileVars, writerVars, readerVars, history>>

Chapters == 0 .. MaxFrames * (MaxBody + 1)
NULL == -1
Byte == (0..MaxFrames) \X (0..MaxBody)
Zero == <<0, 0>>
NoSyncer == [state |-> "none", fd |-> NULL, cancelled |-> FALSE]
Opened(c) == [fp |-> c, chapter |-> c, chapter_n_bytes |-> 0]
At(l) == pc = l
Go(from, to) == pc = from /\ pc' = to

(* rmdInitCacheData() opens the first chapter, which starts its syncer.    *)
Init ==
    /\ compressed \in BOOLEAN
    /\ pc = "idle"
    /\ file = Opened(0)
    /\ syncer = [NoSyncer EXCEPT !.state = "allocate", !.fd = 0]
    /\ exists = {0} /\ data = [c \in Chapters |-> <<>>] /\ allocated = {}
    /\ todo = <<>> /\ sizes = <<>>
    /\ reading = [frame |-> 0, at |-> 0, len |-> 0, got |-> <<>>] /\ loaded = <<>>
    /\ nth_cache = 0
    /\ failures = 0 /\ crashed = FALSE
-----------------------------------------------------------------------------
(* The syncer allocates the chapter, then syncs it from time to time until *)
(* it is cancelled, which may be before or after the allocation is done.   *)
SyncerAllocates ==
    /\ syncer.state = "allocate"
    /\ allocated' = allocated \cup {syncer.fd}
    /\ syncer' = [syncer EXCEPT !.state = "sync"]
    /\ UNCHANGED <<compressed, pc, file, exists, data, writerVars, readerVars, history>>

SyncerEnds ==
    /\ syncer.state # "none" /\ syncer.cancelled
    /\ syncer' = NoSyncer
    /\ UNCHANGED <<compressed, pc, file, exists, data, allocated, writerVars, readerVars, history>>
-----------------------------------------------------------------------------
(* Deviation: the number is counted up once more.                          *)
OpenForWritingTwice(c) ==
    /\ file' = Opened(c + 1)
    /\ exists' = exists \cup {c + 1}
    /\ syncer' = [NoSyncer EXCEPT !.state = "allocate", !.fd = c + 1]

(* _rmdCacheFileOpen(): a new chapter and its syncer.                      *)
OpenForWriting(c) ==
    /\ file' = Opened(c)
    /\ exists' = exists \cup {c}
    /\ syncer' = [NoSyncer EXCEPT !.state = "allocate", !.fd = c]

(* Deviation: the count starts anew before it is known if the open works.  *)
OpenFailsCleared(c) ==
    /\ failures < MaxFailures /\ failures' = failures + 1
    /\ file' = [Opened(c) EXCEPT !.fp = NULL]

(* The chapter has no file, its number is used up all the same.            *)
OpenFails(c) ==
    /\ failures < MaxFailures /\ failures' = failures + 1
    /\ file' = [file EXCEPT !.chapter = c]

(* rmdCacheImageBuffer: the writes of a frame, its header first.           *)
StartFrame(n) ==
    /\ At("idle") /\ Len(sizes) < MaxFrames
    /\ Go("idle", "write")
    /\ sizes' = Append(sizes, n)
    /\ todo' = [i \in 1..n+1 |-> <<Len(sizes'), i - 1>>]
    /\ UNCHANGED <<compressed, fileVars, readerVars, history>>

(* The next write, whatever became of the last: nobody looks.              *)
NextWrite == /\ todo' = Tail(todo)
             /\ pc' = IF Len(todo) = 1 THEN "idle" ELSE "write"
             /\ UNCHANGED <<compressed, sizes, readerVars>>

Full == file.chapter_n_bytes > CACHE_FILE_SIZE_LIMIT

(* Deviation: the syncer is joined, but was not cancelled.                 *)
CloseFullUncancelled ==
    /\ At("write") /\ Full
    /\ pc' = IF file.fp = NULL THEN "open" ELSE "join"
    /\ UNCHANGED <<compressed, fileVars, writerVars, readerVars, history>>

(* rmdCacheFileWrite(): a full chapter is closed first, if it is open.     *)
CloseFull ==
    /\ At("write") /\ Full
    /\ IF file.fp = NULL THEN pc' = "open" /\ UNCHANGED syncer
       ELSE pc' = "join" /\ syncer' = [syncer EXCEPT !.cancelled = TRUE]
    /\ UNCHANGED <<compressed, file, exists, data, allocated, writerVars, readerVars, history>>

(* _rmdCacheFileClose() with the syncer joined.                            *)
Close ==
    /\ syncer.state = "none"
    /\ file' = [file EXCEPT !.fp = NULL]

CloseWorks ==
    /\ Go("join", "open")
    /\ Close
    /\ UNCHANGED <<compressed, syncer, exists, data, allocated, writerVars, readerVars, history>>

(* What was not flushed yet is lost, and so is the write.                  *)
CloseFails ==
    /\ At("join") /\ failures < MaxFailures /\ failures' = failures + 1
    /\ Close
    /\ \E n \in 0..Len(data[file.fp]) :
           data' = [data EXCEPT ![file.fp] = SubSeq(@, 1, n)]
    /\ NextWrite
    /\ UNCHANGED <<syncer, exists, allocated, crashed>>

OpenNext ==
    /\ At("open")
    /\ \/ /\ pc' = "put"
          /\ OpenForWriting(file.chapter + 1)
          /\ UNCHANGED <<compressed, data, allocated, writerVars, readerVars, history>>
       \/ /\ OpenFails(file.chapter + 1)
          /\ NextWrite
          /\ UNCHANGED <<syncer, exists, data, allocated, crashed>>

Put ==
    /\ At("put") \/ (At("write") /\ ~Full)
    /\ \/ /\ data' = [data EXCEPT ![file.fp] = Append(@, Head(todo))]
          /\ file' = [file EXCEPT !.chapter_n_bytes = @ + 1]
          /\ UNCHANGED failures
       \/ /\ failures < MaxFailures /\ failures' = failures + 1
          /\ UNCHANGED <<data, file>>
    /\ NextWrite
    /\ UNCHANGED <<syncer, exists, allocated, crashed>>

(* The recording ends: the last chapter is closed, if it is open.          *)
EndRecording ==
    /\ Go("idle", "last")
    /\ syncer' = [syncer EXCEPT !.cancelled = file.fp # NULL]
    /\ UNCHANGED <<compressed, file, exists, data, allocated, writerVars, readerVars, history>>

(* main() goes on with the cache's encoding; aborted, with its removal.    *)
CloseLast ==
    /\ At("last") /\ pc' \in {"load", "purge"}
    /\ Close
    /\ UNCHANGED <<compressed, syncer, exists, data, allocated, writerVars, readerVars, history>>

(* The program dies, threads and all.  Of the chapter that was open any    *)
(* part was written out.  zlib's stream is cut and allocated space follows:*)
(* the reader may get zeros of it.  What is left is loaded by rmdRescue(). *)
Crash ==
    /\ pc \in {"idle", "write", "join", "open", "put", "last"}
    /\ pc' = "load" /\ crashed' = TRUE
    /\ syncer' = NoSyncer
    /\ IF file.fp = NULL THEN UNCHANGED data
       ELSE \E n \in 0..Len(data[file.fp]), z \in 0..CACHE_FILE_SIZE_LIMIT :
               /\ z > 0 => compressed /\ file.fp \in allocated
               /\ data' = [data EXCEPT ![file.fp] = SubSeq(@, 1, n) \o [i \in 1..z |-> Zero]]
    /\ file' = [file EXCEPT !.fp = NULL]
    /\ UNCHANGED <<compressed, exists, allocated, writerVars, readerVars, failures>>
-----------------------------------------------------------------------------
(* What a chapter reads as: without compression, up to its allocated size. *)
Content(c) ==
    IF compressed \/ c \notin allocated THEN data[c]
    ELSE data[c] \o [i \in 1 .. CACHE_FILE_SIZE_LIMIT - Len(data[c]) |-> Zero]

Read(n) == reading' = [reading EXCEPT !.len = n, !.got = <<>>]

LoadCache ==
    /\ Go("load", "header")
    /\ file' = Opened(0)
    /\ Read(1)
    /\ UNCHANGED <<compressed, syncer, exists, data, allocated, writerVars, loaded, nth_cache, history>>

(* A round of rmdCacheFileRead(): what the chapter still has, at most len. *)
Available == Len(Content(file.fp)) - reading.at
ReadChunk ==
    LET n == IF Available < reading.len THEN Available ELSE reading.len IN
    /\ pc \in {"header", "body"} /\ reading.len > 0
    /\ reading' = [reading EXCEPT !.at = @ + n, !.len = @ - n,
                       !.got = @ \o SubSeq(Content(file.fp), reading.at + 1, reading.at + n)]
    /\ IF n = reading.len
       THEN UNCHANGED <<pc, file>>
       ELSE /\ pc' = IF At("header") THEN "headerNext" ELSE "bodyNext"
            /\ file' = [file EXCEPT !.fp = NULL]
    /\ UNCHANGED <<compressed, syncer, exists, data, allocated, writerVars, loaded, nth_cache, history>>

(* Deviation: the reader's number stays that of the first chapter.         *)
NextChapterAgain ==
    /\ pc \in {"headerNext", "bodyNext"} /\ file.chapter + 1 \in exists
    /\ pc' = IF At("headerNext") THEN "header" ELSE "body"
    /\ file' = [Opened(file.chapter + 1) EXCEPT !.chapter = file.chapter]
    /\ reading' = [reading EXCEPT !.at = 0]
    /\ UNCHANGED <<compressed, syncer, exists, data, allocated, writerVars, loaded, nth_cache, history>>

(* Only main() removes the cache, not rmdRescue().                         *)
AfterCache == IF crashed THEN "done" ELSE "purge"

(* It goes on in the next chapter, when there is one ...                   *)
NextChapter ==
    /\ pc \in {"headerNext", "bodyNext"} /\ file.chapter + 1 \in exists
    /\ pc' = IF At("headerNext") THEN "header" ELSE "body"
    /\ file' = Opened(file.chapter + 1)
    /\ reading' = [reading EXCEPT !.at = 0]
    /\ UNCHANGED <<compressed, syncer, exists, data, allocated, writerVars, loaded, nth_cache, history>>

(* ... or returns less than it was asked for, with no chapter open.        *)
EndOfCache ==
    /\ pc \in {"headerNext", "bodyNext"} /\ file.chapter + 1 \notin exists
    /\ pc' = AfterCache
    /\ UNCHANGED <<compressed, fileVars, writerVars, readerVars, history>>

(* read_header(): bytes that are no header end the cache.                  *)
IsHeader(b) == b # Zero /\ b[2] = 0
HeaderRead ==
    /\ At("header") /\ reading.len = 0
    /\ LET b == reading.got[1] IN
       IF IsHeader(b)
       THEN /\ pc' = "body"
            /\ reading' = [reading EXCEPT !.frame = b[1], !.len = sizes[b[1]], !.got = <<>>]
       ELSE pc' = AfterCache /\ UNCHANGED reading
    /\ UNCHANGED <<compressed, fileVars, writerVars, loaded, nth_cache, history>>

(* rmdReadFrame() has all its bytes, and the picture is rebuilt.           *)
BodyRead ==
    /\ At("body") /\ reading.len = 0
    /\ pc' = "header"
    /\ loaded' = Append(loaded, [frame |-> reading.frame, body |-> reading.got])
    /\ Read(1)
    /\ UNCHANGED <<compressed, fileVars, writerVars, nth_cache, history>>
-----------------------------------------------------------------------------
(* Deviation: only the first chapter is removed.                           *)
PurgeFirst ==
    /\ Go("purge", "done")
    /\ exists' = exists \ {nth_cache}
    /\ UNCHANGED <<compressed, file, syncer, data, allocated, writerVars, readerVars, history>>

(* rmdPurgeCache(): the chapters, until there is none of the next number.  *)
PurgeChapter ==
    /\ At("purge") /\ nth_cache \in exists
    /\ exists' = exists \ {nth_cache}
    /\ nth_cache' = nth_cache + 1
    /\ UNCHANGED <<compressed, pc, file, syncer, data, allocated, writerVars, reading, loaded, history>>

PurgeEnds ==
    /\ At("purge") /\ nth_cache \notin exists
    /\ pc' = "done"
    /\ UNCHANGED <<compressed, fileVars, writerVars, readerVars, history>>
-----------------------------------------------------------------------------
Syncer == SyncerAllocates \/ SyncerEnds
Write  == CloseFull \/ CloseWorks \/ CloseFails \/ OpenNext \/ Put \/ CloseLast
Load   == LoadCache \/ ReadChunk \/ NextChapter \/ EndOfCache \/ HeaderRead \/ BodyRead
Purge  == PurgeChapter \/ PurgeEnds
Finished == At("done") /\ UNCHANGED vars

Next == \/ Syncer \/ Write \/ Load \/ Purge
        \/ \E n \in 1..MaxBody : StartFrame(n)
        \/ EndRecording \/ Crash
        \/ Finished

(* Every thread that can run does; no frame need come, no recording end.   *)
Spec == Init /\ [][Next]_vars /\ WF_vars(Syncer) /\ WF_vars(Write \/ Load \/ Purge)
-----------------------------------------------------------------------------
(* Every variable keeps to its values; a chapter is never larger than its  *)
(* limit and the write that reaches it.                                    *)
TypeOK ==
    /\ compressed \in BOOLEAN /\ crashed \in BOOLEAN /\ failures \in 0..MaxFailures
    /\ pc \in {"idle", "write", "join", "open", "put", "last", "load", "header", "body",
              "headerNext", "bodyNext", "purge", "done"}
    /\ file \in [fp : Chapters \cup {NULL}, chapter : Chapters, chapter_n_bytes : Nat]
    /\ syncer \in [state : {"none", "allocate", "sync"}, fd : Chapters \cup {NULL}, cancelled : BOOLEAN]
    /\ exists \subseteq Chapters /\ allocated \subseteq Chapters
    /\ data \in [Chapters -> Seq(Byte)]
    /\ ~crashed => \A c \in Chapters : Len(data[c]) <= CACHE_FILE_SIZE_LIMIT + 1
    /\ todo \in Seq(Byte) /\ sizes \in Seq(1..MaxBody)
    /\ reading \in [frame : 0..MaxFrames, at : Nat, len : Nat, got : Seq(Byte)]
    /\ loaded \in Seq([frame : 1..MaxFrames, body : Seq(Byte)])
    /\ nth_cache \in Nat

(* rmd_cache.c:139 "Always NULL out the handles, even if the close fails": *)
(* no write and no read goes through a NULL one, which nobody tests: after *)
(* a failure the count of the chapter makes the next write open another.   *)
HandleOpen ==
    /\ At("put") \/ (At("write") /\ ~Full) => file.fp # NULL
    /\ pc \in {"header", "body"} => file.fp # NULL

(* The syncer works on the chapter that is open: the descriptor it has got *)
(* is never closed, and so never that of another file, while it uses it.   *)
SyncerOnOpenChapter == syncer.state # "none" => syncer.fd = file.fp

(* The handles of the open chapter, which cacher, loader and syncer share. *)
HandlesRight == TypeOK /\ HandleOpen /\ SyncerOnOpenChapter

(* The frames loaded are those cached, in order, wherever one chapter ended*)
(* and the next began.  A crash can only tear the last: what was allocated *)
(* but not written is read as its blocks.                                  *)
Body(n) == [i \in 1..sizes[n] |-> <<n, i>>]
FramesLoaded ==
    failures = 0 =>
        \A i \in DOMAIN loaded :
            /\ loaded[i].frame = i
            /\ \/ loaded[i].body = Body(i)
               \/ crashed /\ i = Len(loaded) /\ Zero \in ToSet(loaded[i].body)

(* Without a crash or a failure none is missing when the loader ends.      *)
AllLoaded ==
    [][(At("header") \/ At("headerNext") \/ At("bodyNext")) /\ pc' = "purge" /\ failures = 0
           => Len(loaded) = Len(sizes)]_vars

(* The session leaves no chapter behind.                                   *)
AllPurged == At("done") /\ failures = 0 /\ ~crashed => exists = {}

(* The cacher's writes and the closing of its file come to an end, though  *)
(* they wait for the syncer; the loader and the purge do as well.          *)
CacheEnds ==
    /\ At("write") ~> At("idle") \/ crashed
    /\ At("last") ~> At("done")
=============================================================================
