# recordMyDesktop in TLA+

Specifications of the parts of recordMyDesktop that are hard to test: the threads of a
recording, the timeline that keeps video in step with sound, sound that a Jack server pushes, the
list of damaged rectangles, the picture and the blocks of it that are cached, the chapters of the
cache, the multiplexing of the two Ogg streams, and a whole run of the program with what it leaves
on the disk.  TLC checks each on small instances, TLAPS proves what matters most for every value of
the constants.  `PROJECT.json` maps every definition to the lines of the source it
models; paths below are relative to `src/src`.

## The system

A recording is a process of up to seven threads around one `ProgData` (rmd_types.h:269-352).

| part | state | operations |
|---|---|---|
| main, `rmdThreads` (rmd_threads.c) | the threads | creates, wakes and joins them |
| signal handlers (rmd_register_callbacks.c) | `running`, `paused`, `aborted`, `pause_state_changed` | SIGUSR1 pauses, SIGINT, SIGTERM and SIGABRT end |
| grabber, `rmdGetFrames` | `frameno`, `capture_frameno`, `avd`, damage list, `yuv`, marked blocks, pointer | per turn: toggle the pause, decide on a picture, work off X events, update the image, count frames |
| sound capture, `rmdCaptureAudio` | the device, queue `sound_buffer`, `avd` | reads periods, queues them, sits out pauses |
| frame consumer, `rmdEncodeImageBuffers` or `rmdCacheImageBuffer` | `encode_frameno`, encoder or cache file | takes the last picture, clones frames that were skipped |
| period consumer, `rmdEncodeAudioBuffers` or `rmdCacheAudioBuffer` | encoder or `audio.pcm` | takes periods from the queue |
| `rmdFlushToOgg` | the two Ogg streams | writes pages in the order of their times |
| second phase, `rmdEncodeCache` with `rmdLoadCache` | cache files | rebuilds pictures from cached blocks and encodes them with the sound |
| damage list (rmd_rectinsert.c) | `rect_root` | inserts rectangles without overlaps, clears |
| damage events (rmd_poll_events.c) | - | clips and aligns what XDamage reports |
| cache files (rmd_cache.c) | chapters of 500 MB, a syncer thread for each open one | open, read, write, close, purge |
| the picture (rmd_update_image.c, rmd_yuv_utils.c, rmd_cache_frame.c) | one or two shots of the screen, `yuv`, marked blocks | copies what changed, draws the pointer, marks blocks, writes and reads them |
| session (rmd.c, rmd_init_encoder.c, rmd_rescue.c, rmd_specsfile.c) | output file, session directory, specs file | names and opens the file, encodes and purges the cache, aborts, rescues |
| Jack (rmd_jack.c) | ring buffer, client | is called back by the server, writes periods, is shut down |
| ALSA and OSS (rmd_opendev.c) | devices | sources of sound |

They interact through shared variables with seven mutexes and six condition variables:
`image_buffer_ready` (grabber to frame consumer), `sound_data_read` (sound capture to period
consumer), `pause_cond` (grabber, which alone changes `paused`, to all but itself),
`theora_lib_clean` and `vorbis_lib_clean` (encoders to the flusher), and `time_cond`, which is
unused.  `avd_mutex` guards the timeline, `yuv_mutex` the image and its marked blocks,
`libogg_mutex` the Ogg streams.

What is hard here: `running` and `paused` are read without locks and change between a test and
a wait; the shutdown wakes threads by signals that may come too early; `avd` is read three times
per turn while another thread moves it; a rectangle inserted can break into parts that meet the
whole list again.  `PROJECT.json` lists every such place with the properties that watch it.

What makes each part correct:

* threads: no wakeup is lost, no thread stays behind at the end, the video has one frame per
  tick of the timeline, sound keeps its order, nothing is worked on that is not there;
* timeline: `avd` is exact, video is never far ahead, a lag is made up for;
* damage list and events: the list covers what changed and nothing else, without overlaps,
  inside the recorded area, and the blocks marked for the cache are those fetched;
* cache: what is read is what was written;
* picture: it is the screen as it was looked at with the pointer drawn once, and a frame put together
  from the cache is the picture that was cached;
* encoding: pages in order, both streams closed, no sound or frame left out;
* Jack: whole periods in the order they came, no reader asleep over a period, an end;
* session: a recording is never lost between its cache and its file, an aborted one leaves nothing,
  the exit status says what happened, files of others stay as they are.

## Modules

| module | what it models |
|---|---|
| `Recording` | abstract: two tracks fed from two sources |
| `Capture` | the five capture threads, `rmdThreads`, the signal handlers |
| `MCCapture` | the command lines its runs consider |
| `CaptureProofs` | theorems of `Capture` |
| `Timeline` | `avd` and the turn of `rmdGetFrames` that moves it |
| `TimelineProofs` | theorems of `Timeline` |
| `RectCollide` | `rmdCollideRects`, as operators |
| `Damage` | abstract: a set of damaged pixels |
| `RectInsert` | `rmdRectInsert` and `rmdClearList` |
| `RectProofs` | theorems of `RectInsert`, of `DamageEvents` and of the operators of `RectCollide` |
| `DamageEvents` | clipping, alignment, pointer and update, over `RectInsert` |
| `MCDamageEvents` | the recorded areas and pointers of its run |
| `CacheFile` | chapters, their syncers, cacher, loader and purge |
| `CacheFileProofs` | theorems of `CacheFile` |
| `Picture` | shots, planes, pointer, marked blocks, and the frames cached of them |
| `MCPicture` | the options, screen and pointer of its run |
| `PictureProofs` | theorems of `Picture` |
| `Encode` | encoders or loader, the two Ogg streams, `rmdFlushToOgg` |
| `EncodeProofs` | theorems of `Encode`: who encodes, the order of the pages, `FileRight` and `FileComplete` |
| `Jack` | the Jack client's callbacks, its ring buffer, reader and end |
| `JackProofs` | theorems of `Jack` |
| `Session` | runs of `main()`, their files and caches |
| `SessionProofs` | theorems of `Session` |

A definition under a comment "Deviation:" is not the code: it is a plausible bug, and no
next-state relation uses it.  An invariant that is a conjunction (`ListRight`, `ListInside`,
`HandlesRight`, `FileRight`, `PictureRight`, `SoundRight`, `RunsRight`, `SoundKept`) holds the module's
type invariant and the named parts it is made of; `ConsumersAwake` and `FileComplete` are two parts each.

### Capture

`pc` is where each of main, grab, img, snd and aud is in its function; a label stands for the
code between two places where another thread can make a difference: a mutex section is one step,
a read of `running` or `paused` outside of one is a step of its own.  `pthread_cond_wait` is two
steps: release and join `waiters`, and be taken out of it by a signal, a broadcast or a spurious
wakeup, to test again.  A signal sent without the mutex may fall between a test and the wait that
follows it (`ImgWait`, `AudWait`, `SndWait` are steps of their own for that).  The sink of the
two consumers is the encoder or the cache, which differ in the order of pause and wait
(`ImgTop`) and in the flags `th_encoding_clean` and `v_encoding_clean` that only the encoders clear.
The history variables `emitted`, `captured`, `written` and `pausedPeriods` count frames in the
video, periods read and stored, and periods read while paused.

`Capture` implements `Recording` by `ImplementsRecording`: `open` is `running`, `frames` is
`capture_frameno`, `video` is `last_encode_frameno`.

### Timeline

Two processes: the grabber, whose turn is the steps `Top`, `Sync`, `Wake` and `Advance`, one per
section of `avd_mutex`, and the sound capture, whose periods move `avd` back at any point between.
Without sound `Sync` charges the time since `last_frame_ts`; `Tick` moves the clock.

### RectCollide, RectInsert, Damage

`Collide` is the cascade of cases of `rmdCollideRects`, each result with the rectangles it
returns.  The code's list is the sequence `list`; its recursion is the stack `calls`.  The
recursive calls but for a broken rectangle's are the last thing their caller does and replace it; the two parts of a broken
rectangle are two entries, both from the node after the one it broke at.  Refinement:
`damaged` is the set of pixels of the list and of the calls under way, `busy` that there is a call.
`Damage` lets a set of pixels be added or all be forgotten between two insertions only, and nothing
change during one.  `ImplementsDamage` adds to the refinement what the abstract state cannot tell: that
`rmdRectInsert(r)` is the `Insert` of the pixels of `r` (`AddsItsOwn`) and `rmdClearList` the `Forget`
(`ForgetsAll`).

### DamageEvents

A turn of `rmdGetFrames` in the XDamage mode: any number of areas, the pointer's old place, its new
one, the update.  The areas are rectangles of any place and size, larger than the screen included,
as windows may be.  The pointer is none, the X cursor, or the dummy pointer.  `--follow-mouse`
forces full shots (rmd_parseargs.c:399), so that the recorded area does not move here.  The dummy
pointer starts in the screen's corner, uncut: it is checked in an area that holds that corner (see the
end for one that does not).

### CacheFile

`pc` leads through a whole session: the cacher, then the loader, then `rmdPurgeCache`, which never
run at the same time; the syncer of the open chapter runs beside the cacher.  A byte is what one
`rmdCacheFileWrite` writes, named by its frame and its place in it, `<<n, 0>>` the header; so a
chapter may end between any two writes of a frame, and the loader's reads of a header and of a body
cut across.  `CloseFull`, `CloseWorks`/`CloseFails`, `OpenNext` and `Put` are the parts of one write.
`Crash` loses any part of the open chapter that was not written out; uncompressed, `Content` is
followed by the zeros `posix_fallocate` left.  The loader may find the end of the last chapter at a header or
within a body; wherever it ends without a crash or a failure it has all frames (`AllLoaded`).  After a crash the loader is the one `rmdRescue` starts.

### Encode

The encoders on the fly and the loader of a cache in one module (`mode`), since the flusher is the
same.  A packet is the time at which its frame or period ends, a page the packets taken from a
stream; how many the library takes is left open.  The parts of the flusher's turn are steps of their
own (`FlushTop`, `FlushPages` while running; `FlushRest`, `FlushWait`, `FlushLast` after; `FlushWrite`),
as are the loader's packet and the end of stream it sets without a lock (`LoaderPeriod`,
`LoaderClose`).  The waits of the encoders, which `Capture` has in full, are one step here.  libvorbis
may keep a period back; here each makes a packet.

### Picture

One row of pixels, since all rows are treated alike, with one chroma sample for two pixels.  A turn
is `Events`, `Pointer`, `Fetch` and `rmdUpdateYuvBuffer` (full shots) or `UpdateImage` (XDamage),
`DrawPixel` for each pixel of the pointer, `Drawn` and `Advance`; `Paint` changes the screen and
`CacheFrame` takes a frame between any two of them, which is where `yuv_mutex` is not held.  A pixel's
value tells what is below and how often the pointer was blended in; `Marked` is the `++` by which
`mark_buffer_area` makes the pointer's place differ between two shots.  `brwin` moves for the next
turn while `temp_brwin` is this turn's.  With XDamage the luma plane alone: which chroma samples a
list updates depends on how its rectangles were broken, and is in `DamageEvents`.

### Jack

Four processes: the server's callback, `rmdJackShutdown`, the reader (`rmdEncodeAudioBuffers` or
`rmdCacheAudioBuffer`, which differ in `v_encoding_clean`), and main from `rmdStartJackClient` to the
last join.  The callback is called from the activation on, before the ports are connected and the
threads created, and takes a step for each port it writes, all under the mutex (`CaptureLock`,
`CaptureWrite`, `CaptureEnd`).  `jack_ringbuffer_write` writes as much as there is room for (`Fill`,
`Room`), so that a full buffer shifts the channels against each other from then on (`overrun`).  The mutex has a
`holder`, as `rmdJackShutdown` unlocks one that is not its own and then keeps it.  What touches the
ring buffer once it is freed may crash the process (`Used`); if it does not, there may seem to be a
period or none, and what is read is what was there or anything else (`Junk`).  The unit is a byte, which
is what the ring buffer counts: a full one is cut within a sample too.

### Session

Each run is a record of `main`: the next line of `main()` and its flags; the disk is `files` and
`caches`, shared by the runs, which may overlap, follow each other, or rescue what a dead one left.
Each system call that changes the disk is a step and may fail (`Fault`) but for `remove()`; `Kill` ends
a process anywhere.  A file knows which runs have written it (`by`), whose recording it holds (`of`),
and if it is complete.  Naming is a step for each `stat()`, and `fopen()` another, so that two runs may
take one name: `raced` are the runs whose file another opened while they held its name, `spoilt` the
recordings whose file a run has written over or cut short.  Two rescuers that race for a name may both
report success, so that only what is not spoilt can be promised.  The process id names the session directory and may come again.  What the
threads do between is in the other modules: here a recording has taken its first picture or has not.

## Runs

| run | question | bounds |
|---|---|---|
| `capture_safety` | do the threads keep the tracks in order, through a pause and an abort, and is nobody asleep over something to take, nor when joined? | 2 frames, clones up to 2, 2 periods, 1 pause; on the fly with a device closed in pauses, and caching |
| `capture_stops` | does what was captured get through, and does everything end? | 2 frames, 1 period, 1 spurious wakeup; on the fly, pauses without sound |
| `capture_cache_hang` | finding: the frame cacher is lost | 1 frame |
| `timeline` | does video keep in step? | frames of 2, periods of 3, 10 periods, 20 instants, 2 pauses |
| `timeline_pause` | finding: a pause is recorded without sound | as above, 15 instants |
| `rect_insert` | is the list exact and free of overlaps, and does an insertion end? | every rectangle of a 3 by 2 screen |
| `damage_events` | is all that changed fetched, inside the area, and marked? | 4 by 4 screen, areas of 3 by 2 and 2 by 3 off the corner |
| `cache_file` | is what is loaded what was cached, over chapters, failures and crashes? | 3 frames of up to 2 writes and a header, chapters of 2, 1 failure, 1 crash |
| `encode` | are the pages in order, both streams closed, no encoder shared, and is a cache encoded to its end? | 5 frames of 2, 2 periods of 3; on the fly and from a cache, with and without sound |
| `picture` | is the picture the screen and the pointer, and the cache the picture? | 4 of 5 pixels recorded, blocks of 2, a pointer of 2 at both borders and inside, 2 changes of the screen; XDamage, full shots, following the pointer, quick subsampling |
| `jack` | is sound whole and in order, is no period slept over, does it end, with its reader awake, unless it crashes? | 2 ports, periods of 2 by 2 bytes, room for 7, 5 periods, 3 pauses; both modes |
| `session` | what do two runs leave on the disk, and do they end? | 2 runs, one name taken, 3 names, 1 failing call, a death of each |

Why the bounds are enough: a hand-over needs two frames, so that one is taken while the next is
published, and a clone; two periods so that the queue can hold one while another is in hand; one
pause begins and ends around each of the threads' tests, and one signal ends the recording
anywhere.  Frame and period times of 2 and 3 are coprime, so that all differences of the two
timelines occur, and ten periods are several margins.  The cases of `Collide` compare two borders
per axis, and four positions on an axis hold every order of the four borders; the other axis
then needs three.  In `damage_events` the areas lie at an odd distance from the screen's border and have an
even and an odd side, blocks are of 2 by 2, so that a last block is a part of one.  A chapter of 2
ends before, in and after a frame of up to 3 writes.  A pointer of 2 pixels is cut to 1 at either border
and lies across two blocks when at an odd place.  Room for 7 bytes holds one period of 4 and a part of
the next, so that the ring buffer overruns in the middle of a port.  Two runs are what it takes for a
name or a directory to be taken, and for a rescue; one failure and a death of each combine in every
order.  Five frames outlast two periods, so that sound
ends first, and are outlasted by none; both streams hold several packets when the flusher cuts a page.

No deadlock check where the system stops by itself (`Capture` when all is joined, `Timeline` at its
bounds, `Encode` and `Jack` when the process is gone, `Session` when all runs are over, or wait for a
signal).  `rect_insert`, `damage_events`, `cache_file` and `picture` check for deadlocks.

### Fairness

`Capture`: weak fairness of each thread: the scheduler runs a thread that can run.  Not of signals,
spurious wakeups nor of the encoder accepting a frame.  `Timeline`: weak fairness of the grabber
only.  `RectInsert`: weak fairness of the loop's iterations: a call runs.  `CacheFile`: of the syncer
and of the thread that writes or loads, not of frames coming nor of the recording's end.  `Encode`: of
each thread, not of the signal.  `Jack`: of the callback, which the server calls once a period while
the client is active, of the rest of `rmdJackShutdown` once it is called, of the reader and of main; not of
the server going away, a pause or the end.  `Session`: of each run's `main()` and of its threads, as
processes that live run on; not of signals, deaths or a first start.

### What the findings show

* `capture_cache_hang` (rmd_get_frames.c:711-714): the comment says the signal makes sure the
  consumer is not lost; sent without the mutex it can fall between the consumer's test and its
  wait.  On the fly `rmdThreads` repeats the signal until the encoder is done; when caching
  `th_encoding_clean` was never cleared, and it does not.
* `timeline_pause`: `paused()` does not renew `last_frame_ts`, so that without sound the time of
  a pause is made up for in cloned frames.

## Proofs

`CaptureProofs`, from the assumptions on the bounds declared in `Capture`, none on their size:

* `TypeCorrect`: each action keeps each conjunct.
* `VideoLength` and the numbers' order: the inductive invariant `FrameInv` adds where the encoder
  is to `FramesInStep`, since between taking a frame and emitting it the numbers differ.
* `SoundOrder`, `BufferThere`: `SoundInv` adds that a consumer past its check has a buffer, and
  that without a buffer `running` is FALSE, which never becomes TRUE again.  With the types they are
  `SoundKept` (`SoundStaysKept`).
* `PauseBound`: `PauseInv` says which thread can still be on its way to read a period in a pause.
* `NoWakeupLost` and `NoneJoinedAsleep`: `AwakeInv` says that a consumer on its way to sleep holds the
  mutex without which nothing is published for it, so that what made it sleep is still so once it
  sleeps.  `EndInv` says that main leaves its repeated signals only when the consumer is done or has not
  started yet (the flags `th_encoding_clean` and `v_encoding_clean` do not tell these apart), that
  `running` is FALSE by then, and so that a consumer that starts later never comes to wait.
  Together they are `ConsumersAwake` (`ConsumersStayAwake`).
* `CaptureImplementsRecording`: every step is a step of `Recording` or leaves its variables alone.

`TimelineProofs`: `TimelineInv` relates `avd` to the counts in each label; from it `AvdExact`,
`AheadBounded`, `StaleAreClones` and the action property `TurnCatchesUp`, for all frame and period
times.  The quotient of the code's division is bounded in a lemma.

`EncodeProofs`: `EncoderForOne`, that the flusher has an encoder for itself when it makes a stream's last
packet, for all durations and lengths.  The inductive invariant says that the flusher comes there only
when `running` is FALSE, that a stream is not clean from its encoder's start to its end, and that an
encoder that starts only after the flusher looked, or a loader that ended the recording itself, finds no
turn to take; `interrupted` is why the theorem needs the exception of a cancelled encoding.
`FilePagesInOrder`: that the pages are in order is not inductive alone.  `OrderInv` adds that whatever a
stream that is not finished still has, on its page, in its packets or to be encoded, is no earlier than
any page of the file: a packet is later than those before it, a page takes the first packets, none is
written while one of a stream that goes on is missing, and the earlier of two goes first.

`FileCorrect` is the property `FileRight` of the run for all durations and lengths.
`CountInv` counts the packets beyond the frames or periods taken: at most the frame repeated at the end
and one that closes the stream, and once the latter is made the stream has packets, or the page that
closes it, or is finished, so that `rmdFlushToOgg` does not come back to make another.
`BothStreamsClosed` is `StreamsClosed`.  `CloseInv` follows a stream's time to the file: the last packet
is always its clock (`LastIs`); a stream that is closed gets no packet any more, since its encoder takes
no turn and the flusher makes no second last packet (`Quiet`); so the page with the end of stream holds
the last packet (`LastPage`), and with it the stream is finished (`Finished`).  A cancelled encoding of a
cache breaks the second, which is why `StreamsClosed` excludes it (`Undisturbed`).

`CompleteFile` adds that a cache is encoded to its end, `FileComplete`.  By `LoadInv`, `avd` is the video
taken less the sound taken for as long as the loader goes on (`Ahead`), and video is loaded when it is
not positive, sound otherwise.  So the loader only comes to the end of the video when the sound taken is
as long, or has ended, and nothing but sound beyond the last frame is left.  The run has sound that
ends first; the theorem holds for sound that is longer, for which TLC was asked on another instance.

`SessionProofs`, for any number of runs, names, directories and failing calls: `RecordingsKept`,
`RunsStayRight`, `AbortsLeaveNothing` and the action property `FilesAreRespected`.  The inductive invariant
`IInv` (`SessionInvariant`) is a conjunction for each run: what it is there for decides where it can be
(`Place`); its directory and cache are its own (`CacheOwner`, `Owned`); it writes no file but that under its
name (`WritesOwn`), which is its own alone or its recording is spoilt (`Writer`), and what is there was its
own, may be taken, or was raced for (`Held`); nothing is purged before the file is complete (`EncodedFirst`);
a rescue works for a run that is gone (`Rescuing`).  A step of one run is shown to leave the others'
conjuncts alone by three facts about what it does to `main`, `caches` and `files` (`MainStep`, `CacheStep`,
`FileStep`), and its own are shown action by action.

`CacheFileProofs`, for any limit of a chapter, any number and length of frames, failures and crashes:
`HandlesStayRight`, `CacheComesBack`, `NoChapterStays` and the action property `NoFrameIsMissing`.  `SafeInv`
says who has which handle (`OneHandle`), that nothing is there of later chapters (`NewChapters`), that the
numbers suffice (`Spent`: a write opens one chapter at most), and that the bytes on the disk and those read are of
frames in hand (`InFrame`, `Bytes`, `InCache`).  While nothing has failed, `Gapless` says that the chapters are
numbered without a gap from the one the purge has come to, and `InOrder` that each byte in them is
followed by the next of its frame or of the next frame (`Written`), that the loader stands before the
byte it will read next, or before nothing but zeros after a crash (`Behind`).  That each byte follows the
one before does not say, without an induction, that the bytes from a place on are numbered on; so the
latter is part of the invariant too (`Runs` beside `Chained`).

`RectProofs`, for a screen of any size: `ListStaysRight` and the refinement `InsertsDamage`.  `Clear` says by
their borders that two rectangles share no pixel.  The inductive invariant `IInv` (`InsertInvariant`): the nodes
are clear of each other, the nodes a call has passed are clear of its rectangle, and a call under
another stands no further back, so that what it changes lies ahead of the outer one.  `NothingForgotten` needs
more: a node without pixels, which breaking leaves behind, lies in the node before it or is about to be taken
away (`ThinNodes`), so it never is one that is broken in several.  The lemmas about `RectCollide`
(`CollideCases` and those after it) say for every pair of rectangles which parts each case returns, that these
are disjoint and that they cover what was there; from them each iteration keeps the set of pixels of the list
and the calls (`StepHolds`), and a call from outside adds its own (`CallInserts`).

The turn over `RectInsert` is proved there too, for any screen, recorded areas, pointer and size of a
block: `UpdatesInside`, `AllRefetched`, `BlocksAreMarked` and `SamplesStayWhole`.  The inductive invariant
`TurnInv` (`TurnInvariant`) says that every rectangle on the list or of a call lies inside of what is recorded,
on whole chroma samples when there is no pointer (`ListInTurn`), and that the list has what was let
through and, by the step of the turn, where the pointer is or was (`Remembered`).  `rmdRectInsert` keeps
the first because a rectangle `Collide` makes has only borders that the two it was given have
(`BordersOf`, `TurnStays`), and the second because its steps change no damaged pixel.  For the blocks, a
division grows with its dividend (`DivGrows`), so that the last pixel's block is the last (`LastBlock`).  The first three
have the hypothesis `DummyInside`: with a dummy pointer the area holds the corner it starts in.
Without it they are false: the pointer's first place is put on the list as it is, outside of what is
recorded.  `SamplesStayWhole`, about a turn without a pointer, has none.

`PictureProofs`, for a row and a screen of any width, blocks, pointers and colours: `PictureStaysRight`,
`ColoursStayFresh` and the action property `CachedRight`.  `PictureInv` says what the planes are while the
pointer is drawn pixel by pixel, with XDamage (`DamageRight`) and with two full shots (`ShotsRight`), and that
a block of the cache differs from the planes only where it is marked or the pointer is drawn
(`CacheRight`).  With two shots the pointer each of them was marked for is another, and a comparison skips
what is alike: there neither has a mark, so that no pointer was drawn (`AlikeUnmarked`).  A pointer at an
odd place covers a chroma sample by half; each of its odd columns has a sample of its own
(`SamplesApart`), so none is blended twice.  The first two have the hypothesis `ShotsShared`: without shared memory
the two shots are one image in the code (below), and the properties do not hold.

`JackProofs`: `SoundStaysRight`, for any number of ports, length of periods and room in the ring buffer.  The
inductive invariant has what is heard before the period in use, that before the ring buffer, and all before
the next sample (`InOrder`); unless the ring buffer was ever full none is missing between them, and they
are whole periods but for the ports of the one being written (`Whole`).  When the ring buffer is
freed `running` is FALSE for good (`Started`), so that what is read from it then is dropped.  The mutex keeps
the reader from a period that is written in part (`Guarded`); where `rmdJackShutdown` has unlocked it there is no callback any more.
`ReaderStaysAwake`: a reader that sleeps while a whole period is there has its signal still to come
(`Signalled`), and main leaves its signals under the conditions of `Capture` (`EndInv`).

All of these use of the constants the `ASSUME` of their module only; each inductive invariant was checked
by TLC on the run before it was proved.

`TypeOK` and what the theorems need beside it (`WaitersInPlace`, `NumbersInOrder`, `SkipOnlyFarBehind`) are
stated as definitions and proved, and need no run of their own.

Only model-checked: all liveness (`FrameTaken`, `PeriodTaken`, `StopsOnTheFly`, `EventuallyCaughtUp`,
`InsertReturns`, `CacheEnds`, `FlushEnds`, `PeriodHeard`, `JackStops`, `SessionEnds`), as fairness and ENABLED are
out of the prover's reach.  Every invariant and every action property that a passing run checks is stated by a
theorem, and so is the safe half of some liveness: that nobody sleeps over a frame or a period
(`NothingMissed` in `ConsumersAwake`, `ReaderAwake`), that main joins no sleeper (`JoinedAwake` there), and that one turn of the grabber makes up
for any lag (`CatchesUp`).

## Not modelled

The requests to the X server, option parsing, the layout of headers and blocks, and the compression of
the cache have no state of their own to check.  Left out of the modules: in `Picture` the dummy
pointer, chroma with XDamage and `--no-shared` with full shots; in `Session` a `remove()` that fails, a
power loss, and file names with spaces; in `Encode` a picture that the encoder refuses; the widths of
`avd` and of times; ALSA and OSS beyond their reads.

Not done: an abstract multiplexer for `Encode`, and an abstract stream of bytes for `CacheFile`, each
shown to be implemented; `FileRight` and `FramesLoaded` say the same of what is written and read.

Seen while reading, no run shows it:

* The dummy pointer's first place is the screen's corner (rmd_get_frames.c:450), unclipped: when something
  else is recorded, the assertions of rmd_update_image.c:59-62 stop the program.
* `rmdCaptureAudio` reads `paused` without the mutex (rmd_capture_audio.c:60) and does not test it again
  before it waits: the broadcast at rmd_get_frames.c:716 may come in between, and `rmdThreads` then waits
  in the join at rmd_threads.c:153.
* On the fly `rmdFlushToOgg` is not joined, although rmd_threads.c:126 says "wait all threads to finish":
  what it has not written when `main` returns is missing from the file.
* `th_encoding_clean` and `v_encoding_clean` are never cleared when a cache is encoded (rmd_types.h:307-310):
  a cancelled encoding (rmd_encode_cache.c:47-53) lets the flusher into the encoder the loader is in.
* `rmd_jack.c:126-129` expects the encoder to leave its loop when the server goes away; `rmdJackShutdown`
  keeps `sound_buffer_mutex` (137), and the reader, signalled, waits for it.
* `rmdStopJackClient` frees the ring buffer (rmd_jack.c:210) before it closes the client (211) and before
  the reader is joined: a callback that has begun, or a reader that saw `running` just before the stop, goes on
  with freed memory, in an ordinary Ctrl-C too.  `Jack` has the crash as a state; `JackStops` is about the
  runs without it, and `SoundRight` shows that nothing read from it is recorded.
* With full shots and without shared memory the shot is always put into `image`, while the two shots
  change places every turn (rmd_get_frames.c:593-600): every second comparison is with an old one.
* A signal that comes between the recording and its encoding is forgotten where `running` is set again
  (rmd_encode_cache.c:53).
* SIGABRT "removes the specified output file" (doc/recordmydesktop.1:52) only when encoding on the fly:
  sent while a cache is encoded, the file stays.
* A file name with a space is read back short by `fscanf` (rmd_specsfile.c:118) when a cache is rescued.
* The status of a first frame that fails is 1 whatever failed, as the comparison binds closer than the
  assignment (rmd_get_frames.c:407).
* `clip_event_area` (rmd_poll_events.c:65-70) turns down areas that overlap the recorded one when they
  end outside of it on the right or below; `LetThrough` does as it does.
* The syncer asserts a period that `--periodic-datasync-ms 0` (rmd_parseargs.c:272 "0 disables")
  makes zero.
* `rmdLoadCache` stops at the end of the video although rmd_load_cache.c:212 says "If video ends we
  will do one more run to flush audio in the ogg file".
