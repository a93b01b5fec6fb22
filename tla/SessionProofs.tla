--------------------------- MODULE SessionProofs ----------------------------
(***************************************************************************)
(* For any number of runs that overlap as they like: what Session says of  *)
(* recordings, of the exit status, of what an aborted recording leaves and *)
(* of the files of others.                                                 *)
(***************************************************************************)
EXTENDS Session, TLAPS

Phase == {"new", "setup", "read", "mkdir", "create", "specs", "close", "threads", "capture",
          "captured", "encode", "name", "open", "headers", "load", "loading", "flush", "purge",
          "drop", "tail", "exited", "killed"}
RunType == [phase : Phase, number : File, running : BOOLEAN,
            aborted : {"no", "recording", "later"}, cancelled : BOOLEAN, written : BOOLEAN,
            status : {0, 1}]
ArgsType == [rescue : BOOLEAN, encOnTheFly : BOOLEAN, no_encode : BOOLEAN, overwrite : BOOLEAN,
             dir : 0..Runs]
FileType == [by : SUBSET Session, of : 0..Runs, content : {"none", "partial", "complete"}]
CacheType == [of : 0..Runs, images : BOOLEAN, specs : {"none", "partial", "complete"}]

Types ==
    /\ args \in [Session -> ArgsType] /\ main \in [Session -> RunType]
    /\ files \in [File -> FileType] /\ caches \in [Pid -> CacheType]
    /\ captured \subseteq Session /\ raced \subseteq Session /\ spoilt \subseteq Session
    /\ faults \in 0..MaxFaults

(* A directory is there when a recording has made it.                      *)
Empty == \A p \in Pid : caches[p].of = 0 => caches[p] = NoCache
-----------------------------------------------------------------------------
Naming == {"name", "open", "headers", "load", "loading"}
Encoding == {"encode", "flush"} \union Naming
Capturing == {"threads", "capture", "captured"}
Early == {"new", "setup", "mkdir", "create", "specs", "close", "drop"}
Ended(s) == main[s].phase = "exited" /\ main[s].status = 0

(* What a run is there for decides where it can be.                        *)
Place(s) ==
    /\ main[s].phase = "new" => args[s] = NoArgs
    /\ Rescue(s) => /\ main[s].phase \in {"read", "exited", "killed"} \union Encoding
                    /\ ~args[s].overwrite /\ ~args[s].encOnTheFly /\ ~args[s].no_encode
                    /\ args[s].dir \in Pid
    /\ args[s].encOnTheFly =>
          /\ main[s].phase \in {"setup", "name", "open", "headers", "tail", "exited", "killed"}
                                  \union Capturing
          /\ ~args[s].no_encode
    /\ args[s].no_encode => main[s].phase \notin {"purge"} \union Encoding
    /\ Records(s) /\ main[s].phase # "new" => args[s].dir \in Pid /\ main[s].phase # "read"

(* While a cache is encoded running becomes FALSE by a signal, or when all *)
(* is read.                                                                *)
Stopped(s) ==
    ~args[s].encOnTheFly /\ ~main[s].running =>
        /\ main[s].phase \in Naming => main[s].cancelled
        /\ main[s].phase = "flush" => main[s].written \/ main[s].cancelled

(* Nothing is captured before there is a complete cache, and main() gives  *)
(* up only a recording without a frame.                                    *)
CapturedLate(s) == s \in captured => main[s].phase \notin Early

(* A session directory is that of the recording that made it, which finds  *)
(* in it what it has put there.                                            *)
CacheOwner(s) ==
    \A p \in Pid : caches[p].of = s =>
        Records(s) /\ args[s].dir = p /\ main[s].phase \notin {"new", "setup", "mkdir"}
Owned(s) ==
    Records(s) =>
        LET c == caches[args[s].dir]
        IN  /\ main[s].phase \in {"create", "specs", "close", "purge", "drop"}
                                   \union Capturing \union Encoding => c.of = s
            /\ main[s].phase \in {"specs", "close"} \union Capturing \union Encoding => c.images
            /\ main[s].phase \in Capturing \union Encoding => c.specs = "complete"

(* What is rescued was left by a process that is gone, so it stays.        *)
Rescuing(s) == Rescue(s) => Recording(s) \in Session /\ Gone(Recording(s))

(* A file with one writer holds that writer's recording, and a run that    *)
(* lives is the writer of no file but its own.                             *)
SingleBy(s) == \A f \in File : files[f].by = {s} => files[f].of = Recording(s)
WritesOwn(s) ==
    \A f \in File :
        s \in files[f].by /\ ~Gone(s) =>
            /\ Output(s) = f
            /\ IF args[s].encOnTheFly
               THEN main[s].phase \in {"headers", "tail"} \union Capturing
               ELSE main[s].phase \in {"headers", "load", "loading", "flush", "purge", "tail"}

(* The file that is being encoded is its run's alone, or spoilt.           *)
Writer(s) ==
    main[s].phase \in {"headers", "load", "loading", "flush"} =>
        files[Output(s)].by = {s} \/ Recording(s) \in spoilt

(* What is there under a settled name is the run's own, or may be taken,   *)
(* or the name was raced for.                                              *)
Held(s) ==
    Named(s) /\ files[Output(s)] # NoFile =>
        s \in files[Output(s)].by \/ args[s].overwrite \/ s \in raced

(* An aborted recording has not come to encode its cache.                  *)
Aborted(s) ==
    main[s].aborted = "recording" =>
        /\ ~Rescue(s)
        /\ main[s].phase \in {"capture", "captured", "purge", "drop", "tail", "exited", "killed"}
        /\ ~args[s].encOnTheFly \/ Ended(s) => \A f \in File : s \notin files[f].by

(* No cache is left behind a purge, and it follows on a complete file.     *)
Purged(s) ==
    Records(s) /\ ~args[s].no_encode /\ (main[s].phase = "tail" \/ Ended(s))
    => \A p \in Pid : caches[p].of # s
Encoded(r) == r \in spoilt \/ Complete(r)
EncodedFirst(s) ==
    /\ ~args[s].encOnTheFly /\ ~args[s].no_encode
    /\ main[s].phase \in {"purge", "tail"} \/ Ended(s)
    => Discarded(s) \/ Encoded(Recording(s))

(* RecordingKept, of one run.                                              *)
Kept(s) ==
    s \in captured => args[s].encOnTheFly \/ Discarded(s) \/ Cached(s) \/ Encoded(s)

RunInv(s) ==
    /\ Place(s) /\ Stopped(s) /\ CapturedLate(s) /\ CacheOwner(s) /\ Owned(s) /\ Rescuing(s)
    /\ SingleBy(s) /\ WritesOwn(s) /\ Writer(s) /\ Held(s) /\ Aborted(s)
    /\ Purged(s) /\ EncodedFirst(s) /\ Kept(s)
IInv == Types /\ Empty /\ \A s \in Session : RunInv(s)
-----------------------------------------------------------------------------
(* What a step of s leaves of the other runs, of their directories and of  *)
(* their files.                                                            *)
MainStep(s) ==
    /\ ~Gone(s)
    /\ \A t \in Session \ {s} : main'[t] = main[t] /\ args'[t] = args[t]
    /\ \A t \in Session \ {s} : t \in captured' <=> t \in captured
CacheStep(s) ==
    \A p \in Pid : caches'[p] = caches[p] \/ {caches[p].of, caches'[p].of} \subseteq {0, s}
FileStep(s) ==
    /\ raced \subseteq raced' /\ spoilt \subseteq spoilt'
    /\ \A f \in File :
          /\ files'[f].by \subseteq files[f].by \union {s}
          /\ files[f].content = "complete" /\ files[f].of # 0 =>
                \/ files'[f].of = files[f].of /\ files'[f].content = "complete"
                \/ files[f].of \in spoilt'
    /\ \A f \in File, t \in Session \ {s} :
          /\ files'[f].by = {t} => files'[f].of = files[f].of /\ files[f].by = {t}
          /\ files[f].by = {t} /\ ~Gone(t) => files'[f].by = {t} \/ files[f].of \in spoilt'
          /\ Named(t) /\ Output(t) = f /\ files'[f] # NoFile /\ t \notin raced' =>
                files[f] # NoFile /\ (t \in files[f].by => t \in files'[f].by)

(* What is encoded stays, or is known to be spoilt.                        *)
LEMMA EncodedStays ==
    ASSUME NEW s \in Session, FileStep(s), NEW r \in Session, Encoded(r)
    PROVE  Encoded(r)'
<1>1. CASE r \in spoilt
  BY <1>1 DEF FileStep, Encoded
<1>2. CASE Complete(r)
  <2>1. PICK f \in File : files[f].of = r /\ files[f].content = "complete"
    BY <1>2 DEF Complete
  <2>2. r # 0
    BY DEF Session
  <2>3. (files'[f].of = r /\ files'[f].content = "complete") \/ r \in spoilt'
    BY <2>1, <2>2 DEF FileStep
  <2> QED
    BY <2>3 DEF Encoded, Complete
<1> QED
  BY <1>1, <1>2 DEF Encoded

(* A step of s keeps what is true of the others.                           *)
LEMMA OthersKept ==
    ASSUME IInv, NEW s \in Session, Types', MainStep(s), CacheStep(s), FileStep(s),
           NEW t \in Session \ {s}
    PROVE  RunInv(t)'
<1>m. /\ main'[t] = main[t] /\ args'[t] = args[t]
      /\ t \in captured' <=> t \in captured
      /\ t \in Session /\ t # s /\ t # 0 /\ ~Gone(s)
  BY DEF MainStep, Session
<1>r. RunInv(t)
  BY <1>m DEF IInv
<1>c. ASSUME NEW p \in Pid, caches[p].of \in Session, caches[p].of # s
      PROVE  caches'[p] = caches[p]
  BY <1>c DEF CacheStep, Session
<1>d. ASSUME NEW p \in Pid, caches'[p].of \in Session, caches'[p].of # s
      PROVE  caches'[p] = caches[p]
  BY <1>d DEF CacheStep, Session
<1>n. /\ Named(t)' <=> Named(t)
      /\ Output(t)' = Output(t)
      /\ Gone(t)' <=> Gone(t)
      /\ Rescue(t)' <=> Rescue(t)
      /\ Records(t)' <=> Records(t)
      /\ Discarded(t)' <=> Discarded(t)
      /\ Ended(t)' <=> Ended(t)
  BY <1>m DEF Named, Output, Gone, Rescue, Records, Discarded, Ended
<1>1. Place(t)'
  BY <1>r, <1>m, <1>n DEF RunInv, Place
<1>2. Stopped(t)' /\ CapturedLate(t)'
  BY <1>r, <1>m DEF RunInv, Stopped, CapturedLate
<1>3. CacheOwner(t)'
  <2> SUFFICES ASSUME NEW p \in Pid, caches'[p].of = t
               PROVE  Records(t)' /\ args'[t].dir = p
                      /\ main'[t].phase \notin {"new", "setup", "mkdir"}
    BY DEF CacheOwner
  <2>1. caches'[p] = caches[p]
    BY <1>d, <1>m
  <2> QED
    BY <2>1, <1>r, <1>m, <1>n DEF RunInv, CacheOwner
<1>4. Owned(t)'
  <2> SUFFICES ASSUME Records(t),
                      main[t].phase \in {"create", "specs", "close", "purge", "drop"}
                                          \union Capturing \union Encoding
               PROVE  Owned(t)'
    BY <1>m, <1>n DEF Owned, Encoding, Naming, Capturing
  <2>1. args[t].dir \in Pid /\ caches[args[t].dir].of = t
    BY <1>r DEF RunInv, Place, Owned, Encoding, Naming, Capturing
  <2>2. caches'[args[t].dir] = caches[args[t].dir]
    BY <2>1, <1>c, <1>m
  <2> QED
    BY <2>2, <1>r, <1>m, <1>n DEF RunInv, Owned
<1>5. /\ Rescuing(t)'
      /\ main[t].phase # "new" => Recording(t)' = Recording(t) /\ Recording(t) \in Session
  <2>1. CASE Rescue(t)
    <3>1. args[t].dir \in Pid /\ Recording(t) \in Session /\ Gone(Recording(t))
          /\ Recording(t) = caches[args[t].dir].of
      BY <2>1, <1>r DEF RunInv, Place, Rescuing, Recording
    <3>2. Recording(t) # s
      BY <3>1, <1>m
    <3>3. caches'[args[t].dir] = caches[args[t].dir]
      BY <3>1, <3>2, <1>c
    <3>4. Recording(t)' = Recording(t)
      BY <3>3, <1>m, <2>1 DEF Recording, Rescue
    <3>5. Gone(Recording(t))'
      BY <3>1, <3>2, <3>4 DEF MainStep, Gone
    <3> QED
      BY <3>1, <3>4, <3>5 DEF Rescuing
  <2>2. CASE ~Rescue(t)
    BY <2>2, <1>m, <1>n DEF Rescuing, Recording
  <2> QED
    BY <2>1, <2>2
<1>6. SingleBy(t)'
  <2> SUFFICES ASSUME NEW f \in File, files'[f].by = {t} PROVE files'[f].of = Recording(t)'
    BY DEF SingleBy
  <2>1. files'[f].of = files[f].of /\ files[f].by = {t}
    BY <1>m DEF FileStep
  <2>2. files[f].of = Recording(t)
    BY <2>1, <1>r DEF RunInv, SingleBy
  <2>3. CASE main[t].phase = "new"
    <3>1. t \in files[f].by /\ ~Gone(t)
      BY <2>1, <2>3 DEF Gone
    <3> QED
      BY <3>1, <2>3, <1>r DEF RunInv, WritesOwn, Capturing
  <2>4. CASE main[t].phase # "new"
    BY <2>1, <2>2, <2>4, <1>5
  <2> QED
    BY <2>3, <2>4
<1>7. WritesOwn(t)'
  <2>1. \A f \in File : t \in files'[f].by => t \in files[f].by
    BY <1>m DEF FileStep
  <2> QED
    BY <2>1, <1>r, <1>m, <1>n DEF RunInv, WritesOwn
<1>8. Writer(t)'
  <2> SUFFICES ASSUME main[t].phase \in {"headers", "load", "loading", "flush"}
               PROVE  files'[Output(t)].by = {t} \/ Recording(t) \in spoilt'
    BY <1>m, <1>n, <1>5 DEF Writer
  <2>1. Output(t) \in File /\ ~Gone(t)
    BY <1>m DEF IInv, Types, RunType, Output, Gone
  <2>2. CASE Recording(t) \in spoilt
    BY <2>2 DEF FileStep
  <2>3. CASE files[Output(t)].by = {t}
    BY <2>1, <2>3, <1>r, <1>m DEF RunInv, SingleBy, FileStep
  <2> QED
    BY <2>2, <2>3, <1>r DEF RunInv, Writer
<1>9. Held(t)'
  <2> SUFFICES ASSUME Named(t), files'[Output(t)] # NoFile, t \notin raced', ~args[t].overwrite
               PROVE  t \in files'[Output(t)].by
    BY <1>m, <1>n DEF Held
  <2>1. Output(t) \in File
    BY <1>m DEF IInv, Types, RunType, Output
  <2>2. files[Output(t)] # NoFile /\ (t \in files[Output(t)].by => t \in files'[Output(t)].by)
    BY <2>1, <1>m DEF FileStep
  <2>3. t \notin raced
    BY DEF FileStep
  <2> QED
    BY <2>2, <2>3, <1>r DEF RunInv, Held
<1>10. Aborted(t)'
  <2>1. \A f \in File : t \in files'[f].by => t \in files[f].by
    BY <1>m DEF FileStep
  <2> QED
    BY <2>1, <1>r, <1>m, <1>n DEF RunInv, Aborted
<1>11. Purged(t)'
  <2>1. \A p \in Pid : caches'[p].of = t => caches[p].of = t
    BY <1>d, <1>m
  <2> QED
    BY <2>1, <1>r, <1>m, <1>n DEF RunInv, Purged
<1>12. \A r \in Session : Encoded(r) => Encoded(r)'
  BY EncodedStays
<1>13. EncodedFirst(t)'
  <2> SUFFICES ASSUME ~args[t].encOnTheFly, ~args[t].no_encode, ~Discarded(t),
                      main[t].phase \in {"purge", "tail"} \/ Ended(t)
               PROVE  Encoded(Recording(t))'
    BY <1>m, <1>n DEF EncodedFirst
  <2>1. main[t].phase # "new"
    BY DEF Ended
  <2>2. Encoded(Recording(t))
    BY <1>r DEF RunInv, EncodedFirst
  <2>3. Recording(t)' = Recording(t) /\ Recording(t) \in Session
    BY <2>1, <1>5
  <2> QED
    BY <1>12, <2>2, <2>3 DEF Encoded, Complete
<1>14. Kept(t)'
  <2>1. ASSUME Cached(t) PROVE Cached(t)'
    <3>1. PICK p \in Pid : caches[p].of = t /\ caches[p].images /\ caches[p].specs = "complete"
      BY <2>1 DEF Cached
    <3>2. caches'[p] = caches[p]
      BY <3>1, <1>c, <1>m
    <3> QED
      BY <3>1, <3>2 DEF Cached
  <2> QED
    BY <2>1, <1>12, <1>r, <1>m, <1>n DEF RunInv, Kept
<1> QED
  BY <1>1, <1>2, <1>3, <1>4, <1>5, <1>6, <1>7, <1>8, <1>9, <1>10, <1>11, <1>13, <1>14 DEF RunInv
-----------------------------------------------------------------------------
(* What the steps do to main, and to files.                                *)
Keeps(s) == main'[s].aborted = main[s].aborted /\ main'[s].cancelled = main[s].cancelled

LEMMA GoStep ==
    ASSUME Types, NEW s \in Session, NEW p \in Phase, Go(s, p)
    PROVE  /\ main' \in [Session -> RunType]
           /\ \A t \in Session \ {s} : main'[t] = main[t]
           /\ main'[s].phase = p /\ Keeps(s)
           /\ main'[s].number = main[s].number /\ main'[s].status = main[s].status
           /\ main'[s].running = main[s].running /\ main'[s].written = main[s].written
  BY DEF Go, Types, RunType, Keeps

LEMMA EndStep ==
    ASSUME Types, NEW s \in Session, NEW p \in {"exited", "killed"}, NEW st \in {0, 1},
           End(s, p, st)
    PROVE  /\ main' \in [Session -> RunType]
           /\ \A t \in Session \ {s} : main'[t] = main[t]
           /\ main'[s].phase = p /\ main'[s].status = st /\ Keeps(s)
<1>1. p \in Phase /\ 0 \in File
  BY SessionAssumption DEF Phase, File
<1> DEFINE m == [main[s] EXCEPT !.phase = p, !.status = st, !.number = 0, !.running = FALSE,
                                !.written = FALSE]
<1>2. main' = [main EXCEPT ![s] = m] /\ main[s] \in RunType
  BY DEF End, Types
<1>3. /\ m \in RunType /\ m.phase = p /\ m.status = st
      /\ m.aborted = main[s].aborted /\ m.cancelled = main[s].cancelled
  BY <1>1, <1>2 DEF RunType
<1> HIDE DEF m
<1> QED
  BY <1>2, <1>3 DEF Types, Keeps

LEMMA FaultStep ==
    ASSUME Types, Fault \/ NoFault
    PROVE  faults' \in 0..MaxFaults
  BY SessionAssumption DEF Types, Fault, NoFault

LEMMA OutputFile ==
    ASSUME Types, NEW s \in Session
    PROVE  Output(s) \in File
  BY DEF Types, RunType, Output

LEMMA RecordingIn ==
    ASSUME Types, NEW s \in Session, RunInv(s)
    PROVE  Recording(s) \in Session
  BY DEF RunInv, Rescuing, Recording

(* What s spoils is the recording in the file, and with a live writer its  *)
(* own.                                                                    *)
LEMMA SpoiltStep ==
    ASSUME IInv, NEW s \in Session, NEW f \in File
    PROVE  /\ Spoilt(s, f) \subseteq Session
           /\ files[f].content = "complete" /\ files[f].of # 0 => files[f].of \in Spoilt(s, f)
           /\ \A t \in Session \ {s} :
                 t \in files[f].by /\ ~Gone(t) => Recording(s) \in Spoilt(s, f)
           /\ \A t \in Session \ {s} :
                 files[f].by = {t} /\ ~Gone(t) => files[f].of \in Spoilt(s, f)
<1>1. Recording(s) \in Session /\ files[f] \in FileType
  BY RecordingIn DEF IInv, Types
<1>2. Spoilt(s, f) \subseteq Session
  BY <1>1 DEF Spoilt, FileType, Session
<1>3. files[f].content = "complete" /\ files[f].of # 0 => files[f].of \in Spoilt(s, f)
  BY DEF Spoilt
<1>4. ASSUME NEW t \in Session \ {s}, t \in files[f].by, ~Gone(t)
      PROVE  t \in files[f].by \ {s} /\ Live(t)
  BY <1>4 DEF IInv, RunInv, WritesOwn, Live, Capturing
<1>5. \A t \in Session \ {s} : t \in files[f].by /\ ~Gone(t) => Recording(s) \in Spoilt(s, f)
  BY <1>1, <1>4 DEF Spoilt, Session
<1>6. ASSUME NEW t \in Session \ {s}, files[f].by = {t}, ~Gone(t)
      PROVE  files[f].of \in Spoilt(s, f)
  <2>1. files[f].of = Recording(t) /\ Recording(t) \in Session
    BY <1>6, RecordingIn DEF IInv, RunInv, SingleBy
  <2>2. t \in files[f].by \ {s} /\ Live(t)
    BY <1>6, <1>4
  <2> QED
    BY <2>1, <2>2 DEF Spoilt, Session
<1> QED
  BY <1>2, <1>3, <1>5, <1>6

LEMMA SameFiles ==
    ASSUME UNCHANGED <<files, raced, spoilt>>, NEW s \in Session
    PROVE  FileStep(s)
  BY DEF FileStep

LEMMA RemovedFile ==
    ASSUME IInv, NEW s \in Session, NEW f \in File, Remove(s, f), UNCHANGED raced
    PROVE  FileStep(s) /\ files' \in [File -> FileType] /\ spoilt' \subseteq Session
<1>0. NoFile \in FileType
  BY SessionAssumption DEF NoFile, FileType
<1>1. files' \in [File -> FileType] /\ spoilt' \subseteq Session
  BY <1>0, SpoiltStep DEF Remove, IInv, Types
<1>2. \A g \in File : files'[g] = IF g = f THEN NoFile ELSE files[g]
  BY DEF Remove, IInv, Types
<1>3. /\ raced \subseteq raced' /\ spoilt \subseteq spoilt'
      /\ Spoilt(s, f) \subseteq spoilt'
  BY DEF Remove
<1>4. \A g \in File : files[g].content = "complete" /\ files[g].of # 0 =>
         (files'[g].of = files[g].of /\ files'[g].content = "complete") \/ files[g].of \in spoilt'
  BY <1>2, <1>3, SpoiltStep
<1>5. \A g \in File, t \in Session \ {s} :
         files[g].by = {t} /\ ~Gone(t) => files'[g].by = {t} \/ files[g].of \in spoilt'
  BY <1>2, <1>3, SpoiltStep
<1> QED
  BY <1>1, <1>2, <1>3, <1>4, <1>5 DEF FileStep, NoFile

LEMMA CompletedFile ==
    ASSUME IInv, NEW s \in Session, Completed(s), UNCHANGED <<raced, spoilt>>
    PROVE  FileStep(s) /\ files' \in [File -> FileType]
<1>1. files' \in [File -> FileType]
  BY DEF Completed, IInv, Types, FileType
<1>2. \A f \in File : files[f].by # {s} => files'[f] = files[f]
  BY DEF Completed
<1>3. \A f \in File : files'[f].by = files[f].by /\ files'[f].of = files[f].of
                      /\ (files[f].content = "complete" => files'[f].content = "complete")
  BY DEF Completed, IInv, Types, FileType
<1>4. \A f \in File : files[f].by = {s} => files[f] # NoFile
  BY DEF NoFile
<1> QED
  BY <1>1, <1>2, <1>3, <1>4 DEF FileStep

LEMMA StepKept ==
    ASSUME IInv, NEW s \in Session, Types', Empty', MainStep(s), CacheStep(s), FileStep(s),
           RunInv(s)'
    PROVE  IInv'
  BY OthersKept DEF IInv

(* What a step of main() leaves of its own run.                            *)
LEMMA QuietStep ==
    ASSUME IInv, NEW s \in Session, main[s].phase # "new", ~Gone(s), faults' \in 0..MaxFaults,
           UNCHANGED <<args, files, caches, raced, spoilt, captured>>,
           main' \in [Session -> RunType], \A t \in Session \ {s} : main'[t] = main[t],
           Discarded(s) => Discarded(s)'
    PROVE  /\ Types' /\ Empty' /\ MainStep(s) /\ CacheStep(s) /\ FileStep(s)
           /\ Rescuing(s)' /\ SingleBy(s)' /\ Kept(s)'
           /\ Recording(s)' = Recording(s)
           /\ Encoded(Recording(s)) => Encoded(Recording(s))'
<1>1. Types' /\ Empty' /\ MainStep(s) /\ CacheStep(s)
  BY DEF IInv, Types, Empty, MainStep, CacheStep
<1>2. FileStep(s)
  BY SameFiles
<1>3. Recording(s)' = Recording(s)
  BY DEF Recording, Rescue
<1>4. Rescuing(s)'
  <2> SUFFICES ASSUME Rescue(s) PROVE Recording(s) \in Session /\ Gone(Recording(s))'
    BY <1>3 DEF Rescuing, Rescue
  <2>1. Recording(s) \in Session /\ Gone(Recording(s))
    BY DEF IInv, RunInv, Rescuing
  <2>2. Recording(s) # s
    BY <2>1
  <2> QED
    BY <1>3, <2>1, <2>2 DEF Gone
<1>5. SingleBy(s)'
  BY <1>3 DEF IInv, RunInv, SingleBy
<1>6. Kept(s)' /\ (Encoded(Recording(s)) => Encoded(Recording(s))')
  BY <1>3 DEF IInv, RunInv, Kept, Cached, Encoded, Complete
<1> QED
  BY <1>1, <1>2, <1>3, <1>4, <1>5, <1>6
-----------------------------------------------------------------------------
(* A process that ends before its end changes nothing else.                *)
LEMMA DeathKept ==
    ASSUME IInv, NEW s \in Session, Live(s), faults' \in 0..MaxFaults,
           NEW p \in {"exited", "killed"}, End(s, p, 1),
           UNCHANGED <<args, files, caches, raced, spoilt, captured>>
    PROVE  IInv'
<1>1. /\ main' \in [Session -> RunType]
      /\ \A t \in Session \ {s} : main'[t] = main[t]
      /\ main'[s].phase \in {"exited", "killed"} /\ main'[s].status = 1 /\ Keeps(s)
  BY EndStep DEF IInv
<1>2. main[s].phase # "new" /\ ~Gone(s) /\ (Discarded(s) => Discarded(s)')
  BY <1>1 DEF Live, Gone, Discarded, Keeps
<1>3. /\ Types' /\ Empty' /\ MainStep(s) /\ CacheStep(s) /\ FileStep(s)
      /\ Rescuing(s)' /\ SingleBy(s)' /\ Kept(s)'
  BY <1>1, <1>2, QuietStep
<1>4. RunInv(s)
  BY DEF IInv
<1>5. Place(s)' /\ Stopped(s)' /\ CapturedLate(s)' /\ CacheOwner(s)'
  BY <1>1, <1>2, <1>4 DEF RunInv, Place, Stopped, CapturedLate, CacheOwner, Early, Naming,
       Encoding, Capturing, Rescue, Records
<1>6. Owned(s)' /\ WritesOwn(s)' /\ Writer(s)' /\ Held(s)'
  BY <1>1 DEF Owned, WritesOwn, Writer, Held, Gone, Named, Encoding, Capturing, Naming
<1>7. Aborted(s)'
  BY <1>1, <1>4 DEF RunInv, Aborted, Ended, Keeps, Rescue
<1>8. Purged(s)' /\ EncodedFirst(s)'
  BY <1>1 DEF Purged, EncodedFirst, Ended
<1>9. RunInv(s)'
  BY <1>3, <1>5, <1>6, <1>7, <1>8 DEF RunInv
<1> QED
  BY <1>3, <1>9, StepKept

(* A step to another line of main() need not touch what is about all runs. *)
LEMMA LineKept ==
    ASSUME IInv, NEW s \in Session, Live(s), faults' \in 0..MaxFaults,
           NEW p \in Phase \ {"new", "setup", "mkdir"}, Go(s, p),
           UNCHANGED <<args, files, caches, raced, spoilt, captured>>,
           Place(s)', Stopped(s)', CapturedLate(s)', Owned(s)', WritesOwn(s)', Writer(s)',
           Held(s)', Aborted(s)', Purged(s)', EncodedFirst(s)'
    PROVE  IInv'
<1>1. /\ main' \in [Session -> RunType]
      /\ \A t \in Session \ {s} : main'[t] = main[t]
      /\ main'[s].phase = p /\ Keeps(s)
  BY GoStep DEF IInv
<1>2. main[s].phase # "new" /\ ~Gone(s) /\ (Discarded(s) => Discarded(s)')
  BY <1>1 DEF Live, Discarded, Keeps
<1>3. /\ Types' /\ Empty' /\ MainStep(s) /\ CacheStep(s) /\ FileStep(s)
      /\ Rescuing(s)' /\ SingleBy(s)' /\ Kept(s)'
  BY <1>1, <1>2, QuietStep
<1>4. CacheOwner(s)'
  BY <1>1 DEF IInv, RunInv, CacheOwner, Rescue, Records
<1>5. RunInv(s)'
  BY <1>3, <1>4 DEF RunInv
<1> QED
  BY <1>3, <1>5, StepKept

LEMMA ReadKept ==
    ASSUME IInv, NEW s \in Session, rmdReadSpecsFile(s)
    PROVE  IInv'
<1>1. RunInv(s) /\ Live(s) /\ main[s].phase = "read"
  BY DEF IInv, rmdReadSpecsFile, Live, Gone
<1>2. UNCHANGED <<args, files, caches, raced, spoilt, captured>> /\ faults' \in 0..MaxFaults
  BY DEF rmdReadSpecsFile, Disk, IInv, Types
<1>3. CASE Go(s, "encode")
  <2>1. "encode" \in Phase \ {"new", "setup", "mkdir"}
    BY DEF Phase
  <2>2. main'[s].phase = "encode" /\ Keeps(s)
    BY <1>3, <2>1, GoStep DEF IInv
  <2>3. Rescue(s)
    BY <1>1 DEF RunInv, Place, Records, Capturing
  <2>4. Place(s)' /\ Stopped(s)' /\ CapturedLate(s)' /\ Owned(s)'
    BY <1>1, <1>2, <2>2, <2>3 DEF RunInv, Place, Stopped, CapturedLate, Owned, Naming, Encoding,
         Early, Rescue, Records
  <2>5. WritesOwn(s)' /\ Writer(s)' /\ Held(s)'
    BY <1>1, <1>2, <2>2 DEF RunInv, WritesOwn, Writer, Held, Named, Gone, Capturing
  <2>6. Aborted(s)' /\ Purged(s)' /\ EncodedFirst(s)'
    BY <1>1, <1>2, <2>2 DEF RunInv, Aborted, Purged, EncodedFirst, Ended, Keeps, Rescue
  <2> QED
    BY <1>1, <1>2, <1>3, <2>1, <2>4, <2>5, <2>6, LineKept
<1>4. CASE Exit(s, 1)
  BY <1>1, <1>2, <1>4, DeathKept DEF Exit
<1> QED
  BY <1>3, <1>4 DEF rmdReadSpecsFile

LEMMA SetUpKept ==
    ASSUME IInv, NEW s \in Session, SetUp(s)
    PROVE  IInv'
<1>1. RunInv(s) /\ Live(s) /\ main[s].phase = "setup"
  BY DEF IInv, SetUp, Live, Gone
<1>2. UNCHANGED <<args, files, caches, raced, spoilt, captured>> /\ faults' \in 0..MaxFaults
  BY FaultStep DEF SetUp, Disk, IInv
<1>3. ~Rescue(s)
  BY <1>1 DEF RunInv, Place, Encoding, Naming
<1>4. CASE Go(s, IF args[s].encOnTheFly THEN "name" ELSE "mkdir")
  <2>1. {"name", "mkdir"} \subseteq Phase
    BY DEF Phase
  <2> DEFINE p == IF args[s].encOnTheFly THEN "name" ELSE "mkdir"
  <2>2. /\ main' \in [Session -> RunType]
        /\ \A t \in Session \ {s} : main'[t] = main[t]
        /\ main'[s].phase = p /\ Keeps(s) 
    BY <1>4, <2>1, GoStep DEF IInv
  <2>3. main[s].phase # "new" /\ ~Gone(s) /\ (Discarded(s) => Discarded(s)')
    BY <1>1, <2>2 DEF Live, Discarded, Keeps
  <2>4. /\ Types' /\ Empty' /\ MainStep(s) /\ CacheStep(s) /\ FileStep(s)
        /\ Rescuing(s)' /\ SingleBy(s)' /\ Kept(s)'
    BY <1>2, <2>2, <2>3, QuietStep
  <2>5. s \notin captured /\ \A q \in Pid : caches[q].of # s
    BY <1>1 DEF RunInv, CapturedLate, CacheOwner, Early
  <2>6. Place(s)' /\ CapturedLate(s)' /\ CacheOwner(s)' /\ Owned(s)'
    BY <1>1, <1>2, <1>3, <2>2, <2>5 DEF RunInv, Place, CapturedLate, CacheOwner, Owned, Naming,
       Encoding, Capturing, Rescue, Records
  <2>7. Stopped(s)' /\ WritesOwn(s)' /\ Writer(s)' /\ Held(s)'
    BY <1>1, <1>2, <2>2 DEF RunInv, Stopped, WritesOwn, Writer, Held, Named, Gone, Capturing, Naming
  <2>8. Aborted(s)' /\ Purged(s)' /\ EncodedFirst(s)'
    BY <1>1, <1>2, <2>2 DEF RunInv, Aborted, Purged, EncodedFirst, Ended, Keeps, Rescue
  <2>9. RunInv(s)'
    BY <2>4, <2>6, <2>7, <2>8 DEF RunInv
  <2> QED
    BY <2>4, <2>9, StepKept
<1>5. CASE Exit(s, 1)
  BY <1>1, <1>2, <1>5, DeathKept DEF Exit
<1> QED
  BY <1>4, <1>5 DEF SetUp

LEMMA HeadersKept ==
    ASSUME IInv, NEW s \in Session, WriteHeaders(s)
    PROVE  IInv'
<1>1. RunInv(s) /\ Live(s) /\ main[s].phase = "headers"
  BY DEF IInv, WriteHeaders, Live, Gone
<1>2. UNCHANGED <<args, files, caches, raced, spoilt, captured>> /\ faults' \in 0..MaxFaults
  BY FaultStep DEF WriteHeaders, Disk, IInv
<1>3. CASE Go(s, IF args[s].encOnTheFly THEN "threads" ELSE "load")
  <2> DEFINE p == IF args[s].encOnTheFly THEN "threads" ELSE "load"
  <2>1. p \in Phase \ {"new", "setup", "mkdir"}
    BY DEF Phase
  <2>2. /\ main'[s].phase = p /\ Keeps(s) /\ main'[s].number = main[s].number
        /\ main'[s].running = main[s].running /\ main'[s].written = main[s].written
    BY <1>3, <2>1, GoStep DEF IInv
  <2>3. Place(s)' /\ Stopped(s)' /\ CapturedLate(s)' /\ Owned(s)'
    BY <1>1, <1>2, <2>2 DEF RunInv, Place, Stopped, CapturedLate, Owned, Naming, Encoding,
         Capturing, Early, Rescue, Records, Keeps
  <2>4. WritesOwn(s)' /\ Writer(s)' /\ Held(s)'
    BY <1>1, <1>2, <2>2 DEF RunInv, WritesOwn, Writer, Held, Named, Gone, Capturing, Output,
         Recording, Rescue
  <2>5. Aborted(s)' /\ Purged(s)' /\ EncodedFirst(s)'
    BY <1>1, <1>2, <2>2 DEF RunInv, Aborted, Purged, EncodedFirst, Ended, Keeps, Rescue
  <2> QED
    BY <1>1, <1>2, <1>3, <2>1, <2>3, <2>4, <2>5, LineKept
<1>4. CASE Exit(s, 1)
  BY <1>1, <1>2, <1>4, DeathKept DEF Exit
<1> QED
  BY <1>3, <1>4 DEF WriteHeaders

LEMMA ThreadsKept ==
    ASSUME IInv, NEW s \in Session, rmdThreads(s)
    PROVE  IInv'
<1>1. RunInv(s) /\ Live(s) /\ main[s].phase = "threads"
  BY DEF IInv, rmdThreads, Live, Gone
<1>2. UNCHANGED <<args, files, caches, raced, spoilt, captured>> /\ faults' \in 0..MaxFaults
  BY FaultStep DEF rmdThreads, Disk, IInv
<1>3. CASE Go(s, "capture")
  <2>1. "capture" \in Phase \ {"new", "setup", "mkdir"}
    BY DEF Phase
  <2>2. main'[s].phase = "capture" /\ Keeps(s) /\ main'[s].number = main[s].number
    BY <1>3, <2>1, GoStep DEF IInv
  <2>3. Place(s)' /\ Stopped(s)' /\ CapturedLate(s)' /\ Owned(s)'
    BY <1>1, <1>2, <2>2 DEF RunInv, Place, Stopped, CapturedLate, Owned, Naming, Encoding,
         Capturing, Early, Rescue, Records
  <2>4. WritesOwn(s)' /\ Writer(s)' /\ Held(s)'
    BY <1>1, <1>2, <2>2 DEF RunInv, WritesOwn, Writer, Held, Named, Gone, Capturing, Output
  <2>5. Aborted(s)' /\ Purged(s)' /\ EncodedFirst(s)'
    BY <1>1, <1>2, <2>2 DEF RunInv, Aborted, Purged, EncodedFirst, Ended, Keeps, Rescue
  <2> QED
    BY <1>1, <1>2, <1>3, <2>1, <2>3, <2>4, <2>5, LineKept
<1>4. CASE Exit(s, 1)
  BY <1>1, <1>2, <1>4, DeathKept DEF Exit
<1> QED
  BY <1>3, <1>4 DEF rmdThreads

LEMMA CaptureEndsKept ==
    ASSUME IInv, NEW s \in Session, CaptureEnds(s)
    PROVE  IInv'
<1>1. RunInv(s) /\ Live(s) /\ main[s].phase = "capture"
  BY DEF IInv, CaptureEnds, Live, Gone
<1>2. UNCHANGED <<args, files, caches, raced, spoilt, captured>> /\ faults' \in 0..MaxFaults
  BY DEF CaptureEnds, Disk, IInv, Types
<1>3. "captured" \in Phase \ {"new", "setup", "mkdir"} /\ Go(s, "captured")
  BY DEF Phase, CaptureEnds
<1>4. main'[s].phase = "captured" /\ Keeps(s) /\ main'[s].number = main[s].number
  BY <1>3, GoStep DEF IInv
<1>5. Place(s)' /\ Stopped(s)' /\ CapturedLate(s)' /\ Owned(s)'
  BY <1>1, <1>2, <1>4 DEF RunInv, Place, Stopped, CapturedLate, Owned, Naming, Encoding,
       Capturing, Early, Rescue, Records
<1>6. WritesOwn(s)' /\ Writer(s)' /\ Held(s)'
  BY <1>1, <1>2, <1>4 DEF RunInv, WritesOwn, Writer, Held, Named, Gone, Capturing, Output
<1>7. Aborted(s)' /\ Purged(s)' /\ EncodedFirst(s)'
  BY <1>1, <1>2, <1>4 DEF RunInv, Aborted, Purged, EncodedFirst, Ended, Keeps, Rescue
<1> QED
  BY <1>1, <1>2, <1>3, <1>5, <1>6, <1>7, LineKept

(* An aborted recording goes to the purge, and one that is not encoded to  *)
(* the end.                                                                *)
LEMMA AfterCaptureKept ==
    ASSUME IInv, NEW s \in Session, AfterCapture(s)
    PROVE  IInv'
<1> DEFINE p == IF args[s].encOnTheFly \/ args[s].no_encode THEN "tail"
                ELSE IF main[s].aborted = "no" THEN "encode" ELSE "purge"
<1>1. RunInv(s) /\ Live(s) /\ main[s].phase = "captured"
  BY DEF IInv, AfterCapture, Live, Gone
<1>2. UNCHANGED <<args, files, caches, raced, spoilt, captured>> /\ faults' \in 0..MaxFaults
  BY DEF AfterCapture, Disk, IInv, Types
<1>3. p \in Phase \ {"new", "setup", "mkdir"} /\ Go(s, p)
  BY DEF Phase, AfterCapture
<1>4. main'[s].phase = p /\ Keeps(s) /\ main'[s].number = main[s].number
  BY <1>3, GoStep DEF IInv
<1>5. ~Rescue(s)
  BY <1>1 DEF RunInv, Place, Encoding, Naming
<1>6. Place(s)' /\ Stopped(s)' /\ CapturedLate(s)' /\ Owned(s)'
  BY <1>1, <1>2, <1>4, <1>5 DEF RunInv, Place, Stopped, CapturedLate, Owned, Naming, Encoding,
       Capturing, Early, Rescue, Records
<1>7. WritesOwn(s)' /\ Writer(s)' /\ Held(s)'
  BY <1>1, <1>2, <1>4 DEF RunInv, WritesOwn, Writer, Held, Named, Gone, Capturing, Output
<1>8. Aborted(s)'
  BY <1>1, <1>2, <1>4 DEF RunInv, Aborted, Ended, Keeps, Rescue
<1>9. Purged(s)' /\ EncodedFirst(s)'
  BY <1>1, <1>2, <1>4, <1>5 DEF RunInv, Purged, EncodedFirst, Ended, Keeps, Rescue, Records,
       Discarded
<1> QED
  BY <1>1, <1>2, <1>3, <1>6, <1>7, <1>8, <1>9, LineKept

LEMMA CreateLoaderKept ==
    ASSUME IInv, NEW s \in Session, CreateLoader(s)
    PROVE  IInv'
<1>1. RunInv(s) /\ Live(s) /\ main[s].phase = "load"
  BY DEF IInv, CreateLoader, Live, Gone
<1>2. UNCHANGED <<args, files, caches, raced, spoilt, captured>> /\ faults' \in 0..MaxFaults
  BY FaultStep DEF CreateLoader, Disk, IInv
<1>3. CASE Go(s, "loading")
  <2>1. "loading" \in Phase \ {"new", "setup", "mkdir"}
    BY DEF Phase
  <2>2. /\ main'[s].phase = "loading" /\ Keeps(s) /\ main'[s].number = main[s].number
        /\ main'[s].running = main[s].running
    BY <1>3, <2>1, GoStep DEF IInv
  <2>3. Place(s)' /\ Stopped(s)' /\ CapturedLate(s)' /\ Owned(s)'
    BY <1>1, <1>2, <2>2 DEF RunInv, Place, Stopped, CapturedLate, Owned, Naming, Encoding,
         Capturing, Early, Rescue, Records, Keeps
  <2>4. WritesOwn(s)' /\ Writer(s)' /\ Held(s)'
    BY <1>1, <1>2, <2>2 DEF RunInv, WritesOwn, Writer, Held, Named, Gone, Capturing, Output,
         Recording, Rescue
  <2>5. Aborted(s)' /\ Purged(s)' /\ EncodedFirst(s)'
    BY <1>1, <1>2, <2>2 DEF RunInv, Aborted, Purged, EncodedFirst, Ended, Keeps, Rescue
  <2> QED
    BY <1>1, <1>2, <1>3, <2>1, <2>3, <2>4, <2>5, LineKept
<1>4. CASE Exit(s, 1)
  BY <1>1, <1>2, <1>4, DeathKept DEF Exit
<1> QED
  BY <1>3, <1>4 DEF CreateLoader

(* The name is settled when no file has it, or the run may overwrite.      *)
LEMMA NamingKept ==
    ASSUME IInv, NEW s \in Session, rmdIncrementalNaming(s)
    PROVE  IInv'
<1>1. RunInv(s) /\ Live(s) /\ main[s].phase = "name"
  BY DEF IInv, rmdIncrementalNaming, Live, Gone
<1>2. UNCHANGED <<args, files, caches, raced, spoilt, captured>> /\ faults' \in 0..MaxFaults
  BY DEF rmdIncrementalNaming, Disk, IInv, Types
<1>3. \A f \in File : s \notin files[f].by
  BY <1>1 DEF RunInv, WritesOwn, Gone, Capturing
<1>4. CASE ~(~args[s].overwrite /\ files[Output(s)] # NoFile)
  <2>1. "open" \in Phase \ {"new", "setup", "mkdir"} /\ Go(s, "open")
    BY <1>4 DEF Phase, rmdIncrementalNaming
  <2>2. /\ main'[s].phase = "open" /\ Keeps(s) /\ main'[s].number = main[s].number
        /\ main'[s].running = main[s].running
    BY <2>1, GoStep DEF IInv
  <2>3. Place(s)' /\ Stopped(s)' /\ CapturedLate(s)' /\ Owned(s)'
    BY <1>1, <1>2, <2>2 DEF RunInv, Place, Stopped, CapturedLate, Owned, Naming, Encoding,
         Capturing, Early, Rescue, Records, Keeps
  <2>4. WritesOwn(s)' /\ Writer(s)' /\ Held(s)'
    BY <1>2, <1>3, <1>4, <2>2 DEF WritesOwn, Writer, Held, Output
  <2>5. Aborted(s)' /\ Purged(s)' /\ EncodedFirst(s)'
    BY <1>1, <1>2, <2>2 DEF RunInv, Aborted, Purged, EncodedFirst, Ended, Keeps, Rescue
  <2> QED
    BY <1>1, <1>2, <2>1, <2>3, <2>4, <2>5, LineKept
<1>5. CASE ~args[s].overwrite /\ files[Output(s)] # NoFile
  <2>1. main' = [main EXCEPT ![s].number = @ + 1] /\ main[s].number < MaxNumber
    BY <1>5 DEF rmdIncrementalNaming, Output
  <2>2. main \in [Session -> RunType] /\ main[s].number + 1 \in File
    BY <2>1, SessionAssumption DEF IInv, Types, RunType, File
  <2>3. /\ main' \in [Session -> RunType]
        /\ \A t \in Session \ {s} : main'[t] = main[t]
        /\ main'[s].phase = "name" /\ Keeps(s) /\ main'[s].running = main[s].running
    BY <1>1, <2>1, <2>2 DEF RunType, Keeps
  <2>4. main[s].phase # "new" /\ ~Gone(s) /\ (Discarded(s) => Discarded(s)')
    BY <1>1, <2>3 DEF Live, Discarded, Keeps
  <2>5. /\ Types' /\ Empty' /\ MainStep(s) /\ CacheStep(s) /\ FileStep(s)
        /\ Rescuing(s)' /\ SingleBy(s)' /\ Kept(s)'
    BY <1>2, <2>3, <2>4, QuietStep
  <2>6. Place(s)' /\ Stopped(s)' /\ CapturedLate(s)' /\ CacheOwner(s)' /\ Owned(s)'
    BY <1>1, <1>2, <2>3 DEF RunInv, Place, Stopped, CapturedLate, CacheOwner, Owned, Naming,
         Encoding, Capturing, Early, Rescue, Records, Keeps
  <2>7. WritesOwn(s)' /\ Writer(s)' /\ Held(s)'
    BY <1>2, <1>3, <2>3 DEF WritesOwn, Writer, Held, Named
  <2>8. Aborted(s)' /\ Purged(s)' /\ EncodedFirst(s)'
    BY <1>1, <1>2, <2>3 DEF RunInv, Aborted, Purged, EncodedFirst, Ended, Keeps, Rescue
  <2>9. RunInv(s)'
    BY <2>5, <2>6, <2>7, <2>8 DEF RunInv
  <2> QED
    BY <2>5, <2>9, StepKept
<1> QED
  BY <1>4, <1>5

LEMMA EncodeCacheKept ==
    ASSUME IInv, NEW s \in Session, rmdEncodeCache(s)
    PROVE  IInv'
<1>1. RunInv(s) /\ ~Gone(s) /\ main[s].phase = "encode" /\ main[s].phase # "new"
  BY DEF IInv, rmdEncodeCache, Gone
<1>2. UNCHANGED <<args, files, caches, raced, spoilt, captured>> /\ faults' \in 0..MaxFaults
  BY DEF rmdEncodeCache, Disk, IInv, Types
<1>3. main' = [main EXCEPT ![s].phase = "name", ![s].running = TRUE] /\ "name" \in Phase
  BY DEF rmdEncodeCache, Phase
<1>4. /\ main' \in [Session -> RunType]
      /\ \A t \in Session \ {s} : main'[t] = main[t]
      /\ main'[s].phase = "name" /\ Keeps(s) /\ main'[s].running
  <2> DEFINE m == [main[s] EXCEPT !.phase = "name", !.running = TRUE]
  <2>1. main' = [main EXCEPT ![s] = m] /\ main[s] \in RunType
    BY <1>3 DEF IInv, Types
  <2>2. /\ m \in RunType /\ m.phase = "name" /\ m.running
        /\ m.aborted = main[s].aborted /\ m.cancelled = main[s].cancelled
    BY <1>3, <2>1 DEF RunType
  <2> HIDE DEF m
  <2> QED
    BY <2>1, <2>2 DEF IInv, Types, Keeps
<1>5. Discarded(s) => Discarded(s)'
  BY <1>4 DEF Discarded, Keeps
<1>6. /\ Types' /\ Empty' /\ MainStep(s) /\ CacheStep(s) /\ FileStep(s)
      /\ Rescuing(s)' /\ SingleBy(s)' /\ Kept(s)'
  BY <1>1, <1>2, <1>4, <1>5, QuietStep
<1>7. Place(s)' /\ Stopped(s)' /\ CapturedLate(s)' /\ CacheOwner(s)' /\ Owned(s)'
  BY <1>1, <1>2, <1>4 DEF RunInv, Place, Stopped, CapturedLate, CacheOwner, Owned, Naming,
       Encoding, Capturing, Early, Rescue, Records
<1>8. WritesOwn(s)' /\ Writer(s)' /\ Held(s)'
  BY <1>1, <1>2, <1>4 DEF RunInv, WritesOwn, Writer, Held, Named, Capturing
<1>9. Aborted(s)' /\ Purged(s)' /\ EncodedFirst(s)'
  BY <1>1, <1>2, <1>4 DEF RunInv, Aborted, Purged, EncodedFirst, Ended, Keeps, Rescue
<1>10. RunInv(s)'
  BY <1>6, <1>7, <1>8, <1>9 DEF RunInv
<1> QED
  BY <1>6, <1>10, StepKept

(* The loader that has read everything, or was stopped, has cleared        *)
(* running; one that cannot open the cache has not.                        *)
LEMMA LoadKept ==
    ASSUME IInv, NEW s \in Session, rmdLoadCache(s)
    PROVE  IInv'
<1>1. RunInv(s) /\ ~Gone(s) /\ main[s].phase = "loading" /\ main[s].phase # "new"
  BY DEF IInv, rmdLoadCache, Gone
<1>2. UNCHANGED <<args, files, caches, raced, spoilt, captured>> /\ faults' \in 0..MaxFaults
  BY FaultStep DEF rmdLoadCache, Disk, IInv
<1>3. "flush" \in Phase /\ main[s] \in RunType /\ ~args[s].encOnTheFly
  BY <1>1 DEF Phase, IInv, Types, RunInv, Place, Capturing
<1>4. /\ main' \in [Session -> RunType]
      /\ \A t \in Session \ {s} : main'[t] = main[t]
      /\ main'[s].phase = "flush" /\ Keeps(s) /\ main'[s].number = main[s].number
      /\ main'[s].running \/ main'[s].written \/ ~main[s].running
  <2>1. CASE main' = [main EXCEPT ![s].phase = "flush", ![s].written = main[s].running,
                                  ![s].running = FALSE]
    BY <2>1, <1>3 DEF IInv, Types, RunType, Keeps
  <2>2. CASE Go(s, "flush")
    BY <2>2, <1>3, GoStep DEF IInv
  <2> QED
    BY <2>1, <2>2 DEF rmdLoadCache
<1>5. Discarded(s) => Discarded(s)'
  BY <1>4 DEF Discarded, Keeps
<1>6. /\ Types' /\ Empty' /\ MainStep(s) /\ CacheStep(s) /\ FileStep(s)
      /\ Rescuing(s)' /\ SingleBy(s)' /\ Kept(s)'
  BY <1>1, <1>2, <1>4, <1>5, QuietStep
<1>7. Place(s)' /\ CapturedLate(s)' /\ CacheOwner(s)' /\ Owned(s)'
  BY <1>1, <1>2, <1>4 DEF RunInv, Place, CapturedLate, CacheOwner, Owned, Naming,
       Encoding, Capturing, Early, Rescue, Records
<1>8. Stopped(s)'
  BY <1>1, <1>2, <1>3, <1>4 DEF RunInv, Stopped, Naming, Keeps
<1>9. WritesOwn(s)' /\ Writer(s)' /\ Held(s)'
  BY <1>1, <1>2, <1>4 DEF RunInv, WritesOwn, Writer, Held, Named, Capturing, Gone, Output,
       Recording, Rescue
<1>10. Aborted(s)' /\ Purged(s)' /\ EncodedFirst(s)'
  BY <1>1, <1>2, <1>4 DEF RunInv, Aborted, Purged, EncodedFirst, Ended, Keeps, Rescue
<1>11. RunInv(s)'
  BY <1>6, <1>7, <1>8, <1>9, <1>10 DEF RunInv
<1> QED
  BY <1>6, <1>11, StepKept

(* A signal cancels what is being encoded and aborts what is captured.     *)
LEMMA SignalKept ==
    ASSUME IInv, NEW s \in Session, NEW g \in {"SIGINT", "SIGABRT"}, rmdSetRunning(s, g)
    PROVE  IInv'
<1>1. main[s].phase \in {"tail", "purge"} \union Capturing \union Encoding
  BY DEF rmdSetRunning, Handled, Capturing, Encoding, Naming
<1>2. UNCHANGED <<args, files, caches, raced, spoilt, captured>> /\ faults' \in 0..MaxFaults
  BY DEF rmdSetRunning, Disk, IInv, Types
<1>3. RunInv(s) /\ ~Gone(s) /\ main[s].phase # "new"
  BY <1>1 DEF IInv, Gone, Capturing, Encoding, Naming
<1> DEFINE a == IF g # "SIGABRT" \/ main[s].aborted # "no" THEN main[s].aborted
                ELSE IF ~Rescue(s) /\ \/ main[s].phase \in {"capture", "captured"}
                                      \/ main[s].phase = "tail" /\ args[s].encOnTheFly
                     THEN "recording" ELSE "later"
           c == main[s].cancelled
                \/ main[s].phase \in {"name", "open", "headers", "load", "loading", "flush"}
<1>4. main' = [main EXCEPT ![s].running = FALSE, ![s].aborted = a, ![s].cancelled = c]
  BY DEF rmdSetRunning
<1>5. a \in {"no", "recording", "later"} /\ c \in BOOLEAN
  BY DEF IInv, Types, RunType
<1>6. (main[s].aborted # "no" => a # "no") /\ (main[s].cancelled => c)
  OBVIOUS
<1>7. (a = "recording" =>
         \/ main[s].aborted = "recording"
         \/ ~Rescue(s) /\ main[s].phase \in {"capture", "captured"}
         \/ ~Rescue(s) /\ main[s].phase = "tail" /\ args[s].encOnTheFly)
  OBVIOUS
<1>8. main[s].phase \in Naming \union {"flush"} => c
  BY DEF Naming
<1> HIDE DEF a, c
<1>m. main \in [Session -> RunType]
  BY DEF IInv, Types
<1>9. /\ main' \in [Session -> RunType]
      /\ \A t \in Session \ {s} : main'[t] = main[t]
      /\ main'[s].phase = main[s].phase /\ main'[s].number = main[s].number
      /\ main'[s].status = main[s].status /\ main'[s].aborted = a /\ main'[s].cancelled = c
      /\ main'[s].written = main[s].written
  <2>1. main' = [main EXCEPT ![s] = [@ EXCEPT !.running = FALSE, !.aborted = a, !.cancelled = c]]
    BY <1>4
  <2>2. main[s] \in RunType
    BY <1>m
  <2>3. [main[s] EXCEPT !.running = FALSE, !.aborted = a, !.cancelled = c] \in RunType
    BY <1>5, <2>2 DEF RunType
  <2> QED
    BY <1>m, <2>1, <2>2, <2>3 DEF RunType
<1>10. Discarded(s) => Discarded(s)'
  BY <1>6, <1>9 DEF Discarded
<1>11. /\ Types' /\ Empty' /\ MainStep(s) /\ CacheStep(s) /\ FileStep(s)
       /\ Rescuing(s)' /\ SingleBy(s)' /\ Kept(s)' /\ Recording(s)' = Recording(s)
       /\ Encoded(Recording(s)) => Encoded(Recording(s))'
  BY <1>2, <1>3, <1>9, <1>10, QuietStep
<1>12. Place(s)' /\ CapturedLate(s)' /\ CacheOwner(s)' /\ Owned(s)'
  BY <1>2, <1>3, <1>9 DEF RunInv, Place, CapturedLate, CacheOwner, Owned, Rescue, Records
<1>13. Stopped(s)'
  BY <1>2, <1>8, <1>9 DEF Stopped
<1>14. WritesOwn(s)' /\ Writer(s)' /\ Held(s)'
  BY <1>2, <1>3, <1>9, <1>11 DEF RunInv, WritesOwn, Writer, Held, Named, Gone, Output
<1>15. Aborted(s)'
  <2>1. CASE main[s].aborted = "recording"
    BY <2>1, <1>2, <1>3, <1>9 DEF RunInv, Aborted, Ended, Gone, Rescue
  <2>2. CASE ~Rescue(s) /\ main[s].phase \in {"capture", "captured"}
    BY <2>2, <1>2, <1>3, <1>9 DEF RunInv, WritesOwn, Aborted, Ended, Rescue
  <2>3. CASE ~Rescue(s) /\ main[s].phase = "tail" /\ args[s].encOnTheFly
    BY <2>3, <1>2, <1>9 DEF Aborted, Ended, Rescue
  <2>4. CASE a # "recording"
    BY <2>4, <1>9 DEF Aborted
  <2> QED
    BY <2>1, <2>2, <2>3, <2>4, <1>7
<1>16. Purged(s)'
  BY <1>2, <1>3, <1>9 DEF RunInv, Purged, Ended, Records, Rescue
<1>17. EncodedFirst(s)'
  BY <1>2, <1>3, <1>9, <1>10, <1>11 DEF RunInv, EncodedFirst, Ended
<1>18. RunInv(s)'
  BY <1>11, <1>12, <1>13, <1>14, <1>15, <1>16, <1>17 DEF RunInv
<1> QED
  BY <1>11, <1>18, StepKept

LEMMA KillKept ==
    ASSUME IInv, NEW s \in Session, Kill(s)
    PROVE  IInv'
  BY DeathKept DEF Kill, Disk, IInv, Types
-----------------------------------------------------------------------------
(* A new process has left nothing yet.                                     *)
LEMMA NewRunFacts ==
    ASSUME IInv, NEW s \in Session, main[s].phase = "new"
    PROVE  /\ ~Gone(s) /\ args[s] = NoArgs /\ s \notin captured /\ main[s].aborted # "recording"
           /\ \A f \in File : s \notin files[f].by
           /\ \A p \in Pid : caches[p].of # s
<1>1. RunInv(s) /\ ~Gone(s)
  BY DEF IInv, Gone
<1> QED
  BY <1>1 DEF RunInv, Place, CapturedLate, WritesOwn, CacheOwner, Aborted, Early, Capturing

LEMMA RecordKept ==
    ASSUME IInv, NEW s \in Session, Record(s)
    PROVE  IInv'
<1>1. RunInv(s) /\ main[s].phase = "new" /\ "setup" \in Phase /\ Go(s, "setup")
  BY DEF IInv, Record, Ready, Phase
<1>2. /\ ~Gone(s) /\ args[s] = NoArgs /\ s \notin captured /\ main[s].aborted # "recording"
      /\ \A f \in File : s \notin files[f].by
      /\ \A p \in Pid : caches[p].of # s
  BY <1>1, NewRunFacts
<1>3. UNCHANGED <<files, caches, raced, spoilt, captured, faults>>
  BY DEF Record, Disk
<1>4. PICK overwrite \in BOOLEAN, mode \in {"cache", "onTheFly", "no_encode"},
           pid \in NewPids(s) :
        args' = [args EXCEPT ![s] =
                   [rescue |-> FALSE, encOnTheFly |-> mode = "onTheFly",
                    no_encode |-> mode = "no_encode", overwrite |-> overwrite,
                    dir |-> IF mode = "onTheFly" THEN 0 ELSE pid]]
  BY DEF Record
<1>5. pid \in Pid
  <2>1. \A t \in Session : Gone(t) /\ Records(t) => args[t].dir \in Pid
    BY DEF IInv, RunInv, Place, Gone
  <2>2. \A t \in 1..(s - 1) : t \in Session
    BY SessionAssumption DEF Session
  <2> QED
    BY <2>1, <2>2 DEF NewPids, Pid
<1>6. pid \in 0..Runs /\ 0 \in 0..Runs
  BY <1>5, SessionAssumption DEF Pid, Session
<1>7. /\ args' \in [Session -> ArgsType]
      /\ \A t \in Session \ {s} : args'[t] = args[t]
      /\ ~args'[s].rescue
      /\ args'[s].encOnTheFly => ~args'[s].no_encode
      /\ ~args'[s].encOnTheFly => args'[s].dir \in Pid
  BY <1>4, <1>5, <1>6 DEF IInv, Types, ArgsType
<1>8. /\ main' \in [Session -> RunType]
      /\ \A t \in Session \ {s} : main'[t] = main[t]
      /\ main'[s].phase = "setup" /\ Keeps(s)
  BY <1>1, GoStep DEF IInv
<1>9. Types' /\ Empty' /\ MainStep(s) /\ CacheStep(s)
  BY <1>2, <1>3, <1>7, <1>8 DEF IInv, Types, Empty, MainStep, CacheStep
<1>10. FileStep(s)
  BY <1>3, SameFiles
<1>11. Place(s)' /\ Stopped(s)' /\ CapturedLate(s)' /\ CacheOwner(s)' /\ Owned(s)' /\ Rescuing(s)'
  BY <1>2, <1>3, <1>7, <1>8 DEF Place, Stopped, CapturedLate, CacheOwner, Owned, Rescuing,
       Rescue, Records, Naming, Encoding, Capturing, Early
<1>12. SingleBy(s)' /\ WritesOwn(s)' /\ Writer(s)' /\ Held(s)'
  BY <1>2, <1>3, <1>8 DEF SingleBy, WritesOwn, Writer, Held, Named
<1>13. Aborted(s)' /\ Purged(s)' /\ EncodedFirst(s)' /\ Kept(s)'
  BY <1>2, <1>3, <1>8 DEF Aborted, Purged, EncodedFirst, Kept, Ended, Keeps
<1>14. RunInv(s)'
  BY <1>11, <1>12, <1>13 DEF RunInv
<1> QED
  BY <1>9, <1>10, <1>14, StepKept

LEMMA RescueKept ==
    ASSUME IInv, NEW s \in Session, rmdRescue(s)
    PROVE  IInv'
<1>1. RunInv(s) /\ main[s].phase = "new" /\ "read" \in Phase /\ Go(s, "read")
  BY DEF IInv, rmdRescue, Ready, Phase
<1>2. /\ ~Gone(s) /\ args[s] = NoArgs /\ s \notin captured /\ main[s].aborted # "recording"
      /\ \A f \in File : s \notin files[f].by
      /\ \A p \in Pid : caches[p].of # s
  BY <1>1, NewRunFacts
<1>3. UNCHANGED <<files, caches, raced, spoilt, captured, faults>>
  BY DEF rmdRescue, Disk
<1>4. PICK p \in Pid : /\ caches[p] # NoCache /\ ~Live(caches[p].of)
                       /\ args' = [args EXCEPT ![s] = [NoArgs EXCEPT !.rescue = TRUE, !.dir = p]]
  BY DEF rmdRescue
<1>5. caches[p].of \in Session /\ Gone(caches[p].of) /\ caches[p].of # s
  <2>1. caches[p].of \in Session
    BY <1>4 DEF IInv, Empty, Types, CacheType, Session
  <2>2. main[caches[p].of].phase # "new"
    BY <2>1 DEF IInv, RunInv, CacheOwner
  <2> QED
    BY <1>2, <1>4, <2>1, <2>2 DEF Live
<1>6. p \in 0..Runs
  BY SessionAssumption DEF Pid, Session
<1>7. /\ args' \in [Session -> ArgsType]
      /\ \A t \in Session \ {s} : args'[t] = args[t]
      /\ args'[s] = [NoArgs EXCEPT !.rescue = TRUE, !.dir = p]
  BY <1>4, <1>6 DEF IInv, Types, ArgsType, NoArgs
<1>8. /\ main' \in [Session -> RunType]
      /\ \A t \in Session \ {s} : main'[t] = main[t]
      /\ main'[s].phase = "read" /\ Keeps(s)
  BY <1>1, GoStep DEF IInv
<1>9. Types' /\ Empty' /\ MainStep(s) /\ CacheStep(s)
  BY <1>2, <1>3, <1>7, <1>8 DEF IInv, Types, Empty, MainStep, CacheStep
<1>10. FileStep(s)
  BY <1>3, SameFiles
<1>11. Place(s)' /\ Stopped(s)' /\ CapturedLate(s)' /\ CacheOwner(s)' /\ Owned(s)'
  BY <1>2, <1>3, <1>7, <1>8 DEF Place, Stopped, CapturedLate, CacheOwner, Owned, NoArgs,
       Rescue, Records, Naming, Encoding, Capturing, Early
<1>12. Rescuing(s)'
  BY <1>3, <1>5, <1>7, <1>8 DEF Rescuing, Recording, Rescue, Gone, NoArgs
<1>13. SingleBy(s)' /\ WritesOwn(s)' /\ Writer(s)' /\ Held(s)'
  BY <1>2, <1>3, <1>8 DEF SingleBy, WritesOwn, Writer, Held, Named
<1>14. Aborted(s)' /\ Purged(s)' /\ EncodedFirst(s)' /\ Kept(s)'
  BY <1>2, <1>3, <1>8 DEF Aborted, Purged, EncodedFirst, Kept, Ended, Keeps
<1>15. RunInv(s)'
  BY <1>11, <1>12, <1>13, <1>14 DEF RunInv
<1> QED
  BY <1>9, <1>10, <1>15, StepKept
-----------------------------------------------------------------------------
(* A step of a recording on its directory leaves the files alone.          *)
LEMMA CacheSteps ==
    ASSUME IInv, NEW s \in Session, Records(s), ~Gone(s), main[s].phase # "new",
           faults' \in 0..MaxFaults, caches' \in [Pid -> CacheType],
           UNCHANGED <<args, files, captured, raced, spoilt>>,
           main' \in [Session -> RunType], \A t \in Session \ {s} : main'[t] = main[t]
    PROVE  /\ Types' /\ MainStep(s) /\ FileStep(s)
           /\ Rescuing(s)' /\ SingleBy(s)'
           /\ args[s].dir \in Pid /\ Recording(s) = s /\ Recording(s)' = s
           /\ \A r : Encoded(r) => Encoded(r)'
<1>1. Types' /\ MainStep(s)
  BY DEF IInv, Types, MainStep
<1>2. FileStep(s)
  BY SameFiles
<1>3. Recording(s) = s /\ Recording(s)' = s /\ ~Rescue(s)'
  BY DEF Records, Recording, Rescue
<1>4. Rescuing(s)'
  BY <1>3 DEF Rescuing
<1>5. SingleBy(s)'
  BY <1>3 DEF IInv, RunInv, SingleBy
<1>6. args[s].dir \in Pid
  BY DEF IInv, RunInv, Place
<1>7. \A r : Encoded(r) => Encoded(r)'
  BY DEF Encoded, Complete
<1> QED
  BY <1>1, <1>2, <1>3, <1>4, <1>5, <1>6, <1>7

(* Only a recording is at the lines of the cache.                          *)
LEMMA OnlyRecords ==
    ASSUME IInv, NEW s \in Session,
           main[s].phase \in {"mkdir", "create", "specs", "close", "purge", "drop"}
    PROVE  Records(s) /\ Live(s) /\ ~Gone(s) /\ main[s].phase # "new"
<1>1. RunInv(s)
  BY DEF IInv
<1> QED
  BY <1>1 DEF RunInv, Place, Records, Live, Gone, Capturing, Encoding, Naming

LEMMA MkdirKept ==
    ASSUME IInv, NEW s \in Session, Mkdir(s)
    PROVE  IInv'
<1>1. RunInv(s) /\ main[s].phase = "mkdir"
  BY DEF IInv, Mkdir
<1>2. Records(s) /\ Live(s) /\ ~Gone(s) /\ main[s].phase # "new"
  BY <1>1, OnlyRecords
<1>3. UNCHANGED <<args, files, captured, raced, spoilt>> /\ faults' \in 0..MaxFaults
  BY FaultStep DEF Mkdir, IInv
<1> DEFINE d == args[s].dir
<1>4. CASE /\ caches[d] = NoCache /\ caches' = [caches EXCEPT ![d] = [NoCache EXCEPT !.of = s]]
           /\ Go(s, "create")
  <2>1. "create" \in Phase /\ d \in Pid /\ s \in 0..Runs /\ s # 0
    BY <1>1, <1>2, SessionAssumption DEF Phase, RunInv, Place, Session
  <2>2. /\ main' \in [Session -> RunType]
        /\ \A t \in Session \ {s} : main'[t] = main[t]
        /\ main'[s].phase = "create" /\ Keeps(s)
    BY <1>4, <2>1, GoStep DEF IInv
  <2>3. /\ caches' \in [Pid -> CacheType]
        /\ caches'[d].of = s
        /\ \A p \in Pid \ {d} : caches'[p] = caches[p]
    BY <1>4, <2>1 DEF IInv, Types, CacheType, NoCache
  <2>4. /\ Types' /\ MainStep(s) /\ FileStep(s) /\ Rescuing(s)' /\ SingleBy(s)'
    BY <1>2, <1>3, <2>2, <2>3, CacheSteps
  <2>5. \A p \in Pid : caches[p].of # s
    BY <1>1 DEF RunInv, CacheOwner
  <2>6. CacheStep(s) /\ Empty'
    <3>1. caches[d].of = 0
      BY <1>4 DEF NoCache
    <3>2. CacheStep(s)
      BY <2>3, <3>1 DEF CacheStep
    <3>3. Empty'
      BY <2>1, <2>3 DEF IInv, Empty, NoCache
    <3> QED
      BY <3>2, <3>3
  <2>7. s \notin captured
    BY <1>1 DEF RunInv, CapturedLate, Early
  <2>8. Place(s)' /\ Stopped(s)' /\ CapturedLate(s)'
    BY <1>1, <1>2, <1>3, <2>2, <2>7 DEF RunInv, Place, Stopped, CapturedLate, Naming,
         Encoding, Capturing, Rescue, Records
  <2>9. CacheOwner(s)' /\ Owned(s)'
    BY <1>2, <1>3, <2>1, <2>2, <2>3, <2>5 DEF CacheOwner, Owned, Records, Rescue, Naming,
         Encoding, Capturing
  <2>10. WritesOwn(s)' /\ Writer(s)' /\ Held(s)'
    BY <1>1, <1>2, <1>3, <2>2 DEF RunInv, WritesOwn, Writer, Held, Named, Capturing
  <2>11. Aborted(s)' /\ Purged(s)' /\ EncodedFirst(s)' /\ Kept(s)'
    BY <1>1, <1>3, <2>2, <2>7 DEF RunInv, Aborted, Purged, EncodedFirst, Kept, Ended, Keeps
  <2>12. RunInv(s)'
    BY <2>4, <2>8, <2>9, <2>10, <2>11 DEF RunInv
  <2> QED
    BY <2>4, <2>6, <2>12, StepKept
<1>5. CASE Exit(s, 1) /\ UNCHANGED caches
  BY <1>2, <1>3, <1>5, DeathKept DEF Exit
<1> QED
  BY <1>4, <1>5 DEF Mkdir

(* While the cache is being made nothing is captured and no file open.     *)
LEMMA MakingKept ==
    ASSUME IInv, NEW s \in Session, main[s].phase \in {"create", "specs", "close"},
           NEW p \in {"specs", "close", "threads"}, Go(s, p), faults' \in 0..MaxFaults,
           NEW c \in CacheType, c.of = s, c.images,
           p = "threads" => c.specs = "complete",
           caches' = [caches EXCEPT ![args[s].dir] = c],
           UNCHANGED <<args, files, captured, raced, spoilt>>
    PROVE  IInv'
<1> DEFINE d == args[s].dir
<1>1. RunInv(s) /\ p \in Phase
  BY DEF IInv, Phase
<1>2. Records(s) /\ Live(s) /\ ~Gone(s) /\ main[s].phase # "new"
  BY OnlyRecords
<1>3. /\ main' \in [Session -> RunType]
      /\ \A t \in Session \ {s} : main'[t] = main[t]
      /\ main'[s].phase = p /\ Keeps(s)
  BY <1>1, GoStep DEF IInv
<1>4. d \in Pid /\ caches[d].of = s /\ s # 0
  BY <1>1, <1>2 DEF RunInv, Place, Owned, Session
<1>5. /\ caches' \in [Pid -> CacheType]
      /\ caches'[d] = c
      /\ \A q \in Pid \ {d} : caches'[q] = caches[q]
  BY <1>4 DEF IInv, Types
<1>6. /\ Types' /\ MainStep(s) /\ FileStep(s) /\ Rescuing(s)' /\ SingleBy(s)'
  BY <1>2, <1>3, <1>5, CacheSteps
<1>7. CacheStep(s)
  BY <1>4, <1>5 DEF CacheStep
<1>8. Empty'
  BY <1>4, <1>5 DEF IInv, Empty, NoCache
<1>9. s \notin captured
  BY <1>1 DEF RunInv, CapturedLate, Early
<1>10. Place(s)' /\ Stopped(s)' /\ CapturedLate(s)'
  BY <1>1, <1>2, <1>3, <1>9 DEF RunInv, Place, Stopped, CapturedLate, Naming,
       Encoding, Capturing, Rescue, Records
<1>11. CacheOwner(s)' /\ Owned(s)'
  BY <1>1, <1>2, <1>3, <1>4, <1>5 DEF RunInv, CacheOwner, Owned, Records, Rescue, Naming,
       Encoding, Capturing
<1>12. WritesOwn(s)' /\ Writer(s)' /\ Held(s)'
  BY <1>1, <1>2, <1>3 DEF RunInv, WritesOwn, Writer, Held, Named, Capturing, Records
<1>13. Aborted(s)' /\ Purged(s)' /\ EncodedFirst(s)' /\ Kept(s)'
  BY <1>1, <1>3, <1>9 DEF RunInv, Aborted, Purged, EncodedFirst, Kept, Ended, Keeps
<1>14. RunInv(s)'
  BY <1>6, <1>10, <1>11, <1>12, <1>13 DEF RunInv
<1> QED
  BY <1>6, <1>7, <1>8, <1>14, StepKept

LEMMA CreateKept ==
    ASSUME IInv, NEW s \in Session, Create(s)
    PROVE  IInv'
<1>1. UNCHANGED <<args, files, captured, raced, spoilt>> /\ faults' \in 0..MaxFaults
      /\ main[s].phase = "create"
  BY FaultStep DEF Create, IInv
<1>2. Records(s) /\ Live(s)
  BY <1>1, OnlyRecords
<1>3. caches[args[s].dir] \in CacheType /\ caches[args[s].dir].of = s
  BY <1>1, <1>2 DEF IInv, Types, RunInv, Place, Owned
<1>4. CASE caches' = [caches EXCEPT ![args[s].dir].images = TRUE] /\ Go(s, "specs")
  <2> DEFINE c == [caches[args[s].dir] EXCEPT !.images = TRUE]
  <2>1. c \in CacheType /\ c.of = s /\ c.images
    BY <1>3 DEF CacheType
  <2>2. caches' = [caches EXCEPT ![args[s].dir] = c]
    BY <1>4
  <2> HIDE DEF c
  <2> QED
    BY <1>1, <1>4, <2>1, <2>2, MakingKept
<1>5. CASE Exit(s, 1) /\ UNCHANGED caches
  BY <1>1, <1>2, <1>5, DeathKept DEF Exit
<1> QED
  BY <1>4, <1>5 DEF Create

LEMMA SpecsKept ==
    ASSUME IInv, NEW s \in Session, rmdWriteSpecsFile(s)
    PROVE  IInv'
<1>1. UNCHANGED <<args, files, captured, raced, spoilt>> /\ faults' \in 0..MaxFaults
      /\ main[s].phase \in {"specs", "close"}
  BY FaultStep DEF rmdWriteSpecsFile, IInv
<1>2. Records(s) /\ Live(s)
  BY <1>1, OnlyRecords
<1>3. caches[args[s].dir] \in CacheType /\ caches[args[s].dir].of = s
      /\ caches[args[s].dir].images
  BY <1>1, <1>2 DEF IInv, Types, RunInv, Place, Owned
<1>4. CASE caches' = [caches EXCEPT ![args[s].dir].specs = "partial"] /\ Go(s, "close")
  <2> DEFINE c == [caches[args[s].dir] EXCEPT !.specs = "partial"]
  <2>1. c \in CacheType /\ c.of = s /\ c.images
    BY <1>3 DEF CacheType
  <2>2. caches' = [caches EXCEPT ![args[s].dir] = c]
    BY <1>4
  <2> HIDE DEF c
  <2> QED
    BY <1>1, <1>4, <2>1, <2>2, MakingKept
<1>5. CASE caches' = [caches EXCEPT ![args[s].dir].specs = "complete"] /\ Go(s, "threads")
  <2> DEFINE c == [caches[args[s].dir] EXCEPT !.specs = "complete"]
  <2>1. c \in CacheType /\ c.of = s /\ c.images /\ c.specs = "complete"
    BY <1>3 DEF CacheType
  <2>2. caches' = [caches EXCEPT ![args[s].dir] = c]
    BY <1>5
  <2> HIDE DEF c
  <2> QED
    BY <1>1, <1>5, <2>1, <2>2, MakingKept
<1>6. CASE Exit(s, 1) /\ UNCHANGED caches
  BY <1>1, <1>2, <1>6, DeathKept DEF Exit
<1> QED
  BY <1>4, <1>5, <1>6 DEF rmdWriteSpecsFile

(* What is purged was discarded, or its file was complete.                 *)
LEMMA PurgeKept ==
    ASSUME IInv, NEW s \in Session, rmdPurgeCache(s)
    PROVE  IInv'
<1> DEFINE d == args[s].dir
<1>1. RunInv(s) /\ main[s].phase \in {"purge", "drop"}
  BY DEF IInv, rmdPurgeCache
<1>2. Records(s) /\ Live(s) /\ ~Gone(s) /\ main[s].phase # "new"
  BY <1>1, OnlyRecords
<1>3. UNCHANGED <<args, files, captured, raced, spoilt>> /\ faults' \in 0..MaxFaults
  BY DEF rmdPurgeCache, IInv, Types
<1>4. d \in Pid /\ caches[d].of = s /\ caches[d] \in CacheType /\ s # 0 /\ Recording(s) = s
  BY <1>1, <1>2 DEF RunInv, Place, Owned, Session, IInv, Types, Records, Recording
<1>5. s \in captured => Discarded(s) \/ Encoded(s)
  BY <1>1, <1>2, <1>4 DEF RunInv, CapturedLate, EncodedFirst, Place, Early, Encoding, Records
<1>6. ASSUME main' \in [Session -> RunType], \A t \in Session \ {s} : main'[t] = main[t],
             Keeps(s), caches' \in [Pid -> CacheType],
             caches'[d].of \in {0, s}, caches'[d].of = 0 => caches'[d] = NoCache,
             \A q \in Pid \ {d} : caches'[q] = caches[q],
             (main'[s] = main[s] /\ caches'[d].of = s)
             \/ /\ caches'[d] = NoCache
                /\ \/ main[s].phase = "purge" /\ main'[s].phase = "tail"
                      /\ main'[s].number = main[s].number
                   \/ main[s].phase = "drop" /\ main'[s].phase = "exited"
                      /\ main'[s].status = 1
      PROVE  IInv'
  <2>1. /\ Types' /\ MainStep(s) /\ FileStep(s) /\ Rescuing(s)' /\ SingleBy(s)'
        /\ \A r : Encoded(r) => Encoded(r)'
        /\ Recording(s)' = s
    BY <1>2, <1>3, <1>6, CacheSteps
  <2>2. CacheStep(s)
    BY <1>4, <1>6 DEF CacheStep
  <2>3. Empty'
    BY <1>6 DEF IInv, Empty
  <2>4. \A q \in Pid : caches'[q].of = s => caches[q].of = s /\ main'[s] = main[s] /\ q = d
    BY <1>1, <1>4, <1>6 DEF RunInv, CacheOwner, NoCache
  <2>5. main'[s].phase \in {"purge", "drop", "tail", "exited"}
        /\ (main'[s].phase = "drop" => main[s].phase = "drop")
        /\ (main'[s].phase = "exited" => main[s].phase = "drop" /\ main'[s].status = 1)
        /\ (main'[s].phase \in {"purge", "tail"} => main[s].phase = "purge")
        /\ (main'[s].phase \in {"purge", "drop"} => caches'[d].of = s)
        /\ (main'[s].phase # "exited" => main'[s].number = main[s].number)
        /\ (main'[s].phase \in {"tail", "exited"} => caches'[d] = NoCache)
    BY <1>1, <1>6
  <2>6. Discarded(s)' <=> Discarded(s)
    BY <1>6 DEF Discarded, Keeps
  <2>7. Place(s)' /\ Stopped(s)' /\ CapturedLate(s)'
    BY <1>1, <1>2, <1>3, <2>5 DEF RunInv, Place, Stopped, CapturedLate, Naming,
         Encoding, Capturing, Early, Rescue, Records
  <2>8. CacheOwner(s)'
    BY <1>1, <1>2, <1>3, <2>4 DEF RunInv, CacheOwner, Records, Rescue
  <2>9. Owned(s)'
    BY <1>3, <2>5 DEF Owned, Capturing, Encoding, Naming
  <2>10. WritesOwn(s)' /\ Writer(s)' /\ Held(s)'
    BY <1>1, <1>2, <1>3, <2>5 DEF RunInv, WritesOwn, Writer, Held, Named, Capturing, Records,
         Gone, Output
  <2>11. Aborted(s)'
    BY <1>1, <1>2, <1>3, <1>6, <2>5 DEF RunInv, Aborted, Ended, Keeps, Records, Rescue
  <2>12. Purged(s)'
    BY <2>4, <1>1, <2>5 DEF Purged, Ended
  <2>13. EncodedFirst(s)'
    BY <1>1, <1>3, <1>4, <2>1, <2>5, <2>6 DEF RunInv, EncodedFirst, Ended
  <2>14. Kept(s)'
    BY <1>3, <1>5, <2>1, <2>6 DEF Kept
  <2>15. RunInv(s)'
    BY <2>1, <2>7, <2>8, <2>9, <2>10, <2>11, <2>12, <2>13, <2>14 DEF RunInv
  <2> QED
    BY <2>1, <2>2, <2>3, <2>15, StepKept
<1>7. CASE caches' = [caches EXCEPT ![d].images = FALSE] /\ UNCHANGED main
  <2>1. /\ caches' \in [Pid -> CacheType] /\ caches'[d].of = s
        /\ \A q \in Pid \ {d} : caches'[q] = caches[q]
    BY <1>4, <1>7 DEF IInv, Types, CacheType
  <2> QED
    BY <1>4, <1>6, <1>7, <2>1 DEF IInv, Types, Keeps
<1>8. CASE caches' = [caches EXCEPT ![d].specs = "none"] /\ UNCHANGED main
  <2>1. /\ caches' \in [Pid -> CacheType] /\ caches'[d].of = s
        /\ \A q \in Pid \ {d} : caches'[q] = caches[q]
    BY <1>4, <1>8 DEF IInv, Types, CacheType
  <2> QED
    BY <1>4, <1>6, <1>8, <2>1 DEF IInv, Types, Keeps
<1>9. CASE /\ caches' = [caches EXCEPT ![d] = NoCache]
           /\ IF main[s].phase = "drop" THEN Exit(s, 1) ELSE Go(s, "tail")
  <2>1. NoCache \in CacheType /\ NoCache.of = 0 /\ "tail" \in Phase
    BY SessionAssumption DEF NoCache, CacheType, Phase
  <2>2. /\ caches' \in [Pid -> CacheType] /\ caches'[d] = NoCache
        /\ \A q \in Pid \ {d} : caches'[q] = caches[q]
    BY <1>4, <1>9, <2>1 DEF IInv, Types
  <2>3. CASE main[s].phase = "drop"
    <3>1. /\ main' \in [Session -> RunType]
          /\ \A t \in Session \ {s} : main'[t] = main[t]
          /\ main'[s].phase = "exited" /\ main'[s].status = 1 /\ Keeps(s)
      BY <1>9, <2>3, EndStep DEF IInv, Exit
    <3> QED
      BY <1>6, <2>1, <2>2, <2>3, <3>1
  <2>4. CASE main[s].phase = "purge"
    <3>1. /\ main' \in [Session -> RunType]
          /\ \A t \in Session \ {s} : main'[t] = main[t]
          /\ main'[s].phase = "tail" /\ main'[s].number = main[s].number /\ Keeps(s)
      BY <1>9, <2>1, <2>4, GoStep DEF IInv
    <3> QED
      BY <1>6, <2>1, <2>2, <2>4, <3>1
  <2> QED
    BY <1>1, <2>3, <2>4
<1> QED
  BY <1>7, <1>8, <1>9 DEF rmdPurgeCache
-----------------------------------------------------------------------------
(* A step of a run on its file leaves the caches alone.                    *)
LEMMA FileSteps ==
    ASSUME IInv, NEW s \in Session, ~Gone(s), main[s].phase # "new", FileStep(s),
           faults' \in 0..MaxFaults, files' \in [File -> FileType],
           raced' \subseteq Session, spoilt' \subseteq Session,
           captured' \in {captured, captured \union {s}}, UNCHANGED <<args, caches>>,
           main' \in [Session -> RunType], \A t \in Session \ {s} : main'[t] = main[t]
    PROVE  /\ Types' /\ Empty' /\ MainStep(s) /\ CacheStep(s) /\ Rescuing(s)'
           /\ Recording(s)' = Recording(s) /\ Recording(s) \in Session
           /\ \A r \in Session : Encoded(r) => Encoded(r)'
<1>1. Types' /\ Empty' /\ MainStep(s) /\ CacheStep(s)
  BY DEF IInv, Types, Empty, MainStep, CacheStep
<1>2. Recording(s)' = Recording(s) /\ Recording(s) \in Session
  BY RecordingIn DEF IInv, Recording, Rescue
<1>3. Rescuing(s)'
  <2> SUFFICES ASSUME Rescue(s) PROVE Gone(Recording(s))'
    BY <1>2 DEF Rescuing, Rescue
  <2>1. Gone(Recording(s)) /\ Recording(s) # s
    BY DEF IInv, RunInv, Rescuing
  <2> QED
    BY <1>2, <2>1 DEF Gone
<1>4. \A r \in Session : Encoded(r) => Encoded(r)'
  BY EncodedStays
<1> QED
  BY <1>1, <1>2, <1>3, <1>4

(* fopen() spoils what others have under the name; the file holds then     *)
(* the recording of the only one that has it open, or that is spoilt.      *)
LEMMA OpenKept ==
    ASSUME IInv, NEW s \in Session, rmdInitEncoder(s)
    PROVE  IInv'
<1> DEFINE f == Output(s)
<1>1. RunInv(s) /\ Live(s) /\ ~Gone(s) /\ main[s].phase = "open" /\ main[s].phase # "new"
  BY DEF IInv, rmdInitEncoder, Live, Gone
<1>2. UNCHANGED <<args, caches, captured>> /\ faults' \in 0..MaxFaults
  BY FaultStep DEF rmdInitEncoder, IInv
<1>3. CASE /\ files' = [files EXCEPT ![f] = [by |-> {s} \union {t \in @.by : Live(t)},
                                             of |-> Recording(s), content |-> "partial"]]
           /\ spoilt' = spoilt \union Spoilt(s, f)
           /\ raced' = raced \union {t \in Session \ {s} : Named(t) /\ Output(t) = f}
           /\ Go(s, "headers")
  <2>1. "headers" \in Phase /\ f \in File /\ Recording(s) \in Session
    BY <1>1, OutputFile, RecordingIn DEF Phase, IInv
  <2>2. /\ main' \in [Session -> RunType]
        /\ \A t \in Session \ {s} : main'[t] = main[t]
        /\ main'[s].phase = "headers" /\ Keeps(s) /\ main'[s].number = main[s].number
        /\ main'[s].running = main[s].running
    BY <1>3, <2>1, GoStep DEF IInv
  <2> DEFINE new == [by |-> {s} \union {t \in files[f].by : Live(t)},
                     of |-> Recording(s), content |-> "partial"]
  <2>3. /\ files' = [files EXCEPT ![f] = new]
        /\ new.of = Recording(s) /\ s \in new.by /\ new.by \subseteq files[f].by \union {s}
        /\ \A t \in new.by : t = s \/ Live(t)
        /\ \A t \in files[f].by : Live(t) => t \in new.by
    BY <1>3
  <2>4. new \in FileType
    BY <2>1 DEF IInv, Types, FileType, Session
  <2> HIDE DEF new
  <2>5. /\ files' \in [File -> FileType]
        /\ files'[f] = new
        /\ \A g \in File \ {f} : files'[g] = files[g]
    BY <2>1, <2>3, <2>4 DEF IInv, Types
  <2>6. Spoilt(s, f) \subseteq spoilt' /\ spoilt \subseteq spoilt' /\ raced \subseteq raced'
        /\ raced' \subseteq Session /\ spoilt' \subseteq Session
        /\ \A t \in Session \ {s} : Named(t) /\ Output(t) = f => t \in raced'
    BY <1>3, <2>1, SpoiltStep DEF IInv, Types
  <2>7. FileStep(s)
    <3>1. \A g \in File : files[g].content = "complete" /\ files[g].of # 0 =>
            (files'[g].of = files[g].of /\ files'[g].content = "complete") \/ files[g].of \in spoilt'
      BY <2>1, <2>5, <2>6, SpoiltStep
    <3>2. \A g \in File, t \in Session \ {s} :
            files[g].by = {t} /\ ~Gone(t) => files'[g].by = {t} \/ files[g].of \in spoilt'
      BY <2>1, <2>5, <2>6, SpoiltStep
    <3>3. \A g \in File : files'[g].by \subseteq files[g].by \union {s}
      BY <2>3, <2>5
    <3>4. \A g \in File, t \in Session \ {s} :
            files'[g].by = {t} => files'[g].of = files[g].of /\ files[g].by = {t}
      BY <2>3, <2>5
    <3>5. \A g \in File, t \in Session \ {s} :
            Named(t) /\ Output(t) = g /\ files'[g] # NoFile /\ t \notin raced' =>
               files[g] # NoFile /\ (t \in files[g].by => t \in files'[g].by)
      BY <2>5, <2>6
    <3> QED
      BY <2>6, <3>1, <3>2, <3>3, <3>4, <3>5 DEF FileStep
  <2>8. /\ Types' /\ Empty' /\ MainStep(s) /\ CacheStep(s) /\ Rescuing(s)'
        /\ Recording(s)' = Recording(s)
        /\ \A r \in Session : Encoded(r) => Encoded(r)'
    BY <1>1, <1>2, <2>2, <2>5, <2>6, <2>7, FileSteps
  <2>9. \A g \in File : s \notin files[g].by
    BY <1>1 DEF RunInv, WritesOwn, Capturing
  <2>10. Place(s)' /\ Stopped(s)' /\ CapturedLate(s)' /\ CacheOwner(s)' /\ Owned(s)'
    BY <1>1, <1>2, <2>2 DEF RunInv, Place, Stopped, CapturedLate, CacheOwner, Owned, Naming,
         Encoding, Capturing, Early, Rescue, Records, Keeps
  <2>11. SingleBy(s)'
    BY <2>3, <2>5, <2>8, <2>9 DEF SingleBy
  <2>12. WritesOwn(s)'
    BY <2>2, <2>5, <2>9 DEF WritesOwn, Output
  <2>13. Writer(s)'
    <3>1. CASE \E t \in files[f].by : Live(t)
      <4>1. PICK t \in files[f].by : Live(t)
        BY <3>1
      <4>2. t \in Session \ {s} /\ ~Gone(t)
        BY <2>1, <2>9, <4>1 DEF IInv, Types, FileType, Live
      <4>3. Recording(s) \in Spoilt(s, f)
        BY <2>1, <4>1, <4>2, SpoiltStep
      <4> QED
        BY <2>6, <2>8, <4>3 DEF Writer
    <3>2. CASE ~\E t \in files[f].by : Live(t)
      <4>1. new.by = {s}
        BY <2>3, <2>9, <2>1, <3>2
      <4> QED
        BY <2>2, <2>5, <4>1 DEF Writer, Output
    <3> QED
      BY <3>1, <3>2
  <2>14. Held(s)'
    BY <2>2, <2>3, <2>5 DEF Held, Output
  <2>15. Aborted(s)' /\ Purged(s)' /\ EncodedFirst(s)'
    BY <1>1, <1>2, <2>2 DEF RunInv, Aborted, Purged, EncodedFirst, Ended, Keeps, Rescue
  <2>16. Kept(s)'
    BY <1>1, <1>2, <2>2, <2>8 DEF RunInv, Kept, Cached, Discarded, Keeps
  <2>17. RunInv(s)'
    BY <2>8, <2>10, <2>11, <2>12, <2>13, <2>14, <2>15, <2>16 DEF RunInv
  <2> QED
    BY <2>7, <2>8, <2>17, StepKept
<1>4. CASE Exit(s, 1) /\ UNCHANGED <<files, spoilt, raced>>
  BY <1>1, <1>2, <1>4, DeathKept DEF Exit
<1> QED
  BY <1>3, <1>4 DEF rmdInitEncoder

(* A run ends with a file that another does not hold against it.           *)
LEMMA LastStep ==
    ASSUME IInv, NEW s \in Session, ~Gone(s), main[s].phase # "new", FileStep(s),
           faults' \in 0..MaxFaults, files' \in [File -> FileType],
           raced' \subseteq Session, spoilt' \subseteq Session,
           UNCHANGED <<args, caches, captured>>,
           main' \in [Session -> RunType], \A t \in Session \ {s} : main'[t] = main[t],
           main'[s].phase = "exited", Keeps(s), SingleBy(s)',
           Aborted(s)', Purged(s)', EncodedFirst(s)'
    PROVE  IInv'
<1>1. RunInv(s)
  BY DEF IInv
<1>2. /\ Types' /\ Empty' /\ MainStep(s) /\ CacheStep(s) /\ Rescuing(s)'
      /\ \A r \in Session : Encoded(r) => Encoded(r)'
  BY FileSteps
<1>3. Place(s)' /\ Stopped(s)' /\ CapturedLate(s)' /\ CacheOwner(s)' /\ Owned(s)'
  BY <1>1 DEF RunInv, Place, Stopped, CapturedLate, CacheOwner, Owned, Early, Naming,
       Encoding, Capturing, Rescue, Records
<1>4. WritesOwn(s)' /\ Writer(s)' /\ Held(s)'
  BY DEF WritesOwn, Writer, Held, Gone, Named
<1>5. Kept(s)'
  BY <1>1, <1>2 DEF RunInv, Kept, Cached, Discarded, Keeps
<1>6. RunInv(s)'
  BY <1>2, <1>3, <1>4, <1>5 DEF RunInv
<1> QED
  BY <1>2, <1>6, StepKept

(* The first picture: the recording has its cache by then, or it has a     *)
(* file of its own and is encoded on the fly.                              *)
LEMMA FirstFrameKept ==
    ASSUME IInv, NEW s \in Session, rmdFirstFrame(s)
    PROVE  IInv'
<1>1. RunInv(s) /\ ~Gone(s) /\ main[s].phase \in {"threads", "capture"} /\ main[s].phase # "new"
  BY DEF IInv, rmdFirstFrame, Gone
<1>2. UNCHANGED <<args, caches, raced>> /\ faults' \in 0..MaxFaults /\ s \notin captured
  BY FaultStep DEF rmdFirstFrame, IInv
<1>3. ~Rescue(s)
  BY <1>1 DEF RunInv, Place, Encoding, Naming
<1>4. CASE captured' = captured \union {s} /\ UNCHANGED <<main, files, spoilt>>
  <2>1. FileStep(s)
    BY <1>2, <1>4, SameFiles
  <2>2. /\ Types' /\ Empty' /\ MainStep(s) /\ CacheStep(s) /\ Rescuing(s)'
        /\ Recording(s)' = Recording(s)
    BY <1>1, <1>2, <1>4, <2>1, FileSteps DEF IInv, Types
  <2>3. Place(s)' /\ Stopped(s)' /\ CapturedLate(s)' /\ CacheOwner(s)' /\ Owned(s)'
    BY <1>1, <1>2, <1>4 DEF RunInv, Place, Stopped, CapturedLate, CacheOwner, Owned, Early,
         Rescue, Records
  <2>4. SingleBy(s)' /\ WritesOwn(s)' /\ Writer(s)' /\ Held(s)'
    BY <1>1, <1>2, <1>4, <2>2 DEF RunInv, SingleBy, WritesOwn, Writer, Held, Named, Output, Gone
  <2>5. Aborted(s)' /\ Purged(s)' /\ EncodedFirst(s)'
    BY <1>1, <1>2, <1>4 DEF RunInv, Aborted, Purged, EncodedFirst, Ended, Rescue
  <2>6. Kept(s)'
    <3>1. ~args[s].encOnTheFly => Cached(s)
      BY <1>1, <1>3 DEF RunInv, Place, Owned, Records, Cached, Capturing
    <3> QED
      BY <1>2, <1>4, <3>1 DEF Kept, Cached
  <2>7. RunInv(s)'
    BY <2>2, <2>3, <2>4, <2>5, <2>6 DEF RunInv
  <2> QED
    BY <2>1, <2>2, <2>7, StepKept
<1>5. CASE args[s].encOnTheFly /\ Remove(s, Output(s)) /\ Exit(s, 1) /\ UNCHANGED captured
  <2>1. FileStep(s) /\ files' \in [File -> FileType] /\ spoilt' \subseteq Session
    BY <1>2, <1>5, RemovedFile, OutputFile DEF IInv
  <2>2. /\ main' \in [Session -> RunType]
        /\ \A t \in Session \ {s} : main'[t] = main[t]
        /\ main'[s].phase = "exited" /\ main'[s].status = 1 /\ Keeps(s)
    BY <1>5, EndStep DEF IInv, Exit
  <2>3. SingleBy(s)'
    BY <1>1, <1>2, <1>5, OutputFile DEF RunInv, SingleBy, Recording, Rescue, Remove, NoFile,
       IInv, Types
  <2>4. Aborted(s)' /\ Purged(s)' /\ EncodedFirst(s)'
    BY <1>1, <1>2, <1>3, <1>5, <2>2 DEF RunInv, Aborted, Purged, EncodedFirst, Ended, Keeps, Rescue
  <2> QED
    BY <1>1, <1>2, <1>5, <2>1, <2>2, <2>3, <2>4, LastStep DEF IInv, Types
<1>6. CASE ~args[s].encOnTheFly /\ Go(s, "drop") /\ UNCHANGED <<captured, files, spoilt>>
  <2>1. "drop" \in Phase \ {"new", "setup", "mkdir"} /\ Live(s)
    BY <1>1 DEF Phase, Live
  <2>2. main'[s].phase = "drop" /\ Keeps(s)
    BY <1>6, <2>1, GoStep DEF IInv
  <2>3. Place(s)' /\ Stopped(s)' /\ CapturedLate(s)' /\ Owned(s)'
    BY <1>1, <1>2, <1>3, <1>6, <2>2 DEF RunInv, Place, Stopped, CapturedLate, Owned, Naming,
         Encoding, Capturing, Early, Rescue, Records
  <2>4. \A f \in File : s \notin files[f].by
    BY <1>1, <1>6 DEF RunInv, WritesOwn
  <2>5. WritesOwn(s)' /\ Writer(s)' /\ Held(s)'
    BY <1>2, <1>6, <2>2, <2>4 DEF WritesOwn, Writer, Held, Named
  <2>6. Aborted(s)' /\ Purged(s)' /\ EncodedFirst(s)'
    BY <1>2, <1>3, <1>6, <2>2, <2>4 DEF Aborted, Purged, EncodedFirst, Ended, Rescue
  <2> QED
    BY <1>2, <1>6, <2>1, <2>3, <2>5, <2>6, LineKept
<1> QED
  BY <1>4, <1>5, <1>6 DEF rmdFirstFrame

(* Completing the file changes nothing of who writes what.                 *)
LEMMA CompleteFacts ==
    ASSUME IInv, NEW s \in Session, Completed(s), UNCHANGED <<args, caches, raced, spoilt>>
    PROVE  /\ FileStep(s) /\ files' \in [File -> FileType]
           /\ \A f \in File : files'[f].by = files[f].by /\ files'[f].of = files[f].of
           /\ Recording(s)' = Recording(s)
           /\ SingleBy(s)'
           /\ files[Output(s)].by = {s} => Complete(Recording(s))'
<1>1. FileStep(s) /\ files' \in [File -> FileType]
  BY CompletedFile
<1>2. \A f \in File : files'[f].by = files[f].by /\ files'[f].of = files[f].of
  BY DEF Completed, IInv, Types, FileType
<1>3. Recording(s)' = Recording(s)
  BY DEF Recording, Rescue
<1>4. SingleBy(s)'
  BY <1>2, <1>3 DEF IInv, RunInv, SingleBy
<1>5. ASSUME files[Output(s)].by = {s} PROVE Complete(Recording(s))'
  <2>1. Output(s) \in File /\ files[Output(s)] \in FileType
        /\ files[Output(s)].of = Recording(s)
    BY <1>5, OutputFile DEF IInv, Types, RunInv, SingleBy
  <2>2. files'[Output(s)].content = "complete"
    BY <1>5, <2>1 DEF Completed, FileType
  <2> QED
    BY <1>2, <1>3, <2>1, <2>2 DEF Complete
<1> QED
  BY <1>1, <1>2, <1>3, <1>4, <1>5

LEMMA FlushKept ==
    ASSUME IInv, NEW s \in Session, rmdFlushToOgg(s)
    PROVE  IInv'
<1>1. RunInv(s) /\ ~Gone(s) /\ main[s].phase \in {"capture", "captured", "tail"}
      /\ main[s].phase # "new" /\ args[s].encOnTheFly /\ ~Rescue(s)
  BY DEF IInv, rmdFlushToOgg, Gone, RunInv, Place
<1>2. UNCHANGED <<args, caches, captured, raced, spoilt>> /\ faults' \in 0..MaxFaults
      /\ Completed(s) /\ main' = [main EXCEPT ![s].written = TRUE]
  BY DEF rmdFlushToOgg, IInv, Types
<1>3. main \in [Session -> RunType]
  BY DEF IInv, Types
<1>4. /\ main' \in [Session -> RunType]
      /\ \A t \in Session \ {s} : main'[t] = main[t]
      /\ main'[s].phase = main[s].phase /\ main'[s].number = main[s].number /\ Keeps(s)
      /\ main'[s].status = main[s].status
  BY <1>2, <1>3 DEF RunType, Keeps
<1>5. /\ FileStep(s) /\ files' \in [File -> FileType] /\ SingleBy(s)'
      /\ \A f \in File : files'[f].by = files[f].by
  BY <1>2, CompleteFacts
<1>6. /\ Types' /\ Empty' /\ MainStep(s) /\ CacheStep(s) /\ Rescuing(s)'
      /\ \A r \in Session : Encoded(r) => Encoded(r)'
  BY <1>1, <1>2, <1>4, <1>5, FileSteps DEF IInv, Types
<1>7. Place(s)' /\ Stopped(s)' /\ CapturedLate(s)' /\ CacheOwner(s)' /\ Owned(s)'
  BY <1>1, <1>2, <1>4 DEF RunInv, Place, Stopped, CapturedLate, CacheOwner, Owned, Rescue, Records
<1>8. WritesOwn(s)' /\ Writer(s)'
  BY <1>1, <1>2, <1>4, <1>5 DEF RunInv, WritesOwn, Writer, Gone, Output
<1>9. Held(s)'
  <2>1. \A f \in File : files[f].by = {s} => s \in files'[f].by
    BY <1>5
  <2>2. \A f \in File : files[f].by # {s} => files'[f] = files[f]
    BY <1>2 DEF Completed
  <2>3. Output(s)' = Output(s) /\ Output(s) \in File /\ Named(s)
    BY <1>1, <1>4, OutputFile DEF Output, Named, IInv
  <2> QED
    BY <1>1, <1>2, <2>1, <2>2, <2>3 DEF RunInv, Held
<1>10. Aborted(s)'
  BY <1>1, <1>2, <1>4, <1>5 DEF RunInv, Aborted, Keeps, Ended, Rescue
<1>11. Purged(s)' /\ EncodedFirst(s)'
  BY <1>1, <1>2 DEF Purged, EncodedFirst, Records
<1>12. Kept(s)'
  BY <1>1, <1>2 DEF Kept
<1>13. RunInv(s)'
  BY <1>5, <1>6, <1>7, <1>8, <1>9, <1>10, <1>11, <1>12 DEF RunInv
<1> QED
  BY <1>5, <1>6, <1>13, StepKept

(* The encoding ends by a signal, which has cancelled it, or with the      *)
(* complete file.                                                          *)
LEMMA EncodeEndsKept ==
    ASSUME IInv, NEW s \in Session, EncodeEnds(s)
    PROVE  IInv'
<1>1. RunInv(s) /\ ~Gone(s) /\ Live(s) /\ main[s].phase = "flush" /\ main[s].phase # "new"
      /\ ~main[s].running
  BY DEF IInv, EncodeEnds, Gone, Live
<1>2. UNCHANGED <<args, caches, captured, raced, spoilt>> /\ faults' \in 0..MaxFaults
  BY DEF EncodeEnds, IInv, Types
<1>3. ~args[s].encOnTheFly /\ ~args[s].no_encode /\ main[s].aborted # "recording"
  BY <1>1 DEF RunInv, Place, Aborted, Encoding, Capturing
<1>4. /\ FileStep(s) /\ files' \in [File -> FileType] /\ SingleBy(s)'
      /\ \A f \in File : files'[f].by = files[f].by
      /\ Recording(s)' = Recording(s)
      /\ main[s].written /\ files[Output(s)].by = {s} => Complete(Recording(s))'
  <2>1. CASE main[s].written
    BY <1>2, <2>1, CompleteFacts DEF EncodeEnds
  <2>2. CASE ~main[s].written
    <3>1. UNCHANGED files
      BY <2>2 DEF EncodeEnds
    <3>2. Recording(s)' = Recording(s)
      BY <1>2 DEF Recording, Rescue
    <3> QED
      BY <1>1, <1>2, <2>2, <3>1, <3>2, SameFiles DEF IInv, Types, RunInv, SingleBy
  <2> QED
    BY <2>1, <2>2
<1>5. Discarded(s) \/ Encoded(Recording(s))'
  <2>1. main[s].written \/ main[s].cancelled
    BY <1>1, <1>3 DEF RunInv, Stopped
  <2>2. files[Output(s)].by = {s} \/ Recording(s) \in spoilt
    BY <1>1 DEF RunInv, Writer
  <2> QED
    BY <1>2, <1>4, <2>1, <2>2 DEF Discarded, Encoded
<1>6. CASE Rescue(s) /\ Exit(s, 0)
  <2>1. /\ main' \in [Session -> RunType]
        /\ \A t \in Session \ {s} : main'[t] = main[t]
        /\ main'[s].phase = "exited" /\ Keeps(s)
    BY <1>6, EndStep DEF IInv, Exit
  <2>2. Aborted(s)' /\ Purged(s)'
    BY <1>2, <1>3, <1>6, <2>1 DEF Aborted, Purged, Keeps, Records, Rescue
  <2>3. EncodedFirst(s)'
    BY <1>4, <1>5, <2>1 DEF EncodedFirst, Discarded, Keeps
  <2> QED
    BY <1>1, <1>2, <1>4, <2>1, <2>2, <2>3, LastStep DEF IInv, Types
<1>7. CASE ~Rescue(s) /\ Go(s, "purge")
  <2>1. "purge" \in Phase
    BY DEF Phase
  <2>2. /\ main' \in [Session -> RunType]
        /\ \A t \in Session \ {s} : main'[t] = main[t]
        /\ main'[s].phase = "purge" /\ Keeps(s) /\ main'[s].number = main[s].number
    BY <1>7, <2>1, GoStep DEF IInv
  <2>3. /\ Types' /\ Empty' /\ MainStep(s) /\ CacheStep(s) /\ Rescuing(s)'
        /\ \A r \in Session : Encoded(r) => Encoded(r)'
    BY <1>1, <1>2, <1>4, <2>2, FileSteps DEF IInv, Types
  <2>4. Place(s)' /\ Stopped(s)' /\ CapturedLate(s)' /\ CacheOwner(s)' /\ Owned(s)'
    BY <1>1, <1>2, <1>3, <1>7, <2>2 DEF RunInv, Place, Stopped, CapturedLate, CacheOwner, Owned,
         Rescue, Records, Naming, Encoding, Capturing, Early
  <2>5. WritesOwn(s)' /\ Writer(s)' /\ Held(s)'
    BY <1>1, <1>2, <1>3, <1>4, <2>2 DEF RunInv, WritesOwn, Writer, Held, Named, Gone, Output
  <2>6. Aborted(s)' /\ Purged(s)'
    BY <1>3, <2>2 DEF Aborted, Purged, Ended, Keeps
  <2>7. EncodedFirst(s)'
    BY <1>4, <1>5, <2>2 DEF EncodedFirst, Discarded, Keeps
  <2>8. Kept(s)'
    BY <1>1, <1>2, <2>2, <2>3 DEF RunInv, Kept, Cached, Discarded, Keeps
  <2>9. RunInv(s)'
    BY <1>4, <2>3, <2>4, <2>5, <2>6, <2>7, <2>8 DEF RunInv
  <2> QED
    BY <1>4, <2>3, <2>9, StepKept
<1> QED
  BY <1>6, <1>7 DEF EncodeEnds

LEMMA TailKept ==
    ASSUME IInv, NEW s \in Session, Tail(s)
    PROVE  IInv'
<1>1. RunInv(s) /\ ~Gone(s) /\ main[s].phase = "tail" /\ main[s].phase # "new" /\ ~Rescue(s)
  BY DEF IInv, Tail, Gone, RunInv, Place, Encoding, Naming
<1>2. UNCHANGED <<args, caches, captured, raced>> /\ faults' \in 0..MaxFaults
  BY DEF Tail, IInv, Types
<1>3. CASE args[s].encOnTheFly /\ Remove(s, Output(s)) /\ Exit(s, 0)
  <2>1. FileStep(s) /\ files' \in [File -> FileType] /\ spoilt' \subseteq Session
        /\ Output(s) \in File
    BY <1>2, <1>3, RemovedFile, OutputFile DEF IInv
  <2>2. /\ main' \in [Session -> RunType]
        /\ \A t \in Session \ {s} : main'[t] = main[t]
        /\ main'[s].phase = "exited" /\ Keeps(s)
    BY <1>3, EndStep DEF IInv, Exit
  <2>3. \A f \in File : files'[f] = IF f = Output(s) THEN NoFile ELSE files[f]
    BY <1>3 DEF Remove, IInv, Types
  <2>4. \A f \in File : s \notin files'[f].by
    BY <1>1, <2>1, <2>3 DEF RunInv, WritesOwn, NoFile
  <2>5. SingleBy(s)'
    BY <2>4 DEF SingleBy
  <2>6. Aborted(s)' /\ Purged(s)' /\ EncodedFirst(s)'
    BY <1>1, <1>2, <1>3, <2>2, <2>4 DEF Aborted, Purged, EncodedFirst, Records, Rescue
  <2> QED
    BY <1>1, <1>2, <2>1, <2>2, <2>5, <2>6, LastStep DEF IInv, Types
<1>4. CASE args[s].encOnTheFly /\ Exit(s, 1) /\ UNCHANGED <<files, spoilt>>
  <2>1. Live(s)
    BY <1>1 DEF Live
  <2> QED
    BY <1>2, <1>4, <2>1, DeathKept DEF Exit
<1>5. CASE /\ main[s].aborted = "no" \/ ~args[s].encOnTheFly
           /\ Exit(s, 0) /\ UNCHANGED <<files, spoilt>>
  <2>1. FileStep(s)
    BY <1>2, <1>5, SameFiles
  <2>2. /\ main' \in [Session -> RunType]
        /\ \A t \in Session \ {s} : main'[t] = main[t]
        /\ main'[s].phase = "exited" /\ Keeps(s)
    BY <1>5, EndStep DEF IInv, Exit
  <2>3. Recording(s)' = Recording(s)
    BY <1>2 DEF Recording, Rescue
  <2>4. SingleBy(s)'
    BY <1>1, <1>5, <2>3 DEF RunInv, SingleBy
  <2>5. Aborted(s)' /\ Purged(s)'
    BY <1>1, <1>2, <1>5, <2>2 DEF RunInv, Aborted, Purged, Keeps, Rescue, Records
  <2>6. EncodedFirst(s)'
    BY <1>1, <1>2, <1>5, <2>2, <2>3 DEF RunInv, EncodedFirst, Encoded, Complete, Discarded, Keeps
  <2> QED
    BY <1>1, <1>2, <1>5, <2>1, <2>2, <2>4, <2>5, <2>6, LastStep DEF IInv, Types
<1> QED
  BY <1>3, <1>4, <1>5 DEF Tail
-----------------------------------------------------------------------------
LEMMA InitInv ==
    ASSUME Init
    PROVE  IInv
<1>1. NewRun \in RunType /\ NoArgs \in ArgsType /\ NoCache \in CacheType /\ NoFile \in FileType
      /\ [NoFile EXCEPT !.content = "complete"] \in FileType
  <2>1. 0 \in File /\ "new" \in Phase /\ 0 \in 0..Runs
    BY SessionAssumption DEF File, Phase
  <2> QED
    BY <2>1 DEF NewRun, RunType, NoArgs, ArgsType, NoCache, CacheType, NoFile, FileType
<1>2. Types
  BY <1>1, SessionAssumption DEF Init, Types
<1>3. Empty
  BY DEF Init, Empty
<1>4. ASSUME NEW s \in Session PROVE RunInv(s)
  <2>1. main[s].phase = "new" /\ main[s].aborted = "no" /\ args[s] = NoArgs /\ s \notin captured
        /\ main[s].number = 0
    BY DEF Init, NewRun
  <2>2. \A f \in File : files[f].by = {}
    BY DEF Init, NoFile
  <2>3. \A p \in Pid : caches[p].of # s
    BY DEF Init, NoCache, Session
  <2>4. Place(s) /\ Stopped(s) /\ CapturedLate(s) /\ CacheOwner(s) /\ Owned(s) /\ Rescuing(s)
    BY <2>1, <2>3 DEF Place, Stopped, CapturedLate, CacheOwner, Owned, Rescuing, NoArgs, Rescue,
         Records, Naming, Encoding, Capturing
  <2>5. SingleBy(s) /\ WritesOwn(s) /\ Writer(s) /\ Held(s)
    BY <2>1, <2>2 DEF SingleBy, WritesOwn, Writer, Held, Named
  <2>6. Aborted(s) /\ Purged(s) /\ EncodedFirst(s) /\ Kept(s)
    BY <2>1 DEF Aborted, Purged, EncodedFirst, Kept, Ended
  <2> QED
    BY <2>4, <2>5, <2>6 DEF RunInv
<1> QED
  BY <1>2, <1>3, <1>4 DEF IInv

LEMMA NextInv ==
    ASSUME IInv, [Next]_vars
    PROVE  IInv'
<1>1. CASE UNCHANGED vars
  <2>1. UNCHANGED <<args, main, files, caches, faults, captured, raced, spoilt>>
    BY <1>1 DEF vars
  <2>2. Types' /\ Empty'
    BY <2>1 DEF IInv, Types, Empty
  <2>3. ASSUME NEW s \in Session PROVE RunInv(s)'
    <3>1. RunInv(s)
      BY DEF IInv
    <3>2. Place(s)' /\ Stopped(s)' /\ CapturedLate(s)' /\ CacheOwner(s)' /\ Owned(s)'
      BY <2>1, <3>1 DEF RunInv, Place, Stopped, CapturedLate, CacheOwner, Owned, Rescue, Records
    <3>3. Rescuing(s)' /\ SingleBy(s)' /\ WritesOwn(s)' /\ Writer(s)'
      BY <2>1, <3>1 DEF RunInv, Rescuing, SingleBy, WritesOwn, Writer, Rescue, Recording, Gone,
           Output
    <3>4. Held(s)' /\ Aborted(s)' /\ Purged(s)'
      BY <2>1, <3>1 DEF RunInv, Held, Aborted, Purged, Named, Output, Rescue, Records, Ended
    <3>5. EncodedFirst(s)' /\ Kept(s)'
      BY <2>1, <3>1 DEF RunInv, EncodedFirst, Kept, Ended, Discarded, Recording, Rescue, Encoded,
           Complete, Cached
    <3> QED
      BY <3>2, <3>3, <3>4, <3>5 DEF RunInv
  <2> QED
    BY <2>2, <2>3 DEF IInv
<1>2. CASE Next
  <2> PICK s \in Session : Start(s) \/ Program(s) \/ Threads(s) \/ Signals(s)
    BY <1>2 DEF Next
  <2>1. CASE Start(s)
    BY <2>1, RecordKept, RescueKept DEF Start
  <2>2. CASE Program(s)
    BY <2>2, ReadKept, SetUpKept, MkdirKept, CreateKept, SpecsKept, NamingKept, OpenKept,
       HeadersKept, ThreadsKept, CaptureEndsKept, AfterCaptureKept, EncodeCacheKept,
       CreateLoaderKept, LoadKept, EncodeEndsKept, PurgeKept, TailKept DEF Program
  <2>3. CASE Threads(s)
    BY <2>3, FirstFrameKept, FlushKept DEF Threads
  <2>4. CASE Signals(s)
    BY <2>4, SignalKept, KillKept DEF Signals
  <2> QED
    BY <2>1, <2>2, <2>3, <2>4
<1> QED
  BY <1>1, <1>2

THEOREM SessionInvariant == Spec => []IInv
<1>1. Init => IInv
  BY InitInv
<1>2. IInv /\ [Next]_vars => IInv'
  BY NextInv
<1> QED
  BY <1>1, <1>2, PTL DEF Spec

(* Nothing that is cached is lost: whatever fails, whenever processes die  *)
(* and however runs overlap (rmd.c:160-171).                               *)
THEOREM RecordingsKept == Spec => []RecordingKept
<1>1. IInv => RecordingKept
  BY DEF IInv, Types, RunInv, Kept, RecordingKept, Encoded
<1> QED
  BY <1>1, SessionInvariant, PTL

(* Every run tells by its status what it has done, in states whose         *)
(* variables keep to their values (rmd.c, rmd_rescue.c).                   *)
THEOREM RunsStayRight == Spec => []RunsRight
<1>1. ASSUME IInv PROVE TypeOK
  <2>1. ASSUME NEW s \in Session
        PROVE  /\ main[s].number \in 0..MaxNumber /\ main[s].status \in {0, 1}
               /\ {main[s].running, main[s].cancelled, main[s].written} \subseteq BOOLEAN
               /\ main[s].aborted \in {"no", "recording", "later"}
               /\ main[s].phase # "new" /\ ~Rescue(s) => args[s].dir \in Pid \union {0}
    BY <1>1 DEF IInv, Types, RunType, ArgsType, File, Pid, Session
  <2>2. ASSUME NEW f \in File
        PROVE  /\ files[f].by \subseteq Session /\ files[f].of \in 0..Runs
               /\ files[f].content \in {"none", "partial", "complete"}
    BY <1>1 DEF IInv, Types, FileType
  <2>3. ASSUME NEW p \in Pid, caches[p] # NoCache PROVE caches[p].of \in Session
    BY <1>1, <2>3 DEF IInv, Types, Empty, CacheType, Session
  <2> QED
    BY <1>1, <2>1, <2>2, <2>3 DEF TypeOK, IInv, Types
<1>2. ASSUME IInv PROVE StatusTold
  BY <1>2 DEF IInv, RunInv, EncodedFirst, StatusTold, Ended, Encoded
<1> QED
  BY <1>1, <1>2, SessionInvariant, PTL DEF RunsRight

(* A recording aborted before it is encoded leaves neither file nor cache  *)
(* (rmd.c:161, 173-181).                                                   *)
THEOREM AbortsLeaveNothing == Spec => []AbortLeavesNothing
<1>1. ASSUME IInv, NEW s \in Session, Ended(s), main[s].aborted = "recording"
      PROVE  /\ \A f \in File : files[f].by # {s}
             /\ args[s].no_encode \/ \A p \in Pid : caches[p].of # s
  BY <1>1 DEF IInv, RunInv, Aborted, Purged, CacheOwner
<1>2. IInv => AbortLeavesNothing
  BY <1>1 DEF AbortLeavesNothing, Ended
<1> QED
  BY <1>2, SessionInvariant, PTL

(* A run changes a file that is there only by what it has a claim to       *)
(* (recordmydesktop.1:438-441, --overwrite).                               *)
THEOREM FilesAreRespected == Spec => FilesRespected
<1> DEFINE Claim(f, s) == /\ main'[s] # main[s]
                          /\ s \in files[f].by \/ args[s].overwrite \/ s \in raced
<1>1. ASSUME IInv, NEW s \in Session, Start(s) \/ Program(s) \/ Threads(s) \/ Signals(s),
             NEW f \in File, files[f] # NoFile, files'[f] # files[f]
      PROVE  Claim(f, s)
  <2>1. ASSUME Named(s), f = Output(s), main'[s].phase # main[s].phase PROVE Claim(f, s)
    BY <1>1, <2>1 DEF IInv, RunInv, Held
  <2>2. ASSUME Completed(s), main'[s].phase # main[s].phase \/ main'[s].written # main[s].written
        PROVE  Claim(f, s)
    <3>1. files[f].by = {s}
      BY <1>1, <2>2 DEF Completed
    <3> QED
      BY <2>2, <3>1
  <2>3. CASE rmdInitEncoder(s)
    <3>1. main[s].phase = "open" /\ f = Output(s) /\ Go(s, "headers")
      BY <1>1, <2>3 DEF rmdInitEncoder, IInv, Types
    <3>2. main'[s].phase = "headers"
      BY <1>1, <3>1, GoStep DEF Phase, IInv
    <3> QED
      BY <2>1, <3>1, <3>2 DEF Named
  <2>4. CASE rmdFirstFrame(s)
    <3>1. /\ main[s].phase \in {"threads", "capture"} /\ args[s].encOnTheFly
          /\ Remove(s, Output(s)) /\ Exit(s, 1)
      BY <1>1, <2>4 DEF rmdFirstFrame
    <3>2. main'[s].phase = "exited" /\ f = Output(s)
      BY <1>1, <3>1, EndStep DEF Exit, IInv, Types, Remove
    <3> QED
      BY <2>1, <3>1, <3>2 DEF Named
  <2>5. CASE Tail(s)
    <3>1. /\ main[s].phase = "tail" /\ args[s].encOnTheFly
          /\ Remove(s, Output(s)) /\ Exit(s, 0)
      BY <1>1, <2>5 DEF Tail
    <3>2. main'[s].phase = "exited" /\ f = Output(s)
      BY <1>1, <3>1, EndStep DEF Exit, IInv, Types, Remove
    <3> QED
      BY <2>1, <3>1, <3>2 DEF Named
  <2>6. CASE rmdFlushToOgg(s)
    <3>1. Completed(s) /\ ~main[s].written /\ main' = [main EXCEPT ![s].written = TRUE]
      BY <2>6 DEF rmdFlushToOgg
    <3>2. main'[s].written # main[s].written
      BY <1>1, <3>1 DEF IInv, Types, RunType
    <3> QED
      BY <2>2, <3>1, <3>2
  <2>7. CASE EncodeEnds(s)
    <3>1. Completed(s) /\ main[s].phase = "flush" /\ (Exit(s, 0) \/ Go(s, "purge"))
      BY <1>1, <2>7 DEF EncodeEnds
    <3>2. main'[s].phase # "flush"
      BY <1>1, <3>1, EndStep, GoStep DEF Exit, IInv, Phase
    <3> QED
      BY <2>2, <3>1, <3>2
  <2>8. CASE UNCHANGED files
    BY <1>1, <2>8
  <2>9. \/ UNCHANGED files \/ rmdInitEncoder(s) \/ rmdFirstFrame(s) \/ Tail(s)
        \/ rmdFlushToOgg(s) \/ EncodeEnds(s)
    BY <1>1 DEF Start, Program, Threads, Signals, Record, rmdRescue, rmdReadSpecsFile, SetUp,
       Mkdir, Create, rmdWriteSpecsFile, rmdIncrementalNaming, WriteHeaders, rmdThreads,
       CaptureEnds, AfterCapture, rmdEncodeCache, CreateLoader, rmdLoadCache, rmdPurgeCache,
       rmdSetRunning, Kill, Disk
  <2> QED
    BY <2>3, <2>4, <2>5, <2>6, <2>7, <2>8, <2>9
<1>2. ASSUME IInv, Next, NEW f \in File, files[f] # NoFile, files'[f] # files[f]
      PROVE  \E s \in Session : Claim(f, s)
  <2>1. PICK s \in Session : Start(s) \/ Program(s) \/ Threads(s) \/ Signals(s)
    BY <1>2 DEF Next
  <2> QED
    BY <1>1, <1>2, <2>1
<1>3. IInv /\ [Next]_vars =>
        [\A f \in File : files[f] # NoFile /\ files'[f] # files[f] =>
            \E s \in Session : /\ main'[s] # main[s]
                               /\ s \in files[f].by \/ args[s].overwrite \/ s \in raced]_vars
  BY <1>2
<1> QED
  BY <1>3, SessionInvariant, PTL DEF Spec, FilesRespected
=============================================================================
