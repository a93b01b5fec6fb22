------------------------------ MODULE Session -------------------------------
(***************************************************************************)
(* Runs of the program and what they leave on the disk: main() from its    *)
(* arguments to its exit status, with the naming and opening of the output *)
(* file, the session directory of the cache, the encoding of the cache and *)
(* its purge, the signals, a process that dies anywhere, and rmdRescue()   *)
(* of what it left.  Runs may overlap.  What the threads do in between is  *)
(* in Capture, Encode and CacheFile; here a recording has taken frames or  *)
(* has not.                                                                *)
(***************************************************************************)
EXTENDS Naturals, FiniteSets

CONSTANTS
    Runs,       \* number of runs, in the order they start
    Taken,      \* numbers that files of others have when the first run starts
    MaxNumber,  \* bound: numbers put behind the name
    MaxFaults   \* bound: calls that fail

ASSUME SessionAssumption ==
    /\ Runs \in Nat /\ MaxNumber \in Nat /\ Taken \subseteq 0..MaxNumber
    /\ MaxNumber + 1 >= Runs + Cardinality(Taken)
    /\ MaxFaults \in Nat

Session == 1..Runs
Pid == Session     \* process ids, which name the session directories

VARIABLES
    args,       \* of each run
    main,       \* where each run's main() is, and its flags
    files,      \* the output files
    caches,     \* the session directories
    faults,
    \* history
    captured,   \* runs that have taken a picture
    raced,      \* runs whose file another opened as they held its name
    spoilt      \* recordings whose file a run has spoilt

vars == <<args, main, files, caches, faults, captured, raced, spoilt>>

NoFile == [by |-> {}, of |-> 0, content |-> "none"]
NoCache == [of |-> 0, images |-> FALSE, specs |-> "none"]
(* All runs use one name: 0 is the file of that name, n is that with -n.   *)
File == 0..MaxNumber

Gone(s) == main[s].phase \in {"exited", "killed"}
Live(s) == ~Gone(s) /\ main[s].phase # "new"
Ready(s) == main[s].phase = "new" /\ (s > 1 => main[s - 1].phase # "new")
Rescue(s) == args[s].rescue
Records(s) == ~Rescue(s) /\ ~args[s].encOnTheFly
Recording(s) == IF Rescue(s) THEN caches[args[s].dir].of ELSE s
Output(s) == main[s].number
(* The name is settled, and the file will be opened, or is open.           *)
Named(s) ==
    \/ main[s].phase \in {"open", "headers", "load", "loading", "flush"}
    \/ main[s].phase \in {"threads", "capture", "captured", "tail"} /\ args[s].encOnTheFly

(* The next line of main(); a failure's status, 1 to 13, is 1.  The memory *)
(* of a process that ends is gone.                                         *)
Go(s, phase) == main' = [main EXCEPT ![s].phase = phase]
End(s, phase, status) ==
    main' = [main EXCEPT ![s] = [@ EXCEPT !.phase = phase, !.status = status, !.number = 0,
                                          !.running = FALSE, !.written = FALSE]]
Exit(s, status) == End(s, "exited", status)
Fault == faults < MaxFaults /\ faults' = faults + 1
NoFault == UNCHANGED faults

Disk == <<files, caches, raced, spoilt>>
(* Whose file s spoils as it truncates or removes it: that of a complete   *)
(* recording, or, if another run still writes it, both.                    *)
Spoilt(s, f) ==
    IF \E t \in files[f].by \ {s} : Live(t) THEN {files[f].of, Recording(s)} \ {0}
    ELSE IF files[f].content = "complete" THEN {files[f].of} \ {0}
    ELSE {}
Remove(s, f) ==
    /\ files' = [files EXCEPT ![f] = NoFile]
    /\ spoilt' = spoilt \union Spoilt(s, f)
-----------------------------------------------------------------------------
NewRun == [phase |-> "new", number |-> 0, running |-> TRUE, aborted |-> "no",
           cancelled |-> FALSE, written |-> FALSE, status |-> 0]
NoArgs == [rescue |-> FALSE, encOnTheFly |-> FALSE, no_encode |-> FALSE, overwrite |-> FALSE,
           dir |-> 0]

Init ==
    /\ args = [s \in Session |-> NoArgs]
    /\ main = [s \in Session |-> NewRun]
    /\ files = [f \in File |-> IF f \in Taken
                               THEN [NoFile EXCEPT !.content = "complete"] ELSE NoFile]
    /\ caches = [p \in Pid |-> NoCache]
    /\ faults = 0 /\ captured = {} /\ raced = {} /\ spoilt = {}

(* A process may be given the number of one that is gone.                  *)
NewPids(s) == {s} \union {args[t].dir : t \in {u \in 1..(s - 1) : Gone(u) /\ Records(u)}}

(* rmdParseArgs(): a new process records, or rescues what a dead one left; *)
(* the options that come with --rescue are ignored.                        *)
Record(s) ==
    /\ Ready(s)
    /\ \E overwrite \in BOOLEAN, mode \in {"cache", "onTheFly", "no_encode"},
          pid \in NewPids(s) :
          args' = [args EXCEPT ![s] =
                      [rescue |-> FALSE, encOnTheFly |-> mode = "onTheFly",
                       no_encode |-> mode = "no_encode", overwrite |-> overwrite,
                       dir |-> IF mode = "onTheFly" THEN 0 ELSE pid]]
    /\ Go(s, "setup")
    /\ UNCHANGED <<Disk, faults, captured>>
rmdRescue(s) ==
    /\ Ready(s)
    /\ \E p \in Pid :
          /\ caches[p] # NoCache /\ ~Live(caches[p].of)
          /\ args' = [args EXCEPT ![s] = [NoArgs EXCEPT !.rescue = TRUE, !.dir = p]]
    /\ Go(s, "read")
    /\ UNCHANGED <<Disk, faults, captured>>

(* All that is read but the number behind the name, which is found anew.   *)
rmdReadSpecsFile(s) ==
    /\ main[s].phase = "read"
    /\ IF caches[args[s].dir].specs = "complete"
       THEN Go(s, "encode")
       ELSE Exit(s, 1)
    /\ UNCHANGED <<args, Disk, faults, captured>>

(* The display, its extensions, the window, the sound device: main() ends  *)
(* at the first that is not there.                                         *)
SetUp(s) ==
    /\ main[s].phase = "setup"
    /\ \/ NoFault /\ Go(s, IF args[s].encOnTheFly THEN "name" ELSE "mkdir")
       \/ Fault /\ Exit(s, 1)
    /\ UNCHANGED <<args, Disk, captured>>
-----------------------------------------------------------------------------
(* Deviation: a directory that is there already is used.                   *)
MkdirAnyway(s) ==
    /\ main[s].phase = "mkdir"
    /\ NoFault
    /\ caches' = [caches EXCEPT ![args[s].dir] =
                     [NoCache EXCEPT !.of = s]]
    /\ Go(s, "create")
    /\ UNCHANGED <<args, files, captured, raced, spoilt>>

(* rmdInitCacheData(): the directory must be new, although the number of a *)
(* process may come again; what was made before a failure stays.           *)
Mkdir(s) ==
    /\ main[s].phase = "mkdir"
    /\ \/ /\ caches[args[s].dir] = NoCache /\ NoFault
          /\ caches' = [caches EXCEPT ![args[s].dir] =
                           [NoCache EXCEPT !.of = s]]
          /\ Go(s, "create")
       \/ caches[args[s].dir] # NoCache /\ NoFault /\ Exit(s, 1) /\ UNCHANGED caches
       \/ Fault /\ Exit(s, 1) /\ UNCHANGED caches
    /\ UNCHANGED <<args, files, captured, raced, spoilt>>
Create(s) ==
    /\ main[s].phase = "create"
    /\ \/ NoFault /\ caches' = [caches EXCEPT ![args[s].dir].images = TRUE]
                  /\ Go(s, "specs")
       \/ Fault /\ Exit(s, 1) /\ UNCHANGED caches
    /\ UNCHANGED <<args, files, captured, raced, spoilt>>

(* rmdWriteSpecsFile(): fopen() and fprintf(), and fclose(), which writes. *)
rmdWriteSpecsFile(s) ==
    /\ \/ /\ main[s].phase = "specs" /\ NoFault
          /\ caches' = [caches EXCEPT ![args[s].dir].specs = "partial"]
          /\ Go(s, "close")
       \/ /\ main[s].phase = "close" /\ NoFault
          /\ caches' = [caches EXCEPT ![args[s].dir].specs = "complete"]
          /\ Go(s, "threads")
       \/ main[s].phase \in {"specs", "close"} /\ Fault /\ Exit(s, 1) /\ UNCHANGED caches
    /\ UNCHANGED <<args, files, captured, raced, spoilt>>
-----------------------------------------------------------------------------
(* Deviation: the first number is taken unseen.                            *)
NamingOnce(s) ==
    /\ main[s].phase = "name"
    /\ main' = [main EXCEPT ![s].phase = "open",
                   ![s].number = IF ~args[s].overwrite /\ files[Output(s)] # NoFile THEN 1 ELSE 0]
    /\ UNCHANGED <<args, Disk, faults, captured>>

(* rmdIncrementalNaming(): a number more as long as stat() finds a file.   *)
(* The runs that may take a name are too few to come to the bound.         *)
rmdIncrementalNaming(s) ==
    /\ main[s].phase = "name"
    /\ IF ~args[s].overwrite /\ files[Output(s)] # NoFile
       THEN Output(s) < MaxNumber /\ main' = [main EXCEPT ![s].number = @ + 1]
       ELSE Go(s, "open")
    /\ UNCHANGED <<args, Disk, faults, captured>>

(* The rest of rmdInitEncoder(): fopen() truncates what is there by now;   *)
(* then the headers are written, or the process ends and the file stays.   *)
rmdInitEncoder(s) ==
    LET f == Output(s)
    IN  /\ main[s].phase = "open"
        /\ \/ /\ NoFault
              /\ files' = [files EXCEPT ![f] =
                              [by |-> {s} \union {t \in @.by : Live(t)},
                               of |-> Recording(s), content |-> "partial"]]
              /\ spoilt' = spoilt \union Spoilt(s, f)
              /\ raced' = raced \union {t \in Session \ {s} : Named(t) /\ Output(t) = f}
              /\ Go(s, "headers")
           \/ Fault /\ Exit(s, 1) /\ UNCHANGED <<files, spoilt, raced>>
        /\ UNCHANGED <<args, caches, captured>>
WriteHeaders(s) ==
    /\ main[s].phase = "headers"
    /\ \/ NoFault /\ Go(s, IF args[s].encOnTheFly THEN "threads" ELSE "load")
       \/ Fault /\ Exit(s, 1)
    /\ UNCHANGED <<args, Disk, captured>>
-----------------------------------------------------------------------------
(* rmdThreads(): a thread that cannot be created ends main(), and with it  *)
(* those that run already.  The signals are handled only from then on.     *)
rmdThreads(s) ==
    /\ main[s].phase = "threads"
    /\ \/ NoFault /\ Go(s, "capture")
       \/ Fault /\ Exit(s, 1)
    /\ UNCHANGED <<args, Disk, captured>>

(* rmdGetFrames(): the first picture is taken, whatever was signalled; or  *)
(* it fails, and what main() has made is removed.                          *)
rmdFirstFrame(s) ==
    /\ main[s].phase \in {"threads", "capture"} /\ s \notin captured
    /\ \/ /\ NoFault /\ captured' = captured \union {s}
          /\ UNCHANGED <<main, files, spoilt>>
       \/ /\ Fault /\ UNCHANGED captured
          /\ IF args[s].encOnTheFly
             THEN Remove(s, Output(s)) /\ Exit(s, 1)
             ELSE Go(s, "drop") /\ UNCHANGED <<files, spoilt>>
    /\ UNCHANGED <<args, caches, raced>>

(* Every thread is joined, but that which writes the file.                 *)
CaptureEnds(s) ==
    /\ main[s].phase = "capture" /\ ~main[s].running /\ s \in captured
    /\ Go(s, "captured")
    /\ UNCHANGED <<args, Disk, faults, captured>>
Completed(s) ==
    files' = [f \in File |-> IF f = Output(s) /\ files[f].by = {s}
                             THEN [files[f] EXCEPT !.content = "complete"] ELSE files[f]]
rmdFlushToOgg(s) ==
    /\ main[s].phase \in {"capture", "captured", "tail"} /\ args[s].encOnTheFly
    /\ ~main[s].running /\ s \in captured /\ ~main[s].written
    /\ Completed(s)
    /\ main' = [main EXCEPT ![s].written = TRUE]
    /\ UNCHANGED <<args, caches, faults, captured, raced, spoilt>>

(* Deviation: an aborted recording is encoded too.                         *)
AfterCaptureEncode(s) ==
    /\ main[s].phase = "captured"
    /\ Go(s, IF args[s].encOnTheFly \/ args[s].no_encode THEN "tail" ELSE "encode")
    /\ UNCHANGED <<args, Disk, faults, captured>>

AfterCapture(s) ==
    /\ main[s].phase = "captured"
    /\ Go(s, IF args[s].encOnTheFly \/ args[s].no_encode THEN "tail"
                        ELSE IF main[s].aborted = "no" THEN "encode" ELSE "purge")
    /\ UNCHANGED <<args, Disk, faults, captured>>
-----------------------------------------------------------------------------
(* rmdEncodeCache(): a signal that came before is forgotten here.          *)
rmdEncodeCache(s) ==
    /\ main[s].phase = "encode"
    /\ main' = [main EXCEPT ![s].phase = "name", ![s].running = TRUE]
    /\ UNCHANGED <<args, Disk, faults, captured>>
CreateLoader(s) ==
    /\ main[s].phase = "load"
    /\ \/ NoFault /\ Go(s, "loading")
       \/ Fault /\ Exit(s, 1)
    /\ UNCHANGED <<args, Disk, captured>>

(* Deviation: a loader that cannot open its files ends the encoding.       *)
LoadQuietly(s) ==
    /\ main[s].phase = "loading"
    /\ \/ NoFault /\ caches[args[s].dir].images
          /\ main' = [main EXCEPT ![s].phase = "flush", ![s].written = main[s].running,
                                  ![s].running = FALSE]
       \/ Fault /\ main' = [main EXCEPT ![s].phase = "flush", ![s].running = FALSE]
    /\ UNCHANGED <<args, Disk, captured>>

(* rmdLoadCache(): everything, or up to a signal.  A loader that cannot    *)
(* open the files leaves running as it is.                                 *)
rmdLoadCache(s) ==
    /\ main[s].phase = "loading"
    /\ \/ NoFault /\ caches[args[s].dir].images
          /\ main' = [main EXCEPT ![s].phase = "flush", ![s].written = main[s].running,
                                  ![s].running = FALSE]
       \/ NoFault /\ ~caches[args[s].dir].images /\ Go(s, "flush")
       \/ Fault /\ Go(s, "flush")
    /\ UNCHANGED <<args, Disk, captured>>

(* Deviation: the file is waited for to be complete.                       *)
EncodeEndsComplete(s) ==
    /\ main[s].phase = "flush" /\ ~main[s].running /\ main[s].written
    /\ Completed(s)
    /\ IF Rescue(s) THEN Exit(s, 0) ELSE Go(s, "purge")
    /\ UNCHANGED <<args, caches, faults, captured, raced, spoilt>>

(* The thread that writes the file ends when running is FALSE; a rescued   *)
(* cache stays.                                                            *)
EncodeEnds(s) ==
    /\ main[s].phase = "flush" /\ ~main[s].running
    /\ IF main[s].written THEN Completed(s) ELSE UNCHANGED files
    /\ IF Rescue(s) THEN Exit(s, 0) ELSE Go(s, "purge")
    /\ UNCHANGED <<args, caches, faults, captured, raced, spoilt>>

(* rmdPurgeCache(), a remove() a step: pictures and sound, specs.txt, the  *)
(* directory.                                                              *)
rmdPurgeCache(s) ==
    LET p == args[s].dir
    IN  /\ main[s].phase \in {"purge", "drop"}
        /\ \/ /\ caches[p].images
              /\ caches' = [caches EXCEPT ![p].images = FALSE] /\ UNCHANGED main
           \/ /\ ~caches[p].images /\ caches[p].specs # "none"
              /\ caches' = [caches EXCEPT ![p].specs = "none"] /\ UNCHANGED main
           \/ /\ ~caches[p].images /\ caches[p].specs = "none"
              /\ caches' = [caches EXCEPT ![p] = NoCache]
              /\ IF main[s].phase = "drop" THEN Exit(s, 1) ELSE Go(s, "tail")
        /\ UNCHANGED <<args, files, faults, captured, raced, spoilt>>

(* The end of main(): the file of an aborted recording is removed.         *)
Tail(s) ==
    /\ main[s].phase = "tail"
    /\ \/ /\ main[s].aborted # "no" /\ args[s].encOnTheFly
          /\ IF files[Output(s)] # NoFile
             THEN Remove(s, Output(s)) /\ Exit(s, 0)
             ELSE Exit(s, 1) /\ UNCHANGED <<files, spoilt>>
       \/ /\ main[s].aborted = "no" \/ ~args[s].encOnTheFly
          /\ Exit(s, 0) /\ UNCHANGED <<files, spoilt>>
    /\ UNCHANGED <<args, caches, faults, captured, raced>>
-----------------------------------------------------------------------------
(* rmdRegisterCallbacks() is called late when recording, and before        *)
(* encoding when rescuing.                                                 *)
Handled(s) ==
    IF Rescue(s) THEN main[s].phase \in {"encode", "name", "open", "headers", "load", "loading",
                                          "flush"}
    ELSE \/ main[s].phase \in {"capture", "captured", "tail", "encode", "load", "loading",
                               "flush", "purge"}
         \/ main[s].phase \in {"name", "open", "headers"} /\ ~args[s].encOnTheFly

(* rmdSetRunning(), for SIGINT, SIGTERM and SIGABRT.                       *)
rmdSetRunning(s, signum) ==
    /\ Handled(s)
    /\ main' = [main EXCEPT
          ![s].running = FALSE,
          ![s].aborted = IF signum # "SIGABRT" \/ @ # "no" THEN @
                         ELSE IF ~Rescue(s) /\ \/ main[s].phase \in {"capture", "captured"}
                                               \/ main[s].phase = "tail" /\ args[s].encOnTheFly
                              THEN "recording" ELSE "later",
          ![s].cancelled = @ \/ main[s].phase \in {"name", "open", "headers", "load", "loading", "flush"}]
    /\ UNCHANGED <<args, Disk, faults, captured>>

(* SIGKILL, a crash, or one of the others before they are handled.         *)
Kill(s) ==
    /\ Live(s)
    /\ End(s, "killed", 1)
    /\ UNCHANGED <<args, Disk, faults, captured>>

Start(s) == Record(s) \/ rmdRescue(s)
Program(s) ==
    \/ rmdReadSpecsFile(s) \/ SetUp(s) \/ Mkdir(s) \/ Create(s) \/ rmdWriteSpecsFile(s)
    \/ rmdIncrementalNaming(s) \/ rmdInitEncoder(s) \/ WriteHeaders(s)
    \/ rmdThreads(s) \/ CaptureEnds(s) \/ AfterCapture(s)
    \/ rmdEncodeCache(s) \/ CreateLoader(s) \/ rmdLoadCache(s) \/ EncodeEnds(s)
    \/ rmdPurgeCache(s) \/ Tail(s)
Threads(s) == rmdFirstFrame(s) \/ rmdFlushToOgg(s)
Signals(s) == (\E signum \in {"SIGINT", "SIGABRT"} : rmdSetRunning(s, signum)) \/ Kill(s)

Next == \E s \in Session : Start(s) \/ Program(s) \/ Threads(s) \/ Signals(s)

(* Processes that live run on.                                             *)
Spec == Init /\ [][Next]_vars
             /\ \A s \in Session : WF_vars(Program(s)) /\ WF_vars(Threads(s))
-----------------------------------------------------------------------------
Complete(s) == \E f \in File : files[f].of = s /\ files[f].content = "complete"
Cached(s) == \E p \in Pid : caches[p].of = s /\ caches[p].images /\ caches[p].specs = "complete"
Discarded(s) == main[s].aborted # "no" \/ main[s].cancelled

TypeOK ==
    /\ \A s \in Session :
          /\ main[s].number \in 0..MaxNumber /\ main[s].status \in {0, 1}
          /\ {main[s].running, main[s].cancelled, main[s].written} \subseteq BOOLEAN
          /\ main[s].aborted \in {"no", "recording", "later"}
          /\ main[s].phase # "new" /\ ~Rescue(s) => args[s].dir \in Pid \union {0}
    /\ \A f \in File : /\ files[f].by \subseteq Session
                       /\ files[f].of \in 0..Runs
                       /\ files[f].content \in {"none", "partial", "complete"}
    /\ \A p \in Pid : caches[p] # NoCache => caches[p].of \in Session
    /\ captured \union raced \subseteq Session /\ faults \in 0..MaxFaults

(* Frames that were cached are not lost, whatever fails and wherever the   *)
(* process dies: there is a cache that --rescue can read, or else the      *)
(* complete file, unless the recording was aborted or its encoding         *)
(* cancelled, or another run has spoilt the file (rmd.c:160-171 purges   *)
(* only after rmdEncodeCache has succeeded).                               *)
RecordingKept ==
    \A s \in captured :
        args[s].encOnTheFly \/ Discarded(s) \/ Cached(s) \/ Complete(s) \/ s \in spoilt

(* A recording aborted before it is encoded leaves nothing once main() has *)
(* come to its end: no file of its own, and no cache but with --no-encode  *)
(* (rmd.c:161, 173-181).                                                   *)
AbortLeavesNothing ==
    \A s \in Session :
        main[s].phase = "exited" /\ main[s].status = 0 /\ main[s].aborted = "recording" =>
            /\ \A f \in File : files[f].by # {s}
            /\ args[s].no_encode \/ \A p \in Pid : caches[p].of # s

(* Status 0 of a recording that is encoded, or of a rescue, says that the  *)
(* file is complete, if the user did not stop it.                          *)
StatusTold ==
    \A s \in Session :
        /\ main[s].phase = "exited" /\ main[s].status = 0 /\ ~Discarded(s)
        /\ ~args[s].encOnTheFly /\ ~args[s].no_encode
        => Recording(s) \in spoilt \/ Complete(Recording(s))

(* What a run reports at its end is so, in states whose variables keep to  *)
(* their values.                                                           *)
RunsRight == TypeOK /\ StatusTold

(* A run changes or removes a file that is there only if it wrote it, or   *)
(* was told to overwrite, or another run has opened a file of that name    *)
(* since its stat() (recordmydesktop.1:438-441, --overwrite).              *)
FilesRespected ==
    [][\A f \in File :
          files[f] # NoFile /\ files'[f] # files[f] =>
              \E s \in Session :
                  /\ main'[s] # main[s]
                  /\ s \in files[f].by \/ args[s].overwrite \/ s \in raced]_vars

(* A run that was told to stop ends, unless its loader could not open the  *)
(* cache: then rmdFlushToOgg waits until it is told again.                 *)
SessionEnds ==
    \A s \in Session :
        Handled(s) /\ ~main[s].running ~> Gone(s) \/ (main[s].phase = "flush" /\ main[s].running)
=============================================================================
