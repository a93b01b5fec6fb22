---------------------------- MODULE EncodeProofs ----------------------------
(***************************************************************************)
(* Proofs, for any durations and any length of recording, that             *)
(* rmdFlushToOgg has an encoder for itself when it makes the last packet   *)
(* of a stream, that it writes the pages in the order of their times, and  *)
(* that the file is right as far as it is written.                         *)
(***************************************************************************)
EXTENDS Encode, SequenceTheorems, TLAPS

Labels == {"start", "loop", "wait", "encode", "finish", "encodeTs", "encodeVs", "closeVs",
           "top", "pages", "ts", "vs", "choose", "waitTs", "waitVs", "lastTs", "lastVs",
           "join", "done"}

Types ==
    /\ mode \in {"onTheFly", "cache"}
    /\ running \in BOOLEAN /\ interrupted \in BOOLEAN
    /\ pc \in [Thread -> Labels]
    /\ clean \in [Stream -> BOOLEAN]

(* Each mode has its own threads.                                          *)
ModeThreads ==
    /\ mode = "cache" => pc["video"] = "done" /\ pc["audio"] = "done"
    /\ mode = "onTheFly" => pc["loader"] = "done"

(* The rest is flushed only when the recording is over.                    *)
Closing == {"ts", "vs", "waitTs", "waitVs", "lastTs", "lastVs"}
ClosesWhenOver == pc["flush"] \in Closing => ~running

(* A stream is not clean from the encoder's start to its end.              *)
Working == {"loop", "wait", "encode", "finish"}
NotClean ==
    /\ pc["video"] \in Working => ~clean["ts"]
    /\ pc["audio"] \in Working => ~clean["vs"]

(* An encoder that starts after the flusher looked finds no turn to take.  *)
NoTurn ==
    /\ pc["flush"] = "lastTs" => pc["video"] \notin {"wait", "encode"}
    /\ pc["flush"] = "lastVs" => pc["audio"] \notin {"wait", "encode"}

(* The loader itself ends the encoding of a cache, when it encodes nothing.*)
LoaderIdle ==
    ~running /\ ~interrupted => pc["loader"] \notin {"encodeTs", "encodeVs", "closeVs"}

ExclusiveInv == Types /\ ModeThreads /\ ClosesWhenOver /\ NotClean /\ NoTurn /\ LoaderIdle

USE DEF Labels, Types, Thread, Stream, Closing, Working

LEMMA ExclusiveInit == Init => ExclusiveInv
<1> SUFFICES ASSUME Init PROVE ExclusiveInv
    OBVIOUS
<1>1. /\ mode \in {"onTheFly", "cache"} /\ running = TRUE /\ interrupted = FALSE
      /\ clean \in [Stream -> BOOLEAN]
  BY EncodeAssumption DEF Init
<1>2. /\ pc \in [Thread -> Labels] /\ pc["flush"] = "top"
      /\ pc["loader"] \in {"loop", "done"} /\ pc["video"] \in {"start", "done"}
      /\ pc["audio"] \in {"start", "done"}
      /\ mode = "cache" => pc["video"] = "done" /\ pc["audio"] = "done"
      /\ mode = "onTheFly" => pc["loader"] = "done"
  BY <1>1 DEF Init
<1> QED
  BY <1>1, <1>2 DEF ExclusiveInv, ModeThreads, ClosesWhenOver, NotClean, NoTurn, LoaderIdle

LEMMA ExclusiveNext == ExclusiveInv /\ [Next]_vars => ExclusiveInv'
<1> SUFFICES ASSUME ExclusiveInv, [Next]_vars PROVE ExclusiveInv'
    OBVIOUS
<1> USE DEF ExclusiveInv, ModeThreads, ClosesWhenOver, NotClean, NoTurn, LoaderIdle
<1>1. ASSUME NEW t \in {"video", "audio"}, Encoder(t) PROVE ExclusiveInv'
  <2>1. CASE EncoderStart(t)
    BY <2>1 DEF EncoderStart, Go, Of
  <2>2. CASE EncoderLoop(t)
    BY <2>2 DEF EncoderLoop, Go, Of
  <2>3. CASE EncoderWait(t)
    BY <2>3 DEF EncoderWait, Go, Of
  <2>4. CASE EncoderPacket(t)
    BY <2>4 DEF EncoderPacket, Go, Of
  <2>5. CASE EncoderFinish(t)
    <3>1. CASE t = "video"
      BY <2>5, <3>1 DEF EncoderFinish, Go, Of
    <3>2. CASE t = "audio"
      BY <2>5, <3>2 DEF EncoderFinish, Go, Of
    <3> QED BY <3>1, <3>2
  <2> QED BY <1>1, <2>1, <2>2, <2>3, <2>4, <2>5 DEF Encoder
<1>2. CASE Loader
  <2>1. CASE LoaderLoop
    <3>1. pc["loader"] = "loop" /\ pc' \in [Thread -> Labels]
          /\ \A t \in Thread \ {"loader"} : pc'[t] = pc[t]
      BY <2>1 DEF LoaderLoop, Go, At
    <3>2. (~running' => pc'["loader"] \in {"loop", "finish"}) /\ (running' => running)
          /\ running' \in BOOLEAN
      BY <2>1 DEF LoaderLoop, Go, At
    <3>3. UNCHANGED <<mode, clean, interrupted>>
      BY <2>1 DEF LoaderLoop
    <3>4. mode = "cache"
      BY <3>1
    <3> QED BY <3>1, <3>2, <3>3, <3>4
  <2>2. CASE LoaderFrame
    BY <2>2 DEF LoaderFrame, Go
  <2>3. CASE LoaderPeriod
    BY <2>3 DEF LoaderPeriod, Go
  <2>4. CASE LoaderClose
    BY <2>4 DEF LoaderClose, Go
  <2>5. CASE LoaderFinish
    BY <2>5 DEF LoaderFinish, Go
  <2> QED BY <1>2, <2>1, <2>2, <2>3, <2>4, <2>5 DEF Loader
<1>3. CASE Flush
  <2>1. CASE FlushTop
    BY <2>1 DEF FlushTop, At
  <2>2. CASE FlushPages
    BY <2>2 DEF FlushPages, Go
  <2>3. CASE FlushWrite
    BY <2>3 DEF FlushWrite, Go
  <2>4. ASSUME NEW s \in Stream, FlushRest(s) PROVE ExclusiveInv'
    BY <2>4 DEF FlushRest, Go, At, After, WaitFor
  <2>5. ASSUME NEW s \in Stream, FlushWait(s) PROVE ExclusiveInv'
    BY <2>5 DEF FlushWait, Go, WaitFor, LastOf
  <2>6. ASSUME NEW s \in Stream, FlushLast(s) PROVE ExclusiveInv'
    BY <2>6 DEF FlushLast, Go, LastOf, After
  <2> QED BY <1>3, <2>1, <2>2, <2>3, <2>4, <2>5, <2>6 DEF Flush
<1>4. CASE MainJoin
  BY <1>4 DEF MainJoin, Go
<1>5. CASE Interrupt
  BY <1>5 DEF Interrupt
<1>6. CASE UNCHANGED vars
  BY <1>6 DEF vars
<1> QED BY <1>1, <1>2, <1>3, <1>4, <1>5, <1>6 DEF Next

LEMMA ExclusiveEnough == ExclusiveInv => EncoderExclusive
BY DEF ExclusiveInv, ModeThreads, ClosesWhenOver, NotClean, NoTurn, LoaderIdle, EncoderExclusive,
       Undisturbed, Encoding, At, LastOf

(* Where a thread is, and if an encoder may be entered (rmd_types.h:307).  *)
THEOREM ThreadsInPlace == Spec => []ExclusiveInv
BY ExclusiveInit, ExclusiveNext, PTL DEF Spec

(* rmdFlushToOgg makes the last packet of a stream while no other thread   *)
(* uses its encoder, unless the encoding of a cache is cancelled           *)
(* (rmd_flush_to_ogg.c:127-133, 149-156).                                  *)
THEOREM EncoderForOne == Spec => []EncoderExclusive
BY ThreadsInPlace, ExclusiveEnough, PTL
-----------------------------------------------------------------------------
(***************************************************************************)
(* The order of the pages.  What a stream still has to write, on its page, *)
(* in its packets or not encoded yet, is no earlier than any page of the   *)
(* file, unless the stream is finished: no page is written while one of a  *)
(* stream that goes on is missing, and the earlier of two goes first.      *)
(***************************************************************************)
Clock(s) == encoded[s] * Duration(s)

(* What s has, and what it will have, is no earlier than time.             *)
NotBefore(s, time) ==
    /\ time <= Clock(s)
    /\ \A j \in DOMAIN packets[s] : time <= packets[s][j]
    /\ page[s] # NoPage => time <= page[s].last

DataTypes ==
    /\ encoded \in [Stream -> Nat]
    /\ packets \in [Stream -> Seq(Nat)]
    /\ e_o_s \in [Stream -> BOOLEAN]
    /\ page \in [Stream -> [last : Nat, eos : BOOLEAN]]
    /\ file \in Seq([stream : Stream, last : Nat, eos : BOOLEAN])
    /\ fin \subseteq Stream

StreamInOrder(s) ==
    /\ \A i \in DOMAIN packets[s] : 0 < packets[s][i] /\ packets[s][i] <= Clock(s)
    /\ \A i, j \in DOMAIN packets[s] : i < j => packets[s][i] <= packets[s][j]
    /\ page[s] # NoPage => /\ page[s].last <= Clock(s)
                           /\ \A j \in DOMAIN packets[s] : page[s].last <= packets[s][j]

RestAfterFile == \A s \in Stream \ fin : \A i \in DOMAIN file : NotBefore(s, file[i].last)
FinishedGone == \A s \in fin : page[s] = NoPage

DataInv ==
    /\ DataTypes
    /\ \A s \in Stream : StreamInOrder(s)
    /\ RestAfterFile
    /\ FinishedGone
    /\ PagesInOrder

(* A stream is finished when its last page is written, after the end of    *)
(* the recording; sound that is not recorded is finished from the start.   *)
FinishedLate ==
    /\ running \/ pc["flush"] = "pages" => fin = Stream \ Streams
    /\ nosound => "vs" \in fin
    /\ pc["flush"] \notin {"top", "done"} => fin # Stream
    /\ pc["flush"] \in {"waitTs", "lastTs"} => "ts" \notin fin
    /\ pc["flush"] \in {"waitVs", "lastVs"} => "vs" \notin fin
Silent ==
    nosound => /\ packets["vs"] = <<>> /\ pc["audio"] = "done"
               /\ pc["loader"] \notin {"encodeVs", "closeVs"}

OrderInv == Types /\ nosound \in BOOLEAN /\ DataInv /\ FinishedLate /\ Silent

LEMMA DurationPositive == \A s \in Stream : Duration(s) \in Nat /\ Duration(s) > 0
BY EncodeAssumption DEF Duration

LEMMA Element ==
    ASSUME NEW R, NEW q \in Seq(R), NEW i \in DOMAIN q
    PROVE  q[i] \in R /\ i \in 1..Len(q)
OBVIOUS

LEMMA FileTimes == DataInv => \A i \in DOMAIN file : file[i].last \in Nat
<1> SUFFICES ASSUME DataInv, NEW i \in DOMAIN file PROVE file[i].last \in Nat
    OBVIOUS
<1>1. file \in Seq([stream : Stream, last : Nat, eos : BOOLEAN])
  BY DEF DataInv, DataTypes
<1>2. file[i] \in [stream : Stream, last : Nat, eos : BOOLEAN]
  BY <1>1, Element
<1> QED BY <1>2

(* A packet goes behind all there are, and is later.                       *)
LEMMA PacketKeepsOrder ==
    ASSUME DataInv, NEW s \in Stream, PacketIn(s), UNCHANGED <<page, fin, file>>,
           e_o_s' \in [Stream -> BOOLEAN]
    PROVE  DataInv'
<1> DEFINE d == Duration(s)
           time == (encoded[s] + 1) * d
<1>1. d \in Nat /\ d > 0
  BY DurationPositive
<1>2. encoded[s] \in Nat /\ encoded \in [Stream -> Nat]
  BY DEF DataInv, DataTypes
<1> HIDE DEF d
<1>3. time \in Nat /\ encoded[s] * d \in Nat /\ time = encoded[s] * d + d
  BY <1>1, <1>2
<1>4. /\ encoded' = [encoded EXCEPT ![s] = @ + 1]
      /\ packets' = [packets EXCEPT ![s] = Append(@, time)]
  BY <1>2 DEF PacketIn, d
<1>5. /\ Clock(s) = encoded[s] * d /\ Clock(s)' = time
      /\ \A t \in Stream \ {s} : Clock(t)' = Clock(t)
  BY <1>2, <1>4 DEF Clock, Duration, d
<1> HIDE DEF time
<1>6. DataTypes'
  BY <1>3, <1>4 DEF DataInv, DataTypes
<1>7. ASSUME NEW t \in Stream PROVE StreamInOrder(t)'
  <2>1. CASE t # s
    BY <2>1, <1>4, <1>5 DEF DataInv, DataTypes, StreamInOrder
  <2>2. CASE t = s
    <3> DEFINE q == packets[s]
               r == packets'[s]
    <3>1. /\ q \in Seq(Nat) /\ Clock(s) < time /\ Clock(s) \in Nat
          /\ r = Append(q, time)
      <4>1. packets \in [Stream -> Seq(Nat)]
        BY DEF DataInv, DataTypes
      <4>2. q \in Seq(Nat) /\ r = Append(q, time)
        BY <1>4, <4>1
      <4>3. Clock(s) < time /\ Clock(s) \in Nat
        BY <1>1, <1>3, <1>5
      <4> QED  BY <4>2, <4>3
    <3>2. /\ \A i \in DOMAIN q : 0 < q[i] /\ q[i] <= Clock(s)
          /\ \A i, j \in DOMAIN q : i < j => q[i] <= q[j]
          /\ page[s] # NoPage => /\ page[s].last <= Clock(s)
                                 /\ \A j \in DOMAIN q : page[s].last <= q[j]
          /\ page[s].last \in Nat
      BY DEF DataInv, DataTypes, StreamInOrder
    <3> HIDE DEF q
    <3>3. /\ DOMAIN r = 1..(Len(q) + 1) /\ DOMAIN q = 1..Len(q) /\ Len(q) \in Nat
          /\ \A i \in 1..Len(q) : r[i] = q[i] /\ q[i] \in Nat
          /\ r[Len(q) + 1] = time
      BY <1>3, <3>1
    <3> HIDE DEF r
    <3>4. ASSUME NEW i \in DOMAIN r
          PROVE  /\ r[i] \in Nat /\ 0 < r[i] /\ r[i] <= time
                 /\ page[s] # NoPage => page[s].last <= r[i]
      <4>1. CASE i \in 1..Len(q)
        BY <4>1, <1>3, <3>1, <3>2, <3>3
      <4>2. CASE i = Len(q) + 1
        BY <4>2, <1>3, <3>1, <3>2, <3>3
      <4> QED BY <4>1, <4>2, <3>3
    <3>5. ASSUME NEW i \in DOMAIN r, NEW j \in DOMAIN r, i < j
          PROVE  r[i] <= r[j]
      <4>1. CASE j \in 1..Len(q)
        BY <4>1, <3>2, <3>3, <3>5
      <4>2. CASE j = Len(q) + 1
        BY <4>2, <3>3, <3>4
      <4> QED BY <4>1, <4>2, <3>3
    <3>6. page[s] # NoPage => page[s].last <= time
      BY <1>3, <3>1, <3>2
    <3> QED BY <2>2, <1>5, <3>4, <3>5, <3>6 DEF StreamInOrder, r
  <2> QED BY <2>1, <2>2
<1>8. RestAfterFile'
  <2> SUFFICES ASSUME NEW t \in Stream \ fin, NEW i \in DOMAIN file
               PROVE  NotBefore(t, file[i].last)'
    BY DEF RestAfterFile
  <2>1. NotBefore(t, file[i].last)
    BY DEF DataInv, RestAfterFile
  <2>b. file[i].last \in Nat
    BY FileTimes
  <2>2. CASE t # s
    BY <2>1, <2>2, <1>4, <1>5 DEF NotBefore, DataInv, DataTypes
  <2>3. CASE t = s
    <3> DEFINE q == packets[s]
               r == packets'[s]
    <3>1. q \in Seq(Nat) /\ r = Append(q, time)
      BY <1>4 DEF DataInv, DataTypes
    <3>2. Clock(s) \in Nat /\ Clock(s) <= time /\ file[i].last <= Clock(s)
      BY <2>1, <2>3, <1>1, <1>3, <1>5 DEF NotBefore
    <3>3. file[i].last <= time
      BY <2>b, <3>2, <1>3
    <3> HIDE DEF q, r
    <3>4. \A j \in DOMAIN r : r[j] = time \/ (j \in DOMAIN q /\ r[j] = q[j])
      BY <1>3, <3>1
    <3>5. \A j \in DOMAIN q : file[i].last <= q[j]
      BY <2>1, <2>3 DEF NotBefore, q
    <3>6. \A j \in DOMAIN r : file[i].last <= r[j]
      BY <3>3, <3>4, <3>5
    <3> QED BY <2>1, <2>3, <3>3, <3>6, <1>5 DEF NotBefore, r
  <2> QED BY <2>2, <2>3
<1>9. FinishedGone' /\ PagesInOrder'
  BY DEF DataInv, FinishedGone, PagesInOrder
<1> QED BY <1>6, <1>7, <1>8, <1>9 DEF DataInv

LEMMA Rest ==
    ASSUME NEW q \in Seq(Nat), NEW n \in 0..Len(q)
    PROVE  /\ SubSeq(q, n + 1, Len(q)) \in Seq(Nat)
           /\ Len(SubSeq(q, n + 1, Len(q))) = Len(q) - n
           /\ DOMAIN SubSeq(q, n + 1, Len(q)) = 1..(Len(q) - n)
           /\ \A i \in 1..(Len(q) - n) : SubSeq(q, n + 1, Len(q))[i] = q[n + i]
<1>1. n + 1 \in Int /\ Len(q) \in Int /\ \A i \in n + 1 .. Len(q) : q[i] \in Nat
  OBVIOUS
<1>2. /\ SubSeq(q, n + 1, Len(q)) \in Seq(Nat)
      /\ Len(SubSeq(q, n + 1, Len(q))) = IF n + 1 <= Len(q) THEN Len(q) - (n + 1) + 1 ELSE 0
      /\ \A i \in 1 .. Len(q) - (n + 1) + 1 : SubSeq(q, n + 1, Len(q))[i] = q[n + 1 + i - 1]
  BY <1>1, SubSeqProperties
<1> DEFINE r == SubSeq(q, n + 1, Len(q))
<1> HIDE DEF r
<1>3. r \in Seq(Nat) /\ Len(r) = Len(q) - n
  BY <1>2 DEF r
<1>4. \A i \in 1..(Len(q) - n) : r[i] = q[n + i]
  BY <1>2 DEF r
<1> QED BY <1>3, <1>4 DEF r

(* A page takes the first packets of a stream that has none.               *)
Taken(n) ==
    /\ n \in [Stream -> Nat]
    /\ \A s \in Stream : /\ n[s] <= Len(packets[s])
                         /\ page[s] # NoPage \/ s \in fin => n[s] = 0
    /\ page' = [s \in Stream |-> IF n[s] = 0 THEN page[s] ELSE PageOf(s, n[s])]
    /\ packets' = [s \in Stream |-> SubSeq(packets[s], n[s] + 1, Len(packets[s]))]

LEMMA PagesTake ==
    ASSUME OrderInv, FlushPages
    PROVE  \E n : Taken(n)
<1>1. PICK n \in [Stream -> 0..Most] :
         /\ \A s \in Stream : n[s] <= Len(packets[s]) /\ (page[s] # NoPage => n[s] = 0)
         /\ page' = [s \in Stream |-> IF n[s] = 0 THEN page[s] ELSE PageOf(s, n[s])]
         /\ packets' = [s \in Stream |-> SubSeq(packets[s], n[s] + 1, Len(packets[s]))]
  BY DEF FlushPages
<1>2. n \in [Stream -> Nat]
  BY EncodeAssumption DEF Most
<1>3. fin = Stream \ Streams /\ \A s \in fin : nosound /\ s = "vs"
  BY DEF FlushPages, Go, OrderInv, FinishedLate, Streams
<1>4. \A s \in fin : n[s] = 0
  BY <1>1, <1>2, <1>3 DEF OrderInv, Silent
<1> QED BY <1>1, <1>2, <1>4 DEF Taken

LEMMA RestTakes ==
    ASSUME OrderInv, NEW s \in Stream, FlushRest(s), ~UNCHANGED <<packets, page>>
    PROVE  \E n : Taken(n)
<1>1. s \notin fin /\ page[s] = NoPage /\ packets[s] # <<>>
  BY DEF FlushRest
<1>2. PICK k \in 1..Len(packets[s]) :
         /\ page' = [page EXCEPT ![s] = PageOf(s, k)]
         /\ packets' = [packets EXCEPT ![s] = SubSeq(@, k + 1, Len(@))]
  BY <1>1 DEF FlushRest
<1> DEFINE n == [t \in Stream |-> IF t = s THEN k ELSE 0]
<1>3. \A t \in Stream : /\ packets[t] \in Seq(Nat) /\ Len(packets[t]) \in Nat
                        /\ SubSeq(packets[t], 1, Len(packets[t])) = packets[t]
  BY DEF OrderInv, DataInv, DataTypes
<1>4. n \in [Stream -> Nat] /\ \A t \in Stream : n[t] <= Len(packets[t])
  BY <1>2, <1>3
<1>5. \A t \in Stream : page[t] # NoPage \/ t \in fin => n[t] = 0
  BY <1>1
<1>6. page' = [t \in Stream |-> IF n[t] = 0 THEN page[t] ELSE PageOf(t, n[t])]
  <2>1. page \in [Stream -> [last : Nat, eos : BOOLEAN]]
    BY DEF OrderInv, DataInv, DataTypes
  <2>2. n[s] # 0 /\ n[s] = k /\ \A t \in Stream \ {s} : n[t] = 0
    OBVIOUS
  <2> QED BY <1>2, <2>1, <2>2
<1>7. packets' = [t \in Stream |-> SubSeq(packets[t], n[t] + 1, Len(packets[t]))]
  <2>1. packets \in [Stream -> Seq(Nat)]
    BY DEF OrderInv, DataInv, DataTypes
  <2>2. \A t \in Stream \ {s} : /\ n[t] + 1 = 1
                                 /\ SubSeq(packets[t], n[t] + 1, Len(packets[t])) = packets[t]
    BY <1>3
  <2> QED BY <1>2, <2>1, <2>2
<1>8. Taken(n)
  BY <1>4, <1>5, <1>6, <1>7 DEF Taken
<1> QED BY <1>8

LEMMA PageKeepsOrder ==
    ASSUME DataInv, NEW n, Taken(n), UNCHANGED <<encoded, e_o_s, fin, file>>
    PROVE  DataInv'
<1>1. ASSUME NEW s \in Stream
      PROVE  /\ n[s] \in 0..Len(packets[s]) /\ packets[s] \in Seq(Nat)
             /\ packets'[s] \in Seq(Nat)
             /\ DOMAIN packets'[s] = 1..(Len(packets[s]) - n[s])
             /\ \A i \in DOMAIN packets'[s] : /\ packets'[s][i] = packets[s][n[s] + i]
                                              /\ n[s] + i \in DOMAIN packets[s]
             /\ Clock(s)' = Clock(s)
  <2>1. /\ n[s] \in 0..Len(packets[s]) /\ packets[s] \in Seq(Nat)
        /\ packets'[s] = SubSeq(packets[s], n[s] + 1, Len(packets[s]))
    <3>1. packets[s] \in Seq(Nat) /\ n[s] \in Nat /\ n[s] <= Len(packets[s])
      BY DEF Taken, DataInv, DataTypes
    <3>2. packets'[s] = SubSeq(packets[s], n[s] + 1, Len(packets[s]))
      BY DEF Taken
    <3>3. Len(packets[s]) \in Nat
      BY <3>1
    <3> QED BY <3>1, <3>2, <3>3
  <2> DEFINE q == packets[s]
             k == n[s]
             r == packets'[s]
  <2> HIDE DEF q, k, r
  <2>2. q \in Seq(Nat) /\ k \in 0..Len(q) /\ r = SubSeq(q, k + 1, Len(q))
    BY <2>1 DEF q, k, r
  <2>3. /\ r \in Seq(Nat) /\ DOMAIN r = 1..(Len(q) - k)
        /\ \A i \in 1..(Len(q) - k) : r[i] = q[k + i]
    BY <2>2, Rest
  <2>4. \A i \in DOMAIN r : r[i] = q[k + i] /\ k + i \in DOMAIN q
    BY <2>2, <2>3
  <2>5. Clock(s)' = Clock(s)
    BY DEF Clock, Duration
  <2> QED BY <2>2, <2>3, <2>4, <2>5 DEF q, k, r
<1>2. ASSUME NEW s \in Stream, n[s] = 0
      PROVE  page'[s] = page[s]
  BY <1>2 DEF Taken
<1>3. ASSUME NEW s \in Stream, n[s] # 0
      PROVE  /\ page'[s] \in [last : Nat, eos : BOOLEAN]
             /\ page'[s].last = packets[s][n[s]] /\ n[s] \in DOMAIN packets[s]
             /\ page[s] = NoPage /\ s \notin fin
  <2> DEFINE q == packets[s]
             k == n[s]
  <2>a. q \in Seq(Nat) /\ k \in 0..Len(q) /\ k # 0
    BY <1>1, <1>3
  <2> HIDE DEF q, k
  <2>b. k \in DOMAIN q /\ q[k] \in Nat
    BY <2>a
  <2>1. n[s] \in DOMAIN packets[s] /\ packets[s][n[s]] \in Nat
    BY <2>b DEF q, k
  <2>2. page'[s] = PageOf(s, n[s]) /\ page[s] = NoPage /\ s \notin fin /\ e_o_s[s] \in BOOLEAN
    BY <1>3 DEF Taken, DataInv, DataTypes
  <2> QED BY <2>1, <2>2 DEF PageOf
<1>4. DataTypes'
  <2>1. page' \in [Stream -> [last : Nat, eos : BOOLEAN]]
    BY <1>2, <1>3 DEF Taken, DataInv, DataTypes
  <2>2. packets' \in [Stream -> Seq(Nat)]
    <3>1. \A s \in Stream : packets'[s] \in Seq(Nat)
      BY <1>1
    <3>2. packets' = [s \in Stream |-> SubSeq(packets[s], n[s] + 1, Len(packets[s]))]
      BY DEF Taken
    <3>3. packets' = [s \in Stream |-> packets'[s]]
      BY <3>2
    <3> DEFINE S == Seq(Nat)
    <3> HIDE DEF Stream, S
    <3>4. ASSUME NEW p, p = [s \in Stream |-> p[s]], \A s \in Stream : p[s] \in S
          PROVE  p \in [Stream -> S]
      BY <3>4
    <3> QED  BY <3>1, <3>3, <3>4 DEF S
  <2> QED BY <2>1, <2>2 DEF DataInv, DataTypes
<1>5. ASSUME NEW s \in Stream PROVE StreamInOrder(s)'
  <2>1. StreamInOrder(s) /\ packets[s] \in Seq(Nat) /\ Clock(s) \in Int
    <3>1. StreamInOrder(s) /\ packets[s] \in Seq(Nat) /\ encoded[s] \in Nat
      BY DEF DataInv, DataTypes
    <3>2. Duration(s) \in Nat
      BY DurationPositive
    <3> QED  BY <3>1, <3>2 DEF Clock
  <2>2. \A i \in DOMAIN packets'[s] : 0 < packets'[s][i] /\ packets'[s][i] <= Clock(s)'
    BY <2>1, <1>1 DEF StreamInOrder
  <2>3. ASSUME NEW i \in DOMAIN packets'[s], NEW j \in DOMAIN packets'[s], i < j
        PROVE  packets'[s][i] <= packets'[s][j]
    <3>1. /\ packets'[s][i] = packets[s][n[s] + i] /\ n[s] + i \in DOMAIN packets[s]
          /\ packets'[s][j] = packets[s][n[s] + j] /\ n[s] + j \in DOMAIN packets[s]
      BY <1>1
    <3>2. n[s] + i < n[s] + j
      <4> DEFINE d == DOMAIN packets'[s]
                 k == n[s]
                 l == Len(packets[s])
      <4>1. k \in 0..l /\ packets[s] \in Seq(Nat) /\ d = 1..(l - k) /\ i \in d /\ j \in d
        BY <1>1
      <4>2. l \in Nat
        BY <4>1
      <4> HIDE DEF d, k, l
      <4>3. k \in Int /\ i \in Int /\ j \in Int
        BY <4>1, <4>2
      <4>4. k + i < k + j
        BY <4>3, <2>3
      <4> QED BY <4>4 DEF k
    <3> QED BY <2>1, <3>1, <3>2 DEF StreamInOrder
  <2>4. page'[s] # NoPage => /\ page'[s].last <= Clock(s)'
                             /\ \A j \in DOMAIN packets'[s] : page'[s].last <= packets'[s][j]
    <3>1. CASE n[s] = 0
      BY <3>1, <2>1, <1>1, <1>2 DEF StreamInOrder
    <3>2. CASE n[s] # 0
      <4>1. \A j \in DOMAIN packets'[s] : n[s] < n[s] + j
        BY <1>1, <3>2
      <4> QED BY <3>2, <4>1, <2>1, <1>1, <1>3 DEF StreamInOrder
    <3> QED BY <3>1, <3>2
  <2> QED BY <2>2, <2>3, <2>4 DEF StreamInOrder
<1>6. RestAfterFile'
  <2> SUFFICES ASSUME NEW s \in Stream \ fin, NEW i \in DOMAIN file
               PROVE  NotBefore(s, file[i].last)'
    BY DEF RestAfterFile
  <2>1. NotBefore(s, file[i].last)
    BY DEF DataInv, RestAfterFile
  <2>2. CASE n[s] = 0
    BY <2>1, <2>2, <1>1, <1>2 DEF NotBefore
  <2>3. CASE n[s] # 0
    BY <2>1, <2>3, <1>1, <1>3 DEF NotBefore
  <2> QED BY <2>2, <2>3
<1>7. FinishedGone'
  BY <1>2 DEF Taken, DataInv, DataTypes, FinishedGone
<1>8. PagesInOrder'
  BY DEF DataInv, PagesInOrder
<1> QED BY <1>4, <1>5, <1>6, <1>7, <1>8 DEF DataInv

(* The earlier of the two pages is written, and no stream that goes on is  *)
(* without one.                                                            *)
LEMMA FirstIsEarliest ==
    ASSUME DataInv, fin # Stream, ~(\E s \in Stream : page[s] = NoPage /\ s \notin fin)
    PROVE  /\ First \in Stream \ fin /\ page[First] # NoPage
           /\ \A s \in Stream \ fin : page[s] # NoPage /\ page[First].last <= page[s].last
<1>1. page["ts"].last \in Nat /\ page["vs"].last \in Nat
  BY DEF DataInv, DataTypes
<1>2. \A s \in Stream : page[s] = NoPage <=> s \in fin
  BY DEF DataInv, FinishedGone
<1>3. CASE "vs" \in fin
  <2>1. "ts" \notin fin
    BY <1>3 DEF DataInv, DataTypes
  <2> QED BY <1>1, <1>2, <1>3, <2>1 DEF First
<1>4. CASE "vs" \notin fin /\ "ts" \in fin
  BY <1>1, <1>2, <1>4 DEF First
<1>5. CASE "vs" \notin fin /\ "ts" \notin fin
  BY <1>1, <1>2, <1>5 DEF First
<1> QED BY <1>3, <1>4, <1>5

LEMMA WriteKeepsOrder ==
    ASSUME DataInv, fin # Stream, FlushWrite
    PROVE  DataInv'
<1>1. CASE \E s \in Stream : page[s] = NoPage /\ s \notin fin
  <2>1. UNCHANGED <<page, fin, file, packets, e_o_s, encoded>>
    BY <1>1 DEF FlushWrite, streamVars
  <2> QED BY <2>1 DEF DataInv, DataTypes, StreamInOrder, RestAfterFile, NotBefore, FinishedGone,
                      PagesInOrder, Clock, Duration
<1>2. CASE ~(\E s \in Stream : page[s] = NoPage /\ s \notin fin)
  <2> DEFINE f == First
             written == [stream |-> f, last |-> page[f].last, eos |-> page[f].eos]
  <2>1. /\ f \in Stream \ fin /\ page[f] # NoPage
        /\ \A s \in Stream \ fin : page[s] # NoPage /\ page[f].last <= page[s].last
    BY <1>2, FirstIsEarliest
  <2>2. /\ file' = Append(file, written)
        /\ page' = [page EXCEPT ![f] = NoPage]
        /\ fin \subseteq fin' /\ fin' \subseteq fin \cup {f}
        /\ UNCHANGED <<packets, e_o_s, encoded>>
    BY <1>2 DEF FlushWrite, streamVars
  <2> HIDE DEF f
  <2>3. /\ page \in [Stream -> [last : Nat, eos : BOOLEAN]]
        /\ file \in Seq([stream : Stream, last : Nat, eos : BOOLEAN])
        /\ written \in [stream : Stream, last : Nat, eos : BOOLEAN]
        /\ written.last = page[f].last /\ NoPage \in [last : Nat, eos : BOOLEAN]
    BY <2>1 DEF DataInv, DataTypes, NoPage
  <2> HIDE DEF written
  <2>4. /\ DOMAIN file' = 1..(Len(file) + 1) /\ DOMAIN file = 1..Len(file) /\ Len(file) \in Nat
        /\ \A i \in 1..Len(file) : file'[i] = file[i]
        /\ file'[Len(file) + 1] = written
    BY <2>2, <2>3
  <2>5. \A s \in Stream : Clock(s)' = Clock(s) /\ Clock(s) \in Nat
    BY <2>2, DurationPositive DEF Clock, Duration, DataInv, DataTypes
  <2>6. DataTypes'
    BY <2>1, <2>2, <2>3 DEF DataInv, DataTypes
  <2>7. \A s \in Stream : StreamInOrder(s)'
    BY <2>1, <2>2, <2>3, <2>5 DEF DataInv, StreamInOrder
  <2>8. RestAfterFile'
    <3> SUFFICES ASSUME NEW s \in Stream \ fin, NEW i \in DOMAIN file'
                 PROVE  NotBefore(s, file[i].last)'
      BY <2>2 DEF RestAfterFile, DataInv, DataTypes
    <3>1. page'[s] # NoPage => page'[s] = page[s]
      BY <2>2, <2>3
    <3>2. CASE i \in 1..Len(file)
      <4>1. NotBefore(s, file[i].last)
        BY <3>2, <2>4 DEF DataInv, RestAfterFile
      <4>2. file'[i] = file[i] /\ packets' = packets /\ Clock(s)' = Clock(s)
        BY <3>2, <2>2, <2>4, <2>5
      <4> QED BY <3>1, <4>1, <4>2 DEF NotBefore
    <3>3. CASE i = Len(file) + 1
      <4>1. /\ page[f].last <= page[s].last /\ page[s] # NoPage
            /\ page[s].last \in Nat /\ page[f].last \in Nat
        BY <2>1, <2>3
      <4>2. /\ page[s].last <= Clock(s) /\ packets[s] \in Seq(Nat)
            /\ \A j \in DOMAIN packets[s] : page[s].last <= packets[s][j]
        BY <4>1 DEF DataInv, DataTypes, StreamInOrder
      <4>3. \A j \in DOMAIN packets[s] : packets[s][j] \in Nat
        BY <4>2, Element
      <4>4. file'[i].last = page[f].last /\ packets' = packets /\ Clock(s)' = Clock(s)
        BY <3>3, <2>2, <2>3, <2>4, <2>5
      <4>5. page[f].last <= Clock(s) /\ \A j \in DOMAIN packets[s] : page[f].last <= packets[s][j]
        BY <4>1, <4>2, <4>3, <2>5
      <4> QED BY <3>1, <4>1, <4>4, <4>5 DEF NotBefore
    <3> QED BY <3>2, <3>3, <2>4
  <2>9. FinishedGone'
    BY <2>1, <2>2, <2>3 DEF DataInv, DataTypes, FinishedGone
  <2>10. PagesInOrder'
    <3>1. \A i \in 1..Len(file) : file[i].last <= page[f].last
      BY <2>1, <2>4 DEF DataInv, RestAfterFile, NotBefore
    <3>2. \A i \in 1..Len(file) : \A j \in 1..i : file[j].last <= file[i].last
      BY <2>4 DEF DataInv, PagesInOrder
    <3>3. page[f].last \in Nat
      BY <2>1, <2>3
    <3> SUFFICES ASSUME NEW i \in DOMAIN file', NEW j \in 1..i
                 PROVE  file'[j].last <= file'[i].last
      BY DEF PagesInOrder
    <3>4. CASE i \in 1..Len(file)
      <4>1. j \in 1..Len(file)
        BY <3>4, <2>4
      <4> QED BY <3>2, <3>4, <4>1, <2>4
    <3>5. CASE i = Len(file) + 1 /\ j \in 1..Len(file)
      BY <3>1, <3>5, <2>3, <2>4
    <3>6. CASE i = Len(file) + 1 /\ j = Len(file) + 1
      BY <3>3, <3>6, <2>3, <2>4
    <3> QED BY <3>4, <3>5, <3>6, <2>4
  <2> QED BY <2>6, <2>7, <2>8, <2>9, <2>10 DEF DataInv
<1> QED BY <1>1, <1>2

LEMMA OrderInit == Init => OrderInv
<1> SUFFICES ASSUME Init PROVE OrderInv
    OBVIOUS
<1>1. Types
  BY ExclusiveInit DEF ExclusiveInv
<1>2. pc["flush"] = "top" /\ pc["loader"] \in {"loop", "done"} /\ (nosound => pc["audio"] = "done")
  BY <1>1 DEF Init
<1>3. FinishedLate /\ Silent
  BY <1>2 DEF Init, FinishedLate, Silent, Streams
<1>4. DataTypes /\ FinishedGone /\ PagesInOrder /\ RestAfterFile
  BY DEF Init, DataTypes, FinishedGone, PagesInOrder, RestAfterFile, NoPage
<1>5. \A s \in Stream : StreamInOrder(s)
  BY DEF Init, StreamInOrder
<1> QED BY <1>1, <1>3, <1>4, <1>5 DEF OrderInv, DataInv, Init

(* Steps of the threads that encode change where these are, and pack.      *)
LEMMA OrderNext == OrderInv /\ ExclusiveInv /\ [Next]_vars => OrderInv'
<1> SUFFICES ASSUME OrderInv, ExclusiveInv, [Next]_vars PROVE OrderInv'
    OBVIOUS
<1>1. Types'
  BY ExclusiveNext DEF ExclusiveInv
<1>a. ASSUME UNCHANGED <<encoded, packets, e_o_s, page, file, fin>> PROVE DataInv'
  BY <1>a DEF OrderInv, DataInv, DataTypes, StreamInOrder, RestAfterFile, NotBefore, FinishedGone,
              PagesInOrder, Clock, Duration
<1> USE DEF OrderInv
<1>2. ASSUME NEW t \in {"video", "audio"}, Encoder(t) PROVE OrderInv'
  <2>1. CASE EncoderPacket(t)
    <3>1. DataInv'
      BY <2>1, PacketKeepsOrder DEF EncoderPacket, flushVars, Of, DataInv, DataTypes
    <3>2. Silent'
      BY <2>1 DEF EncoderPacket, Go, Silent, PacketIn, Of, DataInv, DataTypes
    <3> QED BY <1>1, <2>1, <3>1, <3>2 DEF EncoderPacket, Go, flushVars, FinishedLate, Streams
  <2>2. CASE EncoderStart(t) \/ EncoderLoop(t) \/ EncoderWait(t) \/ EncoderFinish(t)
    <3>1. /\ UNCHANGED <<mode, nosound, running, streamVars, flushVars>>
          /\ \A u \in Thread \ {t} : pc'[u] = pc[u]
          /\ pc[t] # "done"
      BY <2>2 DEF EncoderStart, EncoderLoop, EncoderWait, EncoderFinish, Go
    <3>2. FinishedLate' /\ Silent'
      BY <3>1 DEF FinishedLate, Silent, streamVars, flushVars, Streams
    <3> QED BY <1>1, <1>a, <3>1, <3>2 DEF streamVars, flushVars
  <2> QED BY <1>2, <2>1, <2>2 DEF Encoder
<1>3. CASE Loader
  <2>1. CASE LoaderFrame
    <3>1. DataInv'
      BY <2>1, PacketKeepsOrder DEF LoaderFrame, rmdSyncEncodeImageBuffer, flushVars, DataInv, DataTypes
    <3>2. Silent'
      BY <2>1 DEF LoaderFrame, rmdSyncEncodeImageBuffer, Go, Silent, PacketIn, DataInv, DataTypes
    <3> QED BY <1>1, <2>1, <3>1, <3>2 DEF LoaderFrame, Go, flushVars, FinishedLate, Streams
  <2>2. CASE LoaderPeriod
    <3>1. DataInv'
      BY <2>2, PacketKeepsOrder DEF LoaderPeriod, flushVars, DataInv, DataTypes
    <3>2. Silent'
      BY <2>2 DEF LoaderPeriod, Go, Silent
    <3> QED BY <1>1, <2>2, <3>1, <3>2 DEF LoaderPeriod, Go, flushVars, FinishedLate, Streams
  <2>3. CASE LoaderClose
    <3>1. DataInv'
      BY <2>3 DEF LoaderClose, flushVars, DataInv, DataTypes, StreamInOrder, RestAfterFile, NotBefore,
                  FinishedGone, PagesInOrder, Clock, Duration
    <3>2. Silent'
      BY <2>3 DEF LoaderClose, Go, Silent
    <3> QED BY <1>1, <2>3, <3>1, <3>2 DEF LoaderClose, Go, flushVars, FinishedLate, Streams
  <2>4. CASE LoaderLoop
    <3>1. /\ UNCHANGED <<mode, nosound, streamVars, flushVars>>
          /\ running' => running
          /\ \A u \in Thread \ {"loader"} : pc'[u] = pc[u]
          /\ nosound => pc'["loader"] \notin {"encodeVs", "closeVs"}
      BY <2>4 DEF LoaderLoop, Go, At, VideoTurn
    <3>2. FinishedLate' /\ Silent'
      BY <3>1 DEF FinishedLate, Silent, streamVars, flushVars, Streams
    <3> QED BY <1>1, <1>a, <3>1, <3>2 DEF streamVars, flushVars
  <2>5. CASE LoaderFinish
    BY <1>1, <1>a, <2>5 DEF LoaderFinish, Go, FinishedLate, Silent, streamVars, flushVars, Streams
  <2> QED BY <1>3, <2>1, <2>2, <2>3, <2>4, <2>5 DEF Loader
<1>4. CASE Flush
  <2>1. CASE FlushTop
    BY <1>1, <1>a, <2>1 DEF FlushTop, At, FinishedLate, Silent, streamVars, flushVars, Streams
  <2>2. CASE FlushPages
    <3>1. PICK n : Taken(n)
      BY <2>2, PagesTake
    <3>2. DataInv'
      BY <2>2, <3>1, PageKeepsOrder DEF FlushPages
    <3>3. Silent'
      BY <2>2, <3>1, Rest DEF Taken, FlushPages, Go, Silent
    <3> QED BY <1>1, <2>2, <3>2, <3>3 DEF FlushPages, Go, FinishedLate, Streams
  <2>3. CASE FlushWrite
    <3>1. fin # Stream
      BY <2>3 DEF FlushWrite, Go, FinishedLate
    <3>2. DataInv'
      BY <2>3, <3>1, WriteKeepsOrder
    <3>3. FinishedLate' /\ Silent'
      BY <2>3 DEF FlushWrite, Go, FinishedLate, Silent, streamVars, Streams
    <3> QED BY <1>1, <2>3, <3>2, <3>3 DEF FlushWrite
  <2>4. ASSUME NEW s \in Stream, FlushRest(s) PROVE OrderInv'
    <3>1. CASE UNCHANGED <<packets, page>>
      BY <1>1, <1>a, <2>4, <3>1 DEF FlushRest, Go, At, After, WaitFor, FinishedLate, Silent, Streams
    <3>2. CASE ~UNCHANGED <<packets, page>>
      <4>1. /\ s \notin fin /\ page[s] = NoPage /\ packets[s] # <<>> /\ Go("flush", s, After(s))
            /\ UNCHANGED <<encoded, e_o_s, fin, file, nosound, running>>
        BY <2>4, <3>2 DEF FlushRest
      <4>2. PICK n : Taken(n)
        BY <2>4, <3>2, RestTakes
      <4>3. DataInv'
        BY <4>1, <4>2, PageKeepsOrder
      <4>4. Silent'
        BY <4>1, <4>2, Rest DEF Taken, Silent, FinishedLate, Go, DataInv, DataTypes
      <4>5. FinishedLate'
        BY <4>1 DEF FinishedLate, Go, After, Streams
      <4> QED BY <1>1, <4>1, <4>3, <4>4, <4>5
    <3> QED BY <3>1, <3>2
  <2>5. ASSUME NEW s \in Stream, FlushWait(s) PROVE OrderInv'
    BY <1>1, <1>a, <2>5 DEF FlushWait, Go, WaitFor, LastOf, FinishedLate, Silent, streamVars, flushVars,
                            Streams
  <2>6. ASSUME NEW s \in Stream, FlushLast(s) PROVE OrderInv'
    <3>1. /\ PacketIn(s) /\ e_o_s' \in [Stream -> BOOLEAN]
          /\ UNCHANGED <<nosound, running, page, fin, file>> /\ Go("flush", LastOf(s), After(s))
      <4>1. CASE s = "ts"
        BY <2>6, <4>1 DEF FlushLast, rmdSyncEncodeImageBuffer, flushVars, DataInv, DataTypes
      <4>2. CASE s = "vs"
        BY <2>6, <4>2 DEF FlushLast, flushVars, DataInv, DataTypes
      <4> QED BY <4>1, <4>2
    <3>2. DataInv'
      BY <3>1, PacketKeepsOrder
    <3>3. Silent' /\ FinishedLate'
      BY <3>1 DEF Go, LastOf, After, Silent, FinishedLate, PacketIn, DataInv, DataTypes, Streams
    <3> QED BY <1>1, <3>1, <3>2, <3>3
  <2> QED BY <1>4, <2>1, <2>2, <2>3, <2>4, <2>5, <2>6 DEF Flush
<1>5. CASE MainJoin
  BY <1>1, <1>a, <1>5 DEF MainJoin, Go, FinishedLate, Silent, streamVars, flushVars, Streams
<1>6. CASE Interrupt
  BY <1>1, <1>a, <1>6 DEF Interrupt, FinishedLate, Silent, streamVars, flushVars, Streams
<1>7. CASE UNCHANGED vars
  BY <1>1, <1>a, <1>7 DEF vars, FinishedLate, Silent, streamVars, flushVars, Streams
<1> QED BY <1>2, <1>3, <1>4, <1>5, <1>6, <1>7 DEF Next

(* The inductive invariant of what is encoded, paged and written.          *)
THEOREM StreamsInOrder == Spec => []OrderInv
BY OrderInit, OrderNext, ThreadsInPlace, PTL DEF Spec

(* The pages of the file are in the order of the times at which they end,  *)
(* whatever the durations and the pace of the threads                      *)
(* (rmd_flush_to_ogg.c:170-223).                                           *)
THEOREM FilePagesInOrder == Spec => []PagesInOrder
BY StreamsInOrder, PTL DEF OrderInv, DataInv

-----------------------------------------------------------------------------
(***************************************************************************)
(* The file is right as far as it is written: pages of no more packets     *)
(* than there should be, in order; and both streams are closed in it when  *)
(* the flusher has ended.                                                  *)
(*                                                                         *)
(* How much is encoded.  Each stream gets what the recording or the cache  *)
(* had, a frame that is repeated when the recording stops, and one last    *)
(* packet: once that is made the stream has packets, or the page that      *)
(* closes it, or is finished, so that rmdFlushToOgg does not come back.    *)
(***************************************************************************)
Total(s) == IF s = "ts" THEN MaxFrames ELSE MaxPeriods
Extra(s) == encoded[s] + left[s] - Total(s)
Again(s) == IF s = "ts" /\ ~running /\ pc["video"] \in {"loop", "finish", "done"} THEN 1 ELSE 0
Closed(s) == packets[s] # <<>> \/ page[s].eos \/ s \in fin
MakesLast(s) == pc["flush"] = WaitFor(s) \/ pc["flush"] = LastOf(s)

CountTypes ==
    /\ mode \in Modes /\ audio_end \in BOOLEAN /\ avd \in Int
    /\ left \in [Stream -> Nat] /\ \A s \in Stream : left[s] <= Total(s)
    /\ \A s \in Stream : Len(packets[s]) <= encoded[s]
InHand ==
    /\ pc["audio"] = "encode" => left["vs"] > 0
    /\ pc["loader"] = "encodeTs" => left["ts"] > 0
    /\ pc["loader"] = "encodeVs" => left["vs"] > 0
    /\ pc["video"] = "encode" /\ left["ts"] = 0 => ~running
EndLate == \A s \in Stream : e_o_s[s] => ~running
OneLast(s) ==
    /\ Extra(s) <= Again(s) + 1
    /\ Extra(s) > Again(s) => e_o_s[s] /\ Closed(s)
    /\ MakesLast(s) => Extra(s) <= Again(s)

CountInv == CountTypes /\ InHand /\ EndLate /\ \A s \in Stream : OneLast(s)

LEMMA CountEnough == OrderInv /\ CountInv => FileRight
<1> SUFFICES ASSUME OrderInv, CountInv PROVE FileRight
    OBVIOUS
<1>1. MaxFrames \in Nat /\ MaxPeriods \in Nat
  BY EncodeAssumption
<1>2. encoded["ts"] \in 0..(MaxFrames + 2) /\ encoded["vs"] \in 0..(MaxPeriods + 1)
  <2>1. /\ encoded["ts"] \in Nat /\ encoded["vs"] \in Nat
        /\ left["ts"] \in Nat /\ left["vs"] \in Nat
    BY DEF OrderInv, DataInv, DataTypes, CountInv, CountTypes
  <2>2. Extra("ts") <= Again("ts") + 1 /\ Extra("vs") <= Again("vs") + 1
    BY DEF CountInv, OneLast
  <2> QED BY <1>1, <2>1, <2>2 DEF Extra, Again, Total
<1>3. left["ts"] \in 0..MaxFrames /\ left["vs"] \in 0..MaxPeriods
  BY <1>1 DEF CountInv, CountTypes, Total
<1>4. TypeOK
  BY <1>2, <1>3 DEF TypeOK, OrderInv, DataInv, DataTypes, CountInv, CountTypes
<1> QED BY <1>4 DEF FileRight, OrderInv, DataInv

LEMMA CountInit == Init => CountInv
<1> SUFFICES ASSUME Init PROVE CountInv
    OBVIOUS
<1>1. /\ MaxFrames \in Nat /\ MaxPeriods \in Nat
      /\ \A s \in Stream : encoded[s] = 0 /\ left[s] = Total(s) /\ packets[s] = <<>> /\ e_o_s[s] = FALSE
  BY EncodeAssumption DEF Init, Total
<1>2. CountTypes /\ EndLate
  <2>1. left \in [Stream -> Nat]
    BY <1>1 DEF Init
  <2>5. mode \in Modes /\ audio_end \in BOOLEAN
    BY DEF Init
  <2>6. avd \in Int
    BY DEF Init
  <2>2. \A s \in Stream : Len(packets[s]) <= encoded[s]
    BY <1>1
  <2>3. \A s \in Stream : left[s] <= Total(s)
    BY <1>1 DEF Total
  <2>4. EndLate
    BY <1>1 DEF EndLate
  <2> QED BY <2>1, <2>2, <2>3, <2>4, <2>5, <2>6 DEF CountTypes
<1>3. /\ pc["audio"] \in {"start", "done"} /\ pc["video"] \in {"start", "done"}
      /\ pc["loader"] \in {"loop", "done"} /\ pc["flush"] = "top" /\ running = TRUE
  BY EncodeAssumption DEF Init
<1>4. InHand
  BY <1>3 DEF InHand
<1>5. \A s \in Stream : Extra(s) = 0 /\ Again(s) = 0
  BY <1>1, <1>3 DEF Extra, Again, Total
<1>6. \A s \in Stream : OneLast(s)
  BY <1>5 DEF OneLast
<1> QED BY <1>2, <1>4, <1>6 DEF CountInv

(* A step that moves threads only.                                         *)
LEMMA MoveKeepsCount ==
    ASSUME CountInv, DataInv, UNCHANGED <<mode, encoded, packets, left, page, fin>>,
           avd' \in Int, audio_end' \in BOOLEAN, running' => running,
           \A s \in Stream : /\ Again(s) <= Again(s)'
                             /\ MakesLast(s)' => MakesLast(s) \/ ~Closed(s)
                             /\ e_o_s[s] => e_o_s'[s]
                             /\ e_o_s'[s] => e_o_s[s] \/ ~running',
           InHand'
    PROVE  CountInv'
<1>1. CountTypes' /\ EndLate'
  BY DEF CountInv, CountTypes, EndLate, Total
<1>2. ASSUME NEW s \in Stream PROVE OneLast(s)'
  <2>1. /\ Again(s) \in Int /\ Again(s)' \in Int /\ Extra(s)' = Extra(s) /\ Closed(s)' = Closed(s)
        /\ Again(s) <= Again(s)' /\ (MakesLast(s)' => MakesLast(s) \/ ~Closed(s))
        /\ e_o_s[s] => e_o_s'[s]
    BY DEF Again, Extra, Closed, Total
  <2>2. Extra(s) \in Int
    BY EncodeAssumption DEF Extra, Total, DataInv, DataTypes, CountInv, CountTypes
  <2> QED BY <2>1, <2>2 DEF CountInv, OneLast
<1> QED BY <1>1, <1>2 DEF CountInv

(* What a packet changes in its stream; the others keep theirs.            *)
LEMMA PacketMade ==
    ASSUME DataInv, NEW s \in Stream, PacketIn(s)
    PROVE  /\ encoded'[s] = encoded[s] + 1 /\ \A t \in Stream \ {s} : encoded'[t] = encoded[t]
           /\ Len(packets'[s]) = Len(packets[s]) + 1 /\ Len(packets[s]) \in Nat /\ packets'[s] # <<>>
           /\ packets'[s][Len(packets'[s])] = encoded'[s] * Duration(s)
           /\ \A t \in Stream \ {s} : packets'[t] = packets[t]
<1>1. encoded \in [Stream -> Nat] /\ packets \in [Stream -> Seq(Nat)] /\ Duration(s) \in Nat
  BY DurationPositive DEF DataInv, DataTypes
<1>2. /\ encoded' = [encoded EXCEPT ![s] = @ + 1]
      /\ packets' = [packets EXCEPT ![s] = Append(@, encoded'[s] * Duration(s))]
  BY DEF PacketIn
<1>3. encoded'[s] = encoded[s] + 1 /\ encoded'[s] \in Nat
  BY <1>1, <1>2
<1>4. \A t \in Stream \ {s} : encoded'[t] = encoded[t] /\ packets'[t] = packets[t]
  BY <1>1, <1>2
<1> DEFINE q == packets[s]
           r == packets'[s]
           time == encoded'[s] * Duration(s)
<1>5. time \in Nat
  BY <1>1, <1>3
<1> HIDE DEF time
<1>6. r = Append(q, time)
  BY <1>1, <1>2 DEF time
<1>7. q \in Seq(Nat)
  BY <1>1
<1> HIDE DEF q, r
<1>8. Len(r) = Len(q) + 1 /\ Len(q) \in Nat /\ r # <<>> /\ r[Len(q) + 1] = time
  BY <1>5, <1>6, <1>7, AppendProperties
<1>9. r[Len(r)] = time
  BY <1>8
<1> QED BY <1>3, <1>4, <1>8, <1>9 DEF q, r, time

(* A packet of a frame or a period, of the frame repeated at the end, or   *)
(* the one that closes the stream.                                         *)
LEMMA PacketKeepsCount ==
    ASSUME CountInv, DataInv, NEW s \in Stream, PacketIn(s), UNCHANGED <<mode, running, page, fin>>,
           avd' \in Int, audio_end' \in BOOLEAN,
           left' \in [Stream -> Nat], \A t \in Stream \ {s} : left'[t] = left[t],
           \/ left'[s] = left[s] - 1
           \/ left'[s] = left[s] /\ Again(s) + 1 <= Again(s)'
           \/ left'[s] = left[s] /\ MakesLast(s) /\ ~MakesLast(s)' /\ e_o_s'[s],
           e_o_s' \in [Stream -> BOOLEAN],
           \A t \in Stream : (e_o_s[t] => e_o_s'[t]) /\ (e_o_s'[t] => e_o_s[t] \/ ~running),
           \A t \in Stream : Again(t) <= Again(t)' /\ (MakesLast(t)' => MakesLast(t)),
           InHand'
    PROVE  CountInv'
<1>1. /\ encoded \in [Stream -> Nat] /\ packets \in [Stream -> Seq(Nat)] /\ left \in [Stream -> Nat]
      /\ \A t \in Stream : Duration(t) \in Nat
  BY DurationPositive DEF DataInv, DataTypes, CountInv, CountTypes
<1>4. /\ encoded'[s] = encoded[s] + 1 /\ \A t \in Stream \ {s} : encoded'[t] = encoded[t]
      /\ Len(packets'[s]) = Len(packets[s]) + 1 /\ packets'[s] # <<>>
      /\ \A t \in Stream \ {s} : packets'[t] = packets[t]
      /\ Len(packets[s]) \in Nat
  BY PacketMade
<1>5. \A t \in Stream : left'[t] <= left[t]
  BY <1>1
<1>6. CountTypes'
  <2>1. \A t \in Stream : left[t] <= Total(t) /\ Total(t) \in Nat /\ Total(t)' = Total(t)
    BY EncodeAssumption DEF CountInv, CountTypes, Total
  <2>2. ASSUME NEW t \in Stream PROVE left'[t] <= Total(t)'
    <3>1. left'[t] \in Nat /\ left[t] \in Nat /\ left'[t] <= left[t]
      BY <1>1, <1>5
    <3>2. left[t] <= Total(t) /\ Total(t) \in Nat /\ Total(t)' = Total(t)
      BY <2>1
    <3> QED BY <3>1, <3>2
  <2>3. ASSUME NEW t \in Stream PROVE Len(packets'[t]) <= encoded'[t]
    <3>1. Len(packets[t]) <= encoded[t] /\ encoded[t] \in Nat /\ Len(packets[t]) \in Nat
      BY <1>1 DEF CountInv, CountTypes
    <3>2. CASE t = s
      BY <1>4, <3>1, <3>2
    <3>3. CASE t # s
      BY <1>4, <3>1, <3>3
    <3> QED BY <3>2, <3>3
  <2> QED BY <2>2, <2>3 DEF CountInv, CountTypes
<1>7. EndLate'
  BY DEF CountInv, EndLate
<1>8. ASSUME NEW t \in Stream PROVE OneLast(t)'
  <2>0. Extra(t) \in Int
    BY <1>1, EncodeAssumption DEF Extra, Total
  <2>1. /\ Extra(t) \in Int /\ Again(t) \in Int /\ Again(t)' \in Int
        /\ Again(t) <= Again(t)' /\ (MakesLast(t)' => MakesLast(t)) /\ (e_o_s[t] => e_o_s'[t])
    BY <2>0 DEF Again
  <2>2. Closed(t) => Closed(t)'
    BY <1>4 DEF Closed
  <2>3. CASE t # s
    <3>1. Extra(t)' = Extra(t)
      BY <2>3, <1>4 DEF Extra, Total
    <3> QED BY <2>1, <2>2, <3>1 DEF CountInv, OneLast
  <2>4. CASE t = s
    <3>1. \/ Extra(t)' = Extra(t)
          \/ Extra(t)' = Extra(t) + 1 /\ Again(t) + 1 <= Again(t)'
          \/ Extra(t)' = Extra(t) + 1 /\ MakesLast(t) /\ ~MakesLast(t)' /\ e_o_s'[t]
      <4>1. /\ encoded[t] \in Int /\ left[t] \in Int /\ Total(t) \in Int /\ Total(t)' = Total(t)
            /\ encoded'[t] = encoded[t] + 1
        BY <2>4, <1>1, <1>4, EncodeAssumption DEF Total
      <4>2. CASE left'[t] = left[t] - 1
        <5>1. Extra(t)' = (encoded[t] + 1) + (left[t] - 1) - Total(t)
          BY <4>1, <4>2 DEF Extra
        <5> QED BY <4>1, <5>1 DEF Extra
      <4>3. CASE left'[t] = left[t]
        <5>1. Extra(t)' = (encoded[t] + 1) + left[t] - Total(t)
          BY <4>1, <4>3 DEF Extra
        <5>2. Extra(t)' = Extra(t) + 1
          BY <4>1, <5>1 DEF Extra
        <5>3. t = s /\ left'[s] # left[s] - 1
          BY <2>4, <4>1, <4>3
        <5> QED BY <5>2, <5>3
      <4> QED BY <2>4, <4>2, <4>3
    <3>2. Closed(t)'
      BY <2>4, <1>4 DEF Closed
    <3> QED BY <2>1, <3>1, <3>2 DEF CountInv, OneLast
  <2> QED BY <2>3, <2>4
<1> QED BY <1>6, <1>7, <1>8 DEF CountInv

(* A page takes packets: the last of a stream that ends closes it.         *)
LEMMA PageKeepsCount ==
    ASSUME CountInv, DataInv, NEW n, Taken(n),
           UNCHANGED <<mode, running, encoded, e_o_s, fin, left, avd, audio_end>>,
           \A u \in Thread \ {"flush"} : pc'[u] = pc[u],
           \A s \in Stream : ~MakesLast(s)'
    PROVE  CountInv'
<1>1. ASSUME NEW s \in Stream
      PROVE  /\ packets[s] \in Seq(Nat) /\ n[s] \in 0..Len(packets[s]) /\ Len(packets[s]) \in Nat
             /\ packets'[s] = SubSeq(packets[s], n[s] + 1, Len(packets[s]))
             /\ page'[s] = IF n[s] = 0 THEN page[s] ELSE PageOf(s, n[s])
             /\ encoded[s] \in Nat /\ e_o_s[s] \in BOOLEAN
  <2>1. packets[s] \in Seq(Nat) /\ n[s] \in Nat /\ n[s] <= Len(packets[s])
    BY DEF Taken, DataInv, DataTypes
  <2>2. Len(packets[s]) \in Nat
    BY <2>1
  <2>3. n[s] \in 0..Len(packets[s])
    BY <2>1, <2>2
  <2>4. /\ packets'[s] = SubSeq(packets[s], n[s] + 1, Len(packets[s]))
        /\ page'[s] = IF n[s] = 0 THEN page[s] ELSE PageOf(s, n[s])
    BY DEF Taken
  <2>5. encoded[s] \in Nat /\ e_o_s[s] \in BOOLEAN
    BY DEF DataInv, DataTypes
  <2> QED BY <2>1, <2>2, <2>3, <2>4, <2>5
<1>2. ASSUME NEW s \in Stream
      PROVE  /\ Len(packets'[s]) = Len(packets[s]) - n[s]
             /\ packets'[s] \in Seq(Nat)
  <2> DEFINE q == packets[s]
             k == n[s]
             r == packets'[s]
  <2> HIDE DEF q, k, r
  <2>1. q \in Seq(Nat) /\ k \in 0..Len(q) /\ r = SubSeq(q, k + 1, Len(q))
    BY <1>1 DEF q, k, r
  <2>2. Len(r) = Len(q) - k /\ r \in Seq(Nat)
    BY <2>1, Rest
  <2> QED BY <2>2 DEF q, k, r
<1>3. CountTypes'
  <2>1. ASSUME NEW s \in Stream PROVE Len(packets'[s]) <= encoded'[s]
    <3> DEFINE k == n[s]
               l == Len(packets[s])
               l2 == Len(packets'[s])
               e == encoded[s]
    <3>1. l \in Nat /\ k \in 0..l /\ l2 = l - k /\ e \in Nat /\ l <= e /\ encoded'[s] = e
      BY <1>1, <1>2 DEF CountInv, CountTypes
    <3> HIDE DEF k, l, l2, e
    <3>2. l2 <= e
      BY <3>1
    <3> QED BY <3>1, <3>2 DEF l2
  <2> QED BY <2>1 DEF CountInv, CountTypes, Total
<1>4. InHand' /\ EndLate'
  BY DEF CountInv, InHand, EndLate
<1>5. ASSUME NEW s \in Stream PROVE OneLast(s)'
  <2>1. Extra(s)' = Extra(s) /\ Again(s)' = Again(s) /\ ~MakesLast(s)' /\ e_o_s'[s] = e_o_s[s]
    BY DEF Extra, Total, Again
  <2>2. ASSUME e_o_s[s], Closed(s) PROVE Closed(s)'
    <3>1. CASE n[s] = 0
      <4>1. Len(packets'[s]) = Len(packets[s]) /\ page'[s] = page[s]
        BY <3>1, <1>1, <1>2
      <4>2. packets[s] # <<>> => packets'[s] # <<>>
        BY <4>1, <1>1, <1>2
      <4> QED BY <2>2, <4>1, <4>2 DEF Closed
    <3>2. CASE n[s] # 0 /\ n[s] = Len(packets[s])
      <4>1. page'[s] = [last |-> packets[s][n[s]], eos |-> TRUE]
        BY <2>2, <3>2, <1>1 DEF PageOf
      <4> QED BY <4>1 DEF Closed
    <3>3. CASE n[s] < Len(packets[s])
      <4> DEFINE k == n[s]
                 l == Len(packets[s])
                 r == packets'[s]
      <4>1. l \in Nat /\ k \in 0..l /\ r \in Seq(Nat) /\ Len(r) = l - k /\ k < l
        BY <3>3, <1>1, <1>2
      <4> HIDE DEF k, l, r
      <4>2. r # <<>>
        BY <4>1
      <4> QED BY <4>2 DEF Closed, r
    <3>4. n[s] = Len(packets[s]) \/ n[s] < Len(packets[s])
      <4> DEFINE k == n[s]
                 l == Len(packets[s])
      <4>1. l \in Nat /\ k \in 0..l
        BY <1>1
      <4> HIDE DEF k, l
      <4>2. k = l \/ k < l
        BY <4>1
      <4> QED BY <4>2 DEF k, l
    <3> QED BY <3>1, <3>2, <3>3, <3>4
  <2> QED BY <2>1, <2>2 DEF CountInv, OneLast
<1> QED BY <1>3, <1>4, <1>5 DEF CountInv

(* A page that closes its stream leaves it finished.                       *)
LEMMA WriteKeepsCount ==
    ASSUME CountInv, DataInv, pc \in [Thread -> Labels], FlushWrite
    PROVE  CountInv'
<1>1. /\ UNCHANGED <<mode, running, encoded, packets, e_o_s, left, avd, audio_end>>
      /\ Go("flush", "choose", "top") /\ page \in [Stream -> [last : Nat, eos : BOOLEAN]]
      /\ encoded \in [Stream -> Nat]
  BY DEF FlushWrite, streamVars, loaderVars, DataInv, DataTypes
<1>2. CountTypes' /\ InHand' /\ EndLate'
  BY <1>1 DEF CountInv, CountTypes, InHand, EndLate, Total, Go
<1>3. \A s \in Stream : Extra(s)' = Extra(s) /\ Again(s)' = Again(s) /\ ~MakesLast(s)'
  BY <1>1 DEF Extra, Total, Again, MakesLast, Go, WaitFor, LastOf
<1>4. ASSUME NEW s \in Stream, Closed(s), ~running PROVE Closed(s)'
  <2>1. CASE UNCHANGED <<page, fin>>
    BY <1>1, <1>4, <2>1 DEF Closed
  <2>2. CASE /\ page' = [page EXCEPT ![First] = NoPage]
             /\ fin' = IF ~running /\ page[First].eos THEN fin \cup {First} ELSE fin
    <3>1. CASE s = First
      BY <1>1, <1>4, <2>2, <3>1 DEF Closed
    <3>2. CASE s # First
      BY <1>1, <1>4, <2>2, <3>2 DEF Closed
    <3> QED BY <3>1, <3>2
  <2> QED BY <2>1, <2>2 DEF FlushWrite
<1>5. ASSUME NEW s \in Stream PROVE OneLast(s)'
  BY <1>1, <1>3, <1>4 DEF CountInv, EndLate, OneLast
<1> QED BY <1>2, <1>5 DEF CountInv

(* What each step does to the packets of a stream.                         *)
LEMMA CountNext == CountInv /\ OrderInv /\ ExclusiveInv /\ [Next]_vars => CountInv'
<1> SUFFICES ASSUME CountInv, OrderInv, ExclusiveInv, [Next]_vars PROVE CountInv'
    OBVIOUS
<1>0. /\ DataInv /\ mode \in Modes /\ avd \in Int /\ audio_end \in BOOLEAN /\ InHand
      /\ pc \in [Thread -> Labels] /\ left \in [Stream -> Nat] /\ running \in BOOLEAN
      /\ e_o_s \in [Stream -> BOOLEAN] /\ frametime_us \in Int /\ periodtime_us \in Int
  BY EncodeAssumption DEF OrderInv, DataInv, DataTypes, CountInv, CountTypes
<1>1. ASSUME NEW t \in {"video", "audio"}, Encoder(t) PROVE CountInv'
  <2>1. CASE EncoderPacket(t)
    <3>1. /\ PacketIn(Of(t)) /\ Go(t, "encode", "loop")
          /\ UNCHANGED <<mode, running, page, fin, e_o_s, avd, audio_end>>
          /\ left' = [left EXCEPT ![Of(t)] = IF @ = 0 THEN 0 ELSE @ - 1]
      BY <2>1 DEF EncoderPacket, flushVars
    <3>2. Of(t) \in Stream
      BY DEF Of
    <3>3. /\ left' \in [Stream -> Nat] /\ \A u \in Stream \ {Of(t)} : left'[u] = left[u]
          /\ left[Of(t)] # 0 => left'[Of(t)] = left[Of(t)] - 1
          /\ left[Of(t)] = 0 => left'[Of(t)] = left[Of(t)]
      BY <3>1, <3>2, <1>0
    <3>4. /\ \A u \in Stream : Again(u) <= Again(u)' /\ MakesLast(u)' = MakesLast(u)
          /\ left[Of(t)] = 0 => Again(Of(t)) + 1 <= Again(Of(t))'
      BY <3>1, <1>0 DEF Again, MakesLast, InHand, Go, Of, WaitFor, LastOf
    <3>5. InHand'
      BY <3>1, <3>3, <1>0 DEF InHand, Go, Of, ExclusiveInv, ModeThreads
    <3> QED BY <1>0, <3>1, <3>2, <3>3, <3>4, <3>5, PacketKeepsCount
  <2>2. CASE EncoderStart(t) \/ EncoderLoop(t) \/ EncoderWait(t) \/ EncoderFinish(t)
    <3>1. UNCHANGED <<mode, running, encoded, packets, left, e_o_s, page, fin, avd, audio_end>>
      BY <2>2 DEF EncoderStart, EncoderLoop, EncoderWait, EncoderFinish, streamVars, flushVars, loaderVars
    <3>2. \A s \in Stream : Again(s) <= Again(s)' /\ MakesLast(s)' = MakesLast(s)
      BY <2>2, <3>1, <1>0 DEF EncoderStart, EncoderLoop, EncoderWait, EncoderFinish, Go, Again,
                              MakesLast, WaitFor, LastOf
    <3>3. InHand'
      BY <2>2, <3>1, <1>0 DEF EncoderStart, EncoderLoop, EncoderWait, EncoderFinish, Go, InHand, Of
    <3> QED BY <1>0, <3>1, <3>2, <3>3, MoveKeepsCount
  <2> QED BY <1>1, <2>1, <2>2 DEF Encoder
<1>2. CASE Loader
  <2>1. CASE LoaderFrame
    <3>1. /\ PacketIn("ts") /\ Go("loader", "encodeTs", "loop") /\ avd' = avd + frametime_us
          /\ UNCHANGED <<mode, running, page, fin, audio_end>>
          /\ left' = [left EXCEPT !["ts"] = @ - 1]
          /\ e_o_s' = [e_o_s EXCEPT !["ts"] = @ \/ ~running]
      BY <2>1 DEF LoaderFrame, rmdSyncEncodeImageBuffer, flushVars
    <3>2. /\ left' \in [Stream -> Nat] /\ left'["vs"] = left["vs"] /\ left'["ts"] = left["ts"] - 1
          /\ pc["video"] # "encode"
      BY <3>1, <1>0 DEF InHand, Go, ExclusiveInv, ModeThreads
    <3>3. /\ \A u \in Stream : Again(u) <= Again(u)' /\ MakesLast(u)' = MakesLast(u)
          /\ InHand'
      BY <3>1, <3>2, <1>0 DEF Again, MakesLast, InHand, Go, WaitFor, LastOf
    <3>4. /\ e_o_s' \in [Stream -> BOOLEAN] /\ avd' \in Int
          /\ \A u \in Stream : (e_o_s[u] => e_o_s'[u]) /\ (e_o_s'[u] => e_o_s[u] \/ ~running)
      BY <3>1, <1>0
    <3> QED BY <1>0, <3>1, <3>2, <3>3, <3>4, PacketKeepsCount
  <2>2. CASE LoaderPeriod
    <3>1. /\ PacketIn("vs") /\ Go("loader", "encodeVs", "closeVs")
          /\ UNCHANGED <<mode, running, page, fin, e_o_s, avd, audio_end>>
          /\ left' = [left EXCEPT !["vs"] = @ - 1]
      BY <2>2 DEF LoaderPeriod, flushVars
    <3>2. /\ left' \in [Stream -> Nat] /\ left'["ts"] = left["ts"] /\ left'["vs"] = left["vs"] - 1
          /\ pc["audio"] # "encode"
      BY <3>1, <1>0 DEF InHand, Go, ExclusiveInv, ModeThreads
    <3>3. /\ \A u \in Stream : Again(u) <= Again(u)' /\ MakesLast(u)' = MakesLast(u)
          /\ InHand'
      BY <3>1, <3>2, <1>0 DEF Again, MakesLast, InHand, Go, WaitFor, LastOf
    <3> QED BY <1>0, <3>1, <3>2, <3>3, PacketKeepsCount
  <2>3. CASE LoaderClose
    <3>1. /\ Go("loader", "closeVs", "loop") /\ avd' = avd - periodtime_us
          /\ UNCHANGED <<mode, running, packets, encoded, page, fin, left, audio_end>>
          /\ e_o_s' = [e_o_s EXCEPT !["vs"] = @ \/ ~running]
      BY <2>3 DEF LoaderClose, flushVars
    <3>2. /\ \A u \in Stream : Again(u) <= Again(u)' /\ MakesLast(u)' = MakesLast(u)
          /\ InHand'
      BY <3>1, <1>0 DEF Again, MakesLast, InHand, Go, WaitFor, LastOf
    <3>3. avd' \in Int /\ \A u \in Stream : (e_o_s[u] => e_o_s'[u]) /\ (e_o_s'[u] => e_o_s[u] \/ ~running')
      BY <3>1, <1>0
    <3> QED BY <1>0, <3>1, <3>2, <3>3, MoveKeepsCount
  <2>4. CASE LoaderLoop \/ LoaderFinish
    <3>1. /\ UNCHANGED <<mode, encoded, packets, left, e_o_s, page, fin, avd>>
          /\ running' \in BOOLEAN /\ (running' => running) /\ audio_end' \in BOOLEAN
          /\ pc' \in [Thread -> Labels] /\ \A u \in Thread \ {"loader"} : pc'[u] = pc[u]
          /\ pc'["loader"] = "encodeTs" => left["ts"] > 0
          /\ pc'["loader"] = "encodeVs" => left["vs"] > 0
      <4>1. CASE LoaderLoop
        <5>1. UNCHANGED <<mode, encoded, packets, left, e_o_s, page, fin, avd>>
          BY <4>1 DEF LoaderLoop, streamVars, flushVars
        <5>2. running' = running \/ running' = FALSE
          BY <4>1 DEF LoaderLoop
        <5>3. audio_end' = audio_end \/ audio_end' = TRUE
          BY <4>1 DEF LoaderLoop
        <5>4. \/ pc' = pc /\ pc["loader"] = "loop"
              \/ Go("loader", "loop", "finish")
              \/ Go("loader", "loop", "encodeTs") /\ left["ts"] > 0
              \/ Go("loader", "loop", "encodeVs") /\ left["vs"] > 0
          BY <4>1 DEF LoaderLoop, At
        <5>5. running' \in BOOLEAN /\ (running' => running)
          <6>1. CASE running' = running
            BY <6>1, <1>0
          <6>2. CASE running' = FALSE
            BY <6>2
          <6> QED BY <5>2, <6>1, <6>2
        <5>6. audio_end' \in BOOLEAN
          BY <5>3, <1>0
        <5>7. /\ pc' \in [Thread -> Labels] /\ \A u \in Thread \ {"loader"} : pc'[u] = pc[u]
              /\ pc'["loader"] = "encodeTs" => left["ts"] > 0
              /\ pc'["loader"] = "encodeVs" => left["vs"] > 0
          BY <5>4, <1>0 DEF Go
        <5> QED BY <5>1, <5>5, <5>6, <5>7
      <4>2. CASE LoaderFinish
        BY <4>2, <1>0 DEF LoaderFinish, Go, streamVars, flushVars, loaderVars
      <4> QED BY <2>4, <4>1, <4>2
    <3>2. /\ \A u \in Stream : Again(u) <= Again(u)' /\ MakesLast(u)' = MakesLast(u)
          /\ InHand'
      BY <3>1, <1>0 DEF Again, MakesLast, InHand, WaitFor, LastOf
    <3> QED BY <1>0, <3>1, <3>2, MoveKeepsCount
  <2> QED BY <1>2, <2>1, <2>2, <2>3, <2>4 DEF Loader
<1>3. CASE Flush
  <2>1. CASE FlushTop
    <3>1. UNCHANGED <<mode, running, encoded, packets, left, e_o_s, page, fin, avd, audio_end>>
      BY <2>1 DEF FlushTop, streamVars, flushVars, loaderVars
    <3>2. /\ \A u \in Stream : Again(u) <= Again(u)' /\ ~MakesLast(u)'
          /\ InHand'
      BY <2>1, <3>1, <1>0 DEF FlushTop, At, Again, MakesLast, InHand, WaitFor, LastOf
    <3> QED BY <1>0, <3>1, <3>2, MoveKeepsCount
  <2>2. CASE FlushPages
    <3>1. PICK n : Taken(n)
      BY <2>2, PagesTake
    <3>2. /\ UNCHANGED <<mode, running, encoded, e_o_s, fin, left, avd, audio_end>>
          /\ Go("flush", "pages", "choose")
      BY <2>2 DEF FlushPages, loaderVars
    <3>3. /\ \A u \in Thread \ {"flush"} : pc'[u] = pc[u]
          /\ \A s \in Stream : ~MakesLast(s)'
      BY <3>2, <1>0 DEF Go, MakesLast, WaitFor, LastOf
    <3> QED BY <1>0, <3>1, <3>2, <3>3, PageKeepsCount
  <2>3. CASE FlushWrite
    BY <2>3, <1>0, WriteKeepsCount
  <2>4. ASSUME NEW s \in Stream, FlushRest(s) PROVE CountInv'
    <3>1. /\ UNCHANGED <<mode, running, encoded, e_o_s, fin, left, avd, audio_end>>
          /\ \A u \in Thread \ {"flush"} : pc'[u] = pc[u]
      BY <2>4, <1>0 DEF FlushRest, Go, loaderVars
    <3>2. CASE UNCHANGED <<packets, page>>
      <4>1. \/ Go("flush", s, After(s))
            \/ Go("flush", s, WaitFor(s)) /\ s \notin fin /\ page[s] = NoPage /\ packets[s] = <<>>
        BY <2>4 DEF FlushRest
      <4>2. Go("flush", s, WaitFor(s)) => ~Closed(s) \/ Go("flush", s, After(s))
        BY <4>1 DEF Closed, NoPage
      <4>3. \A u \in Stream : MakesLast(u)' => u = s /\ ~Closed(s)
        BY <4>1, <4>2, <1>0 DEF Go, After, WaitFor, LastOf, MakesLast
      <4>4. (\A u \in Stream : Again(u) <= Again(u)') /\ InHand'
        BY <3>1, <1>0 DEF Again, InHand
      <4> QED BY <1>0, <3>1, <3>2, <4>3, <4>4, MoveKeepsCount
    <3>3. CASE ~UNCHANGED <<packets, page>>
      <4>1. Go("flush", s, After(s))
        BY <2>4, <3>3 DEF FlushRest
      <4>2. PICK n : Taken(n)
        BY <2>4, <3>3, RestTakes
      <4>3. \A u \in Stream : ~MakesLast(u)'
        BY <4>1, <1>0 DEF Go, After, MakesLast, WaitFor, LastOf
      <4> QED BY <1>0, <3>1, <4>2, <4>3, PageKeepsCount
    <3> QED BY <3>2, <3>3
  <2>5. ASSUME NEW s \in Stream, FlushWait(s) PROVE CountInv'
    <3>1. UNCHANGED <<mode, running, encoded, packets, left, e_o_s, page, fin, avd, audio_end>>
      BY <2>5 DEF FlushWait, streamVars, flushVars, loaderVars
    <3>2. /\ \A u \in Stream : Again(u) <= Again(u)' /\ MakesLast(u)' = MakesLast(u)
          /\ InHand'
      BY <2>5, <3>1, <1>0 DEF FlushWait, Go, Again, MakesLast, InHand, WaitFor, LastOf
    <3> QED BY <1>0, <3>1, <3>2, MoveKeepsCount
  <2>6. ASSUME NEW s \in Stream, FlushLast(s) PROVE CountInv'
    <3>1. /\ Go("flush", LastOf(s), After(s)) /\ PacketIn(s)
          /\ UNCHANGED <<mode, running, page, fin, left, audio_end>>
          /\ avd' = avd + frametime_us \/ avd' = avd - periodtime_us
          /\ \/ e_o_s' = [e_o_s EXCEPT ![s] = @ \/ ~running]
             \/ e_o_s' = [e_o_s EXCEPT ![s] = TRUE]
      <4>1. CASE s = "ts"
        BY <2>6, <4>1 DEF FlushLast, rmdSyncEncodeImageBuffer, flushVars
      <4>2. CASE s = "vs"
        BY <2>6, <4>2 DEF FlushLast, flushVars
      <4> QED BY <4>1, <4>2
    <3>2. ~running
      BY <3>1 DEF Go, LastOf, ExclusiveInv, ClosesWhenOver
    <3>3. avd' \in Int
      BY <3>1, <1>0
    <3>5. e_o_s' = [e_o_s EXCEPT ![s] = TRUE]
      BY <3>1, <3>2, <1>0
    <3>6. /\ e_o_s' \in [Stream -> BOOLEAN] /\ e_o_s'[s]
          /\ \A u \in Stream : (e_o_s[u] => e_o_s'[u]) /\ (e_o_s'[u] => e_o_s[u] \/ ~running)
      BY <3>2, <3>5, <1>0
    <3>4. /\ \A u \in Stream : Again(u) <= Again(u)' /\ ~MakesLast(u)'
          /\ InHand' /\ MakesLast(s)
      BY <3>1, <1>0 DEF Go, Again, MakesLast, InHand, After, WaitFor, LastOf
    <3> QED BY <1>0, <3>1, <3>3, <3>4, <3>6, PacketKeepsCount
  <2> QED BY <1>3, <2>1, <2>2, <2>3, <2>4, <2>5, <2>6 DEF Flush
<1>4. CASE MainJoin \/ Interrupt \/ UNCHANGED vars
  <2>1. /\ UNCHANGED <<mode, encoded, packets, left, e_o_s, page, fin, avd, audio_end>>
        /\ running' \in BOOLEAN /\ (running' => running)
        /\ \A u \in Thread \ {"main"} : pc'[u] = pc[u]
    <3>1. CASE MainJoin
      BY <3>1, <1>0 DEF MainJoin, Go, streamVars, flushVars, loaderVars
    <3>2. CASE Interrupt
      BY <3>2, <1>0 DEF Interrupt, streamVars, flushVars, loaderVars
    <3>3. CASE UNCHANGED vars
      BY <3>3, <1>0 DEF vars, streamVars, flushVars, loaderVars
    <3> QED BY <1>4, <3>1, <3>2, <3>3
  <2>2. /\ \A u \in Stream : Again(u) <= Again(u)' /\ MakesLast(u)' = MakesLast(u)
        /\ InHand'
    BY <2>1, <1>0 DEF Again, MakesLast, InHand, WaitFor, LastOf
  <2> QED BY <1>0, <2>1, <2>2, MoveKeepsCount
<1> QED BY <1>1, <1>2, <1>3, <1>4 DEF Next

(* The file as far as it is written, whatever the durations, the length of *)
(* the recording and the pace of the threads: no stream gets more packets  *)
(* than its frames or periods, a repeated frame and the one that closes it,*)
(* and the pages are in order (rmd_flush_to_ogg.c:118-223).                *)
THEOREM FileCorrect == Spec => []FileRight
BY CountInit, CountNext, StreamsInOrder, ThreadsInPlace, CountEnough, PTL DEF Spec
-----------------------------------------------------------------------------
(***************************************************************************)
(* Both streams closed.  The last packet of a stream is its time; where    *)
(* nothing disturbs, only rmdFlushToOgg closes a stream, when its encoder  *)
(* takes no turn any more, so that the page closing it takes the last      *)
(* packet, and it is finished with that page.                              *)
(***************************************************************************)
EncoderOf(s) == IF s = "ts" THEN "video" ELSE "audio"

LastIs(s) ==
    /\ packets[s] # <<>> => packets[s][Len(packets[s])] = Clock(s)
    /\ packets[s] = <<>> /\ page[s] # NoPage => page[s].last = Clock(s)

Quiet(s) == e_o_s[s] => pc[EncoderOf(s)] \notin {"wait", "encode"} /\ ~MakesLast(s) /\ Closed(s)
LastPage(s) == page[s].eos => e_o_s[s] /\ packets[s] = <<>>
ClosedBy(s, k) ==
    /\ file[k] = [stream |-> s, last |-> Clock(s), eos |-> TRUE]
    /\ \A i \in DOMAIN file \ {k} : file[i].stream = s => i < k /\ ~file[i].eos
Finished(s) ==
    s \in fin /\ s \in Streams => e_o_s[s] /\ packets[s] = <<>> /\ \E k \in DOMAIN file : ClosedBy(s, k)

Ending(s) == Quiet(s) /\ LastPage(s) /\ Finished(s)
OnlyFinished == \A i \in DOMAIN file : file[i].eos => file[i].stream \in fin

FlusherDone ==
    /\ pc["flush"] = "done" => fin = Stream
    /\ mode = "cache" /\ pc["main"] = "done" => pc["flush"] = "done"

CloseInv ==
    /\ \A s \in Stream : LastIs(s)
    /\ FlusherDone
    /\ Undisturbed => OnlyFinished /\ \A s \in Stream : Ending(s)

LEMMA CloseEnough == CloseInv /\ OrderInv => StreamsClosed
<1> SUFFICES ASSUME CloseInv, OrderInv, Undisturbed,
                    At("flush", "done") \/ (mode = "cache" /\ At("main", "done")),
                    NEW s \in Streams
             PROVE  \E k \in DOMAIN file :
                      /\ file[k] = [stream |-> s, last |-> encoded[s] * Duration(s), eos |-> TRUE]
                      /\ \A i \in DOMAIN file \ {k} : file[i].stream = s => i < k /\ ~file[i].eos
  BY DEF StreamsClosed
<1>1. s \in Stream /\ s \in fin
  BY DEF CloseInv, FlusherDone, At, Streams
<1>2. \E k \in DOMAIN file : ClosedBy(s, k)
  BY <1>1 DEF CloseInv, Ending, Finished
<1> QED BY <1>2 DEF ClosedBy, Clock

LEMMA CloseInit == Init => CloseInv
<1> SUFFICES ASSUME Init PROVE CloseInv
    OBVIOUS
<1>1. /\ file = <<>> /\ fin = Stream \ Streams
      /\ \A s \in Stream : /\ packets[s] = <<>> /\ page[s] = NoPage /\ e_o_s[s] = FALSE
                           /\ page[s].eos = FALSE
  BY DEF Init, NoPage
<1>2. pc["flush"] = "top" /\ pc["main"] = "join"
  BY DEF Init
<1>3. \A s \in Stream : LastIs(s)
  BY <1>1 DEF LastIs
<1>4. FlusherDone
  BY <1>2 DEF FlusherDone
<1>5. \A s \in Stream : Ending(s)
  BY <1>1 DEF Ending, Quiet, LastPage, Finished
<1>6. OnlyFinished
  <2>1. DOMAIN file = {}
    BY <1>1
  <2> QED BY <2>1 DEF OnlyFinished
<1> QED BY <1>3, <1>4, <1>5, <1>6 DEF CloseInv

(* A step that moves threads only.                                         *)
LEMMA MoveKeepsClosed ==
    ASSUME CloseInv, UNCHANGED <<nosound, encoded, packets, page, fin, file>>,
           Undisturbed' => Undisturbed /\ e_o_s' = e_o_s,
           Undisturbed' => \A s \in Stream : Quiet(s)',
           FlusherDone'
    PROVE  CloseInv'
<1>1. \A s \in Stream : Clock(s)' = Clock(s)
  BY DEF Clock, Duration
<1>2. \A s \in Stream : LastIs(s)'
  BY <1>1 DEF CloseInv, LastIs
<1>3. ASSUME Undisturbed' PROVE OnlyFinished' /\ \A s \in Stream : Ending(s)'
  <2>1. OnlyFinished'
    BY <1>3 DEF CloseInv, OnlyFinished
  <2>2. ASSUME NEW s \in Stream PROVE Ending(s)'
    <3>1. LastPage(s)'
      BY <1>3, <2>2 DEF CloseInv, Ending, LastPage
    <3>2. Finished(s)'
      BY <1>1, <1>3, <2>2 DEF CloseInv, Ending, Finished, ClosedBy, Streams
    <3> QED BY <1>3, <3>1, <3>2 DEF Ending
  <2> QED BY <2>1, <2>2
<1> QED BY <1>2, <1>3 DEF CloseInv

(* A packet goes into a stream that is not closed, or closes it.           *)
LEMMA PacketKeepsClosed ==
    ASSUME CloseInv, DataInv, NEW s \in Stream, PacketIn(s), UNCHANGED <<nosound, page, fin, file>>,
           Undisturbed' => /\ Undisturbed /\ ~e_o_s[s]
                           /\ \A t \in Stream \ {s} : e_o_s'[t] = e_o_s[t]
                           /\ \A t \in Stream : Quiet(t)',
           FlusherDone'
    PROVE  CloseInv'
<1>3. \A t \in Stream \ {s} : Clock(t)' = Clock(t) /\ packets'[t] = packets[t]
  BY PacketMade DEF Clock, Duration
<1>4. packets'[s] # <<>> /\ packets'[s][Len(packets'[s])] = Clock(s)'
  BY PacketMade DEF Clock, Duration
<1>5. ASSUME NEW t \in Stream PROVE LastIs(t)'
  BY <1>3, <1>4 DEF CloseInv, LastIs
<1>6. ASSUME Undisturbed' PROVE OnlyFinished' /\ \A t \in Stream : Ending(t)'
  <2>1. OnlyFinished'
    BY <1>6 DEF CloseInv, OnlyFinished
  <2>2. ASSUME NEW t \in Stream PROVE Ending(t)'
    <3>1. CASE t = s
      <4>1. ~page[s].eos /\ (s \in Streams => s \notin fin)
        BY <1>6 DEF CloseInv, Ending, LastPage, Finished
      <4>2. LastPage(s)' /\ Finished(s)'
        BY <4>1 DEF LastPage, Finished, Streams
      <4> QED BY <1>6, <3>1, <4>2 DEF Ending
    <3>2. CASE t # s
      <4>1. LastPage(t)'
        BY <1>3, <1>6, <2>2, <3>2 DEF CloseInv, Ending, LastPage
      <4>2. Finished(t)'
        BY <1>3, <1>6, <2>2, <3>2 DEF CloseInv, Ending, Finished, ClosedBy, Streams
      <4> QED BY <1>6, <4>1, <4>2 DEF Ending
    <3> QED BY <3>1, <3>2
  <2> QED BY <2>1, <2>2
<1> QED BY <1>5, <1>6 DEF CloseInv

(* A page takes the last packet of its stream, or leaves it.               *)
LEMMA PageKeepsClosed ==
    ASSUME CloseInv, DataInv, NEW n, Taken(n),
           UNCHANGED <<mode, nosound, interrupted, encoded, e_o_s, fin, file>>,
           \A u \in Thread \ {"flush"} : pc'[u] = pc[u],
           \A s \in Stream : ~MakesLast(s)',
           FlusherDone'
    PROVE  CloseInv'
<1>1. ASSUME NEW s \in Stream
      PROVE  /\ packets'[s] = <<>> <=> n[s] = Len(packets[s])
             /\ packets'[s] # <<>> => packets[s] # <<>> /\ packets'[s][Len(packets'[s])] = packets[s][Len(packets[s])]
             /\ n[s] = 0 => page'[s] = page[s] /\ packets'[s] = packets[s]
             /\ n[s] # 0 => /\ page'[s] = PageOf(s, n[s])
                            /\ packets[s] # <<>> /\ s \notin fin /\ page[s] = NoPage
             /\ n[s] \in 0..Len(packets[s]) /\ Clock(s)' = Clock(s)
  <2>1. PICK q \in Seq(Nat) : q = packets[s]
    BY DEF DataInv, DataTypes
  <2>2. PICK k \in Nat : k = n[s] /\ k <= Len(q)
    BY <2>1 DEF Taken
  <2>3. PICK l \in Nat : l = Len(q)
    BY <2>1
  <2>4. k \in 0..l
    BY <2>2, <2>3
  <2>5. PICK r : r = packets'[s]
    OBVIOUS
  <2>6. r = SubSeq(q, k + 1, Len(q))
    BY <2>1, <2>2, <2>5 DEF Taken
  <2>7. /\ r \in Seq(Nat) /\ Len(r) = l - k
        /\ \A i \in 1..(l - k) : r[i] = q[k + i]
    BY <2>3, <2>4, <2>6, Rest
  <2>8. r = <<>> <=> k = l
    BY <2>4, <2>7
  <2>9. r # <<>> => q # <<>> /\ r[Len(r)] = q[l]
    <3>1. ASSUME k # l PROVE l - k \in 1..(l - k) /\ k + (l - k) = l /\ l # 0
      BY <2>4, <3>1
    <3> QED BY <2>3, <2>7, <2>8, <3>1
  <2>10. k = 0 => r = q
    BY <2>1, <2>3, <2>6
  <2>11. /\ page' = [t \in Stream |-> IF n[t] = 0 THEN page[t] ELSE PageOf(t, n[t])]
         /\ page[s] # NoPage \/ s \in fin => n[s] = 0
    BY DEF Taken
  <2>12. n[s] # 0 => q # <<>>
    BY <2>2
  <2>13. Clock(s)' = Clock(s)
    BY DEF Clock, Duration
  <2> QED BY <2>1, <2>2, <2>3, <2>4, <2>5, <2>8, <2>9, <2>10, <2>11, <2>12, <2>13
<1>2. ASSUME NEW s \in Stream PROVE LastIs(s)'
  <2>1. LastIs(s)
    BY DEF CloseInv
  <2>2. CASE n[s] = 0
    BY <1>1, <2>1, <2>2 DEF LastIs
  <2>3. CASE n[s] # 0 /\ packets'[s] = <<>>
    <3>1. page'[s].last = packets[s][Len(packets[s])] /\ packets[s] # <<>>
      BY <1>1, <2>3 DEF PageOf
    <3> QED BY <1>1, <2>1, <2>3, <3>1 DEF LastIs
  <2>4. CASE packets'[s] # <<>>
    BY <1>1, <2>1, <2>4 DEF LastIs
  <2> QED BY <2>2, <2>3, <2>4
<1>3. ASSUME Undisturbed' PROVE OnlyFinished' /\ \A s \in Stream : Ending(s)'
  <2>1. Undisturbed
    BY <1>3 DEF Undisturbed
  <2>2. OnlyFinished'
    BY <2>1 DEF CloseInv, OnlyFinished
  <2>3. ASSUME NEW s \in Stream PROVE Ending(s)'
    <3>1. Quiet(s) /\ LastPage(s) /\ Finished(s)
      BY <2>1 DEF CloseInv, Ending
    <3>2. pc'[EncoderOf(s)] = pc[EncoderOf(s)]
      BY DEF EncoderOf
    <3>3. e_o_s[s] /\ Closed(s) => Closed(s)'
      <4>1. CASE n[s] = 0
        BY <1>1, <4>1 DEF Closed
      <4>2. CASE n[s] # 0 /\ packets'[s] = <<>>
        <5>1. ASSUME e_o_s[s] PROVE page'[s] = [last |-> packets[s][n[s]], eos |-> TRUE]
          <6>1. n[s] = Len(packets[s])
            BY <1>1, <4>2
          <6>2. page'[s] = PageOf(s, n[s])
            BY <1>1, <4>2
          <6> QED BY <5>1, <6>1, <6>2 DEF PageOf
        <5>2. e_o_s[s] => page'[s].eos
          BY <5>1
        <5> QED BY <5>2 DEF Closed
      <4>3. CASE packets'[s] # <<>>
        BY <4>3 DEF Closed
      <4> QED BY <4>1, <4>2, <4>3
    <3>4. Quiet(s)'
      BY <3>1, <3>2, <3>3 DEF Quiet
    <3>5. LastPage(s)'
      <4>1. CASE n[s] = 0
        BY <1>1, <3>1, <4>1 DEF LastPage
      <4>2. CASE n[s] # 0
        <5>1. page'[s].eos = (e_o_s[s] /\ n[s] = Len(packets[s]))
          BY <1>1, <4>2 DEF PageOf
        <5>2. n[s] = Len(packets[s]) => packets'[s] = <<>>
          BY <1>1
        <5> QED BY <5>1, <5>2 DEF LastPage
      <4> QED BY <4>1, <4>2
    <3>6. Finished(s)'
      <4>1. s \in fin => packets'[s] = packets[s]
        BY <1>1
      <4> QED BY <1>1, <3>1, <4>1 DEF Finished, ClosedBy, Streams
    <3> QED BY <3>4, <3>5, <3>6 DEF Ending
  <2> QED BY <2>2, <2>3
<1> QED BY <1>2, <1>3 DEF CloseInv

(* The page that closes a stream is its last one, and finishes it.         *)
LEMMA WriteKeepsClosed ==
    ASSUME CloseInv, OrderInv, CountInv, FlushWrite
    PROVE  CloseInv'
<1>1. /\ UNCHANGED <<mode, nosound, running, interrupted, encoded, packets, e_o_s>>
      /\ Go("flush", "choose", "top") /\ pc \in [Thread -> Labels]
      /\ page \in [Stream -> [last : Nat, eos : BOOLEAN]]
  BY DEF FlushWrite, streamVars, OrderInv, DataInv, DataTypes
<1>2. /\ \A s \in Stream : Clock(s)' = Clock(s) /\ ~MakesLast(s)'
      /\ Undisturbed' => Undisturbed
  BY <1>1 DEF Clock, Duration, MakesLast, Go, WaitFor, LastOf, Undisturbed
<1>3. FlusherDone'
  BY <1>1 DEF CloseInv, FlusherDone, Go
<1>4. CASE \E s \in Stream : page[s] = NoPage /\ s \notin fin
  <2>1. UNCHANGED <<page, fin, file>>
    BY <1>4 DEF FlushWrite
  <2>2. Undisturbed' => \A s \in Stream : Quiet(s)'
    BY <1>1, <1>2, <2>1 DEF CloseInv, Ending, Quiet, Closed, EncoderOf, Go
  <2> QED BY <1>1, <1>2, <1>3, <2>1, <2>2, MoveKeepsClosed
<1>5. CASE ~(\E s \in Stream : page[s] = NoPage /\ s \notin fin)
  <2>1. fin # Stream /\ DataInv
    BY DEF FlushWrite, Go, OrderInv, FinishedLate
  <2>2. PICK f : f = First
    OBVIOUS
  <2>3. f \in Stream \ fin /\ page[f] # NoPage
    BY <1>5, <2>1, <2>2, FirstIsEarliest
  <2>4. PICK w : w = [stream |-> f, last |-> page[f].last, eos |-> page[f].eos]
    OBVIOUS
  <2>5. /\ file' = Append(file, w) /\ page' = [page EXCEPT ![f] = NoPage]
        /\ fin' = IF ~running /\ page[f].eos THEN fin \cup {f} ELSE fin
    BY <1>5, <2>2, <2>4 DEF FlushWrite
  <2>6. PICK m \in Nat : m = Len(file)
    BY DEF OrderInv, DataInv, DataTypes
  <2>7. /\ DOMAIN file = 1..m /\ DOMAIN file' = 1 .. m + 1
        /\ \A i \in 1..m : file'[i] = file[i] /\ i # m + 1
        /\ file'[m + 1] = w
    <3>1. file \in Seq([stream : Stream, last : Nat, eos : BOOLEAN])
      BY DEF OrderInv, DataInv, DataTypes
    <3>2. w \in [stream : Stream, last : Nat, eos : BOOLEAN]
      BY <1>1, <2>3, <2>4
    <3> QED BY <2>5, <2>6, <3>1, <3>2
  <2>8. ASSUME NEW s \in Stream
        PROVE  /\ s # f => page'[s] = page[s] /\ (s \in fin' <=> s \in fin)
               /\ s = f => page'[s] = NoPage /\ ~page'[s].eos
    BY <1>1, <2>3, <2>5 DEF NoPage
  <2>9. ASSUME NEW s \in Stream PROVE LastIs(s)'
    BY <1>1, <1>2, <2>8 DEF CloseInv, LastIs
  <2>10. ASSUME Undisturbed' PROVE OnlyFinished' /\ \A s \in Stream : Ending(s)'
    <3>1. /\ OnlyFinished /\ \A s \in Stream : Quiet(s) /\ LastPage(s) /\ Finished(s)
          /\ \A s \in Stream : LastIs(s)
      BY <1>2, <2>10 DEF CloseInv, Ending
    <3>2. page[f].eos => f \in fin' /\ e_o_s[f] /\ packets[f] = <<>>
      <4>1. e_o_s[f] => ~running
        BY <2>3 DEF CountInv, EndLate
      <4> QED BY <2>3, <2>5, <3>1, <4>1 DEF LastPage
    <3>3. ~page[f].eos => f \notin fin'
      BY <2>3, <2>5
    <3>4. OnlyFinished'
      <4>1. ASSUME NEW i \in 1..m, file[i].eos PROVE file[i].stream \in fin'
        BY <2>5, <2>7, <3>1, <4>1 DEF OnlyFinished
      <4>2. w.eos => w.stream \in fin'
        BY <2>4, <3>2
      <4> QED BY <2>7, <4>1, <4>2 DEF OnlyFinished
    <3>5. ASSUME NEW s \in Stream PROVE Ending(s)'
      <4>1. Quiet(s)'
        <5>1. ASSUME Closed(s) PROVE Closed(s)'
          <6>1. CASE s = f
            BY <1>1, <2>5, <3>2, <5>1, <6>1 DEF Closed
          <6>2. CASE s # f
            <7>1. page'[s] = page[s] /\ (s \in fin => s \in fin')
              BY <2>8, <6>2
            <7> QED BY <1>1, <5>1, <7>1 DEF Closed
          <6> QED BY <6>1, <6>2
        <5>2. pc'[EncoderOf(s)] = pc[EncoderOf(s)]
          BY <1>1 DEF Go, EncoderOf
        <5> QED BY <1>1, <1>2, <3>1, <5>1, <5>2 DEF Quiet
      <4>2. LastPage(s)'
        BY <1>1, <2>8, <3>1 DEF LastPage
      <4>3. CASE s # f
        <5>1. ASSUME s \in fin', s \in Streams' PROVE \E k \in DOMAIN file' : ClosedBy(s, k)'
          <6>1. PICK k \in DOMAIN file : ClosedBy(s, k)
            BY <1>1, <2>8, <3>1, <4>3, <5>1 DEF Finished, Streams
          <6>2. k \in 1 .. m /\ k \in DOMAIN file'
            BY <2>7, <6>1
          <6>3. w.stream # s
            BY <2>4, <4>3
          <6>4. file'[k] = [stream |-> s, last |-> Clock(s), eos |-> TRUE]
            BY <2>7, <6>1, <6>2 DEF ClosedBy
          <6>5. ASSUME NEW i \in DOMAIN file' \ {k}, file'[i].stream = s
                PROVE  i < k /\ ~file'[i].eos
            <7>1. i \in 1..m
              BY <2>7, <6>3, <6>5
            <7> QED BY <2>7, <6>1, <6>5, <7>1 DEF ClosedBy
          <6>6. ClosedBy(s, k)'
            BY <1>2, <6>4, <6>5 DEF ClosedBy
          <6> QED BY <6>2, <6>6
        <5>2. s \in fin' /\ s \in Streams' => e_o_s'[s] /\ packets'[s] = <<>>
          BY <1>1, <2>8, <3>1, <4>3 DEF Finished, Streams
        <5>3. Finished(s)'
          BY <5>1, <5>2 DEF Finished
        <5> QED BY <4>1, <4>2, <5>3 DEF Ending
      <4>4. CASE s = f
        <5>1. ASSUME s \in fin' PROVE ClosedBy(s, m + 1)'
          <6>1. page[f].eos /\ packets[f] = <<>>
            BY <3>2, <3>3, <4>4, <5>1
          <6>2. page[f].last = Clock(f)
            BY <2>3, <3>1, <6>1 DEF LastIs
          <6>3. file'[m + 1] = [stream |-> s, last |-> Clock(s), eos |-> TRUE]
            BY <1>1, <2>3, <2>4, <2>7, <4>4, <6>1, <6>2
          <6>4. ASSUME NEW i \in DOMAIN file' \ {m + 1}, file'[i].stream = s
                PROVE  i < m + 1 /\ ~file'[i].eos
            <7>1. i \in 1..m
              BY <2>7
            <7>2. file'[i] = file[i] /\ i < m + 1
              BY <2>7, <7>1
            <7>3. ~file[i].eos
              BY <2>3, <2>7, <3>1, <4>4, <6>4, <7>1, <7>2 DEF OnlyFinished
            <7> QED BY <7>2, <7>3
          <6> QED BY <1>2, <6>3, <6>4 DEF ClosedBy
        <5>2. m + 1 \in DOMAIN file'
          BY <2>7
        <5>3. s \in fin' => e_o_s'[s] /\ packets'[s] = <<>>
          BY <1>1, <3>2, <3>3, <4>4
        <5>4. Finished(s)'
          BY <5>1, <5>2, <5>3 DEF Finished
        <5> QED BY <4>1, <4>2, <5>4 DEF Ending
      <4> QED BY <4>3, <4>4
    <3> QED BY <3>4, <3>5
  <2> QED BY <1>3, <2>9, <2>10 DEF CloseInv
<1> QED BY <1>4, <1>5

(* What each step does to the end of a stream.                             *)
LEMMA CloseNext == CloseInv /\ CountInv /\ OrderInv /\ ExclusiveInv /\ [Next]_vars => CloseInv'
<1> SUFFICES ASSUME CloseInv, CountInv, OrderInv, ExclusiveInv, [Next]_vars PROVE CloseInv'
    OBVIOUS
<1>0. /\ DataInv /\ pc \in [Thread -> Labels] /\ running \in BOOLEAN
      /\ e_o_s \in [Stream -> BOOLEAN] /\ FlusherDone
      /\ \A s \in Stream : e_o_s[s] => ~running
      /\ Undisturbed => \A s \in Stream : Quiet(s)
      /\ Undisturbed /\ ~running => pc["loader"] \notin {"encodeTs", "encodeVs", "closeVs"}
  BY DEF OrderInv, DataInv, DataTypes, CloseInv, CountInv, EndLate, Ending, ExclusiveInv, ModeThreads,
         LoaderIdle, Undisturbed
<1>1. ASSUME NEW t \in {"video", "audio"}, Encoder(t) PROVE CloseInv'
  <2>1. CASE EncoderPacket(t)
    <3>1. /\ PacketIn(Of(t)) /\ Go(t, "encode", "loop")
          /\ UNCHANGED <<mode, nosound, running, interrupted, page, fin, file, e_o_s>>
      BY <2>1 DEF EncoderPacket, flushVars
    <3>2. Of(t) \in Stream /\ EncoderOf(Of(t)) = t
      BY DEF Of, EncoderOf
    <3>3. Undisturbed' => Undisturbed
      BY <3>1 DEF Undisturbed
    <3>4. Undisturbed => ~e_o_s[Of(t)]
      BY <1>0, <3>1, <3>2 DEF Quiet, Go
    <3>5. ASSUME Undisturbed, NEW s \in Stream PROVE Quiet(s)'
      <4>1. s # Of(t) => packets'[s] = packets[s]
        BY <1>0, <3>1, <3>2 DEF PacketIn, DataInv, DataTypes
      <4>2. pc'[EncoderOf(s)] \in {"wait", "encode"} => pc[EncoderOf(s)] \in {"wait", "encode"}
        BY <1>0, <3>1 DEF Go, EncoderOf
      <4>3. MakesLast(s)' => MakesLast(s)
        BY <1>0, <3>1 DEF Go, MakesLast, WaitFor, LastOf
      <4> QED BY <1>0, <3>1, <3>4, <3>5, <4>1, <4>2, <4>3 DEF Quiet, Closed
    <3>6. FlusherDone'
      BY <1>0, <3>1 DEF FlusherDone, Go
    <3> QED BY <1>0, <3>1, <3>2, <3>3, <3>4, <3>5, <3>6, PacketKeepsClosed
  <2>2. CASE EncoderStart(t) \/ EncoderLoop(t) \/ EncoderWait(t) \/ EncoderFinish(t)
    <3>1. UNCHANGED <<mode, nosound, running, interrupted, encoded, packets, e_o_s, page, fin, file>>
      BY <2>2 DEF EncoderStart, EncoderLoop, EncoderWait, EncoderFinish, streamVars, flushVars
    <3>2. /\ \A u \in Thread \ {t} : pc'[u] = pc[u]
          /\ ~running /\ pc'[t] \in {"wait", "encode"} => pc[t] \in {"wait", "encode"}
      BY <1>0, <2>2 DEF EncoderStart, EncoderLoop, EncoderWait, EncoderFinish, Go
    <3>3. Undisturbed' => Undisturbed
      BY <3>1 DEF Undisturbed
    <3>4. ASSUME Undisturbed, NEW s \in Stream PROVE Quiet(s)'
      <4>1. e_o_s[s] /\ pc'[EncoderOf(s)] \in {"wait", "encode"} => pc[EncoderOf(s)] \in {"wait", "encode"}
        BY <1>0, <3>2 DEF EncoderOf
      <4>2. MakesLast(s)' => MakesLast(s)
        BY <3>2 DEF MakesLast
      <4> QED BY <1>0, <3>1, <3>4, <4>1, <4>2 DEF Quiet, Closed
    <3>5. FlusherDone'
      BY <1>0, <3>1, <3>2 DEF FlusherDone
    <3> QED BY <3>1, <3>3, <3>4, <3>5, MoveKeepsClosed
  <2> QED BY <1>1, <2>1, <2>2 DEF Encoder
<1>2. CASE Loader
  <2>1. ASSUME NEW s \in Stream, PacketIn(s), Go("loader", pc["loader"], pc'["loader"]),
               pc["loader"] \in {"encodeTs", "encodeVs"},
               UNCHANGED <<mode, nosound, running, interrupted, page, fin, file>>,
               running => e_o_s' = e_o_s
        PROVE  CloseInv'
    <3>1. Undisturbed' => Undisturbed
      BY <2>1 DEF Undisturbed
    <3>2. Undisturbed => running /\ e_o_s' = e_o_s
      BY <1>0, <2>1
    <3>3. ASSUME Undisturbed PROVE \A u \in Stream : ~e_o_s[u] /\ ~e_o_s'[u]
      BY <1>0, <3>2, <3>3
    <3>4. FlusherDone'
      BY <1>0, <2>1 DEF FlusherDone, Go
    <3>5. Undisturbed => \A u \in Stream : Quiet(u)'
      BY <3>3 DEF Quiet
    <3> QED BY <1>0, <2>1, <3>1, <3>2, <3>3, <3>4, <3>5, PacketKeepsClosed
  <2>2. CASE LoaderFrame
    <3>1. /\ PacketIn("ts") /\ Go("loader", "encodeTs", "loop")
          /\ UNCHANGED <<mode, nosound, running, interrupted, page, fin, file>>
          /\ e_o_s' = [e_o_s EXCEPT !["ts"] = @ \/ ~running]
      BY <2>2 DEF LoaderFrame, rmdSyncEncodeImageBuffer, flushVars
    <3>2. ASSUME running PROVE e_o_s' = e_o_s
      <4>1. e_o_s["ts"] = (e_o_s["ts"] \/ ~running)
        BY <1>0, <3>2
      <4>2. e_o_s' = [e_o_s EXCEPT !["ts"] = e_o_s["ts"]]
        BY <3>1, <4>1
      <4> QED BY <1>0, <4>2
    <3>3. Go("loader", pc["loader"], pc'["loader"]) /\ pc["loader"] = "encodeTs"
      BY <1>0, <3>1 DEF Go
    <3> QED BY <2>1, <3>1, <3>2, <3>3
  <2>3. CASE LoaderPeriod
    <3>1. /\ PacketIn("vs") /\ Go("loader", "encodeVs", "closeVs")
          /\ UNCHANGED <<mode, nosound, running, interrupted, page, fin, file, e_o_s>>
      BY <2>3 DEF LoaderPeriod, flushVars
    <3>2. Go("loader", pc["loader"], pc'["loader"]) /\ pc["loader"] = "encodeVs"
      BY <1>0, <3>1 DEF Go
    <3> QED BY <2>1, <3>1, <3>2
  <2>4. CASE LoaderClose
    <3>1. /\ Go("loader", "closeVs", "loop")
          /\ UNCHANGED <<mode, nosound, running, interrupted, packets, encoded, page, fin, file>>
          /\ e_o_s' = [e_o_s EXCEPT !["vs"] = @ \/ ~running]
      BY <2>4 DEF LoaderClose, flushVars
    <3>2. Undisturbed' => Undisturbed
      BY <3>1 DEF Undisturbed
    <3>3. ASSUME Undisturbed PROVE e_o_s' = e_o_s /\ \A u \in Stream : ~e_o_s[u]
      <4>1. running
        BY <1>0, <3>1, <3>3 DEF Go
      <4>2. e_o_s["vs"] = (e_o_s["vs"] \/ ~running)
        BY <1>0, <4>1
      <4>3. e_o_s' = [e_o_s EXCEPT !["vs"] = e_o_s["vs"]]
        BY <3>1, <4>2
      <4> QED BY <1>0, <4>1, <4>3
    <3>4. FlusherDone'
      BY <1>0, <3>1 DEF FlusherDone, Go
    <3>5. Undisturbed => \A u \in Stream : Quiet(u)'
      BY <3>3 DEF Quiet
    <3> QED BY <3>1, <3>2, <3>3, <3>4, <3>5, MoveKeepsClosed
  <2>5. CASE LoaderLoop \/ LoaderFinish
    <3>1. /\ UNCHANGED <<mode, nosound, interrupted, encoded, packets, e_o_s, page, fin, file>>
          /\ \A u \in Thread \ {"loader"} : pc'[u] = pc[u]
      <4>1. CASE LoaderLoop
        BY <1>0, <4>1 DEF LoaderLoop, Go, At, streamVars, flushVars
      <4>2. CASE LoaderFinish
        BY <1>0, <4>2 DEF LoaderFinish, Go, streamVars, flushVars
      <4> QED BY <2>5, <4>1, <4>2
    <3>2. Undisturbed' => Undisturbed
      BY <3>1 DEF Undisturbed
    <3>3. ASSUME Undisturbed, NEW u \in Stream PROVE Quiet(u)'
      BY <1>0, <3>1, <3>3 DEF Quiet, Closed, MakesLast, EncoderOf
    <3>4. FlusherDone'
      BY <1>0, <3>1 DEF FlusherDone
    <3> QED BY <3>1, <3>2, <3>3, <3>4, MoveKeepsClosed
  <2> QED BY <1>2, <2>2, <2>3, <2>4, <2>5 DEF Loader
<1>3. CASE Flush
  <2>0. Alive
    BY <1>3 DEF Flush
  <2>1. ASSUME \A u \in Thread \ {"flush"} : pc'[u] = pc[u], UNCHANGED <<mode, fin>>,
               pc'["flush"] = "done" => fin = Stream
        PROVE  FlusherDone'
    BY <1>0, <2>0, <2>1 DEF FlusherDone, Alive, At
  <2>2. CASE FlushTop
    <3>1. /\ UNCHANGED <<mode, nosound, running, interrupted, encoded, packets, e_o_s, page, fin, file>>
          /\ \A u \in Thread \ {"flush"} : pc'[u] = pc[u]
          /\ pc'["flush"] \in {"done", "pages", "ts"} /\ (pc'["flush"] = "done" => fin = Stream)
      BY <1>0, <2>2 DEF FlushTop, streamVars, flushVars
    <3>2. \A u \in Stream : ~MakesLast(u)'
      BY <3>1 DEF MakesLast, WaitFor, LastOf
    <3>3. Undisturbed' => Undisturbed
      BY <3>1 DEF Undisturbed
    <3>4. ASSUME Undisturbed, NEW u \in Stream PROVE Quiet(u)'
      BY <1>0, <3>1, <3>2, <3>4 DEF Quiet, Closed, EncoderOf
    <3> QED BY <2>1, <3>1, <3>3, <3>4, MoveKeepsClosed
  <2>3. CASE FlushPages
    <3>1. PICK n : Taken(n)
      BY <2>3, PagesTake
    <3>2. /\ UNCHANGED <<mode, nosound, interrupted, encoded, e_o_s, fin, file>>
          /\ Go("flush", "pages", "choose")
      BY <2>3 DEF FlushPages
    <3>3. /\ \A u \in Thread \ {"flush"} : pc'[u] = pc[u]
          /\ \A s \in Stream : ~MakesLast(s)'
          /\ pc'["flush"] # "done"
      BY <3>2, <1>0 DEF Go, MakesLast, WaitFor, LastOf
    <3> QED BY <1>0, <2>1, <3>1, <3>2, <3>3, PageKeepsClosed
  <2>4. CASE FlushWrite
    BY <2>4, WriteKeepsClosed
  <2>5. ASSUME NEW s \in Stream, FlushRest(s) PROVE CloseInv'
    <3>1. /\ UNCHANGED <<mode, nosound, running, interrupted, encoded, e_o_s, fin, file>>
          /\ \A u \in Thread \ {"flush"} : pc'[u] = pc[u]
          /\ pc'["flush"] # "done"
      BY <2>5, <1>0 DEF FlushRest, Go, After, WaitFor
    <3>2. CASE UNCHANGED <<packets, page>>
      <4>1. \/ Go("flush", s, After(s))
            \/ Go("flush", s, WaitFor(s)) /\ s \notin fin /\ page[s] = NoPage /\ packets[s] = <<>>
        BY <2>5 DEF FlushRest
      <4>2. Go("flush", s, WaitFor(s)) => ~Closed(s) \/ Go("flush", s, After(s))
        BY <4>1 DEF Closed, NoPage
      <4>3. \A u \in Stream : MakesLast(u)' => u = s /\ ~Closed(s)
        BY <4>1, <4>2, <1>0 DEF Go, After, WaitFor, LastOf, MakesLast
      <4>4. Undisturbed' => Undisturbed
        BY <3>1 DEF Undisturbed
      <4>5. ASSUME Undisturbed, NEW u \in Stream PROVE Quiet(u)'
        <5>1. Quiet(u)
          BY <1>0, <4>5
        <5>2. pc'[EncoderOf(u)] = pc[EncoderOf(u)] /\ Closed(u)' = Closed(u)
          BY <3>1, <3>2 DEF EncoderOf, Closed
        <5> QED BY <3>1, <4>3, <5>1, <5>2 DEF Quiet
      <4> QED BY <2>1, <3>1, <3>2, <4>4, <4>5, MoveKeepsClosed
    <3>3. CASE ~UNCHANGED <<packets, page>>
      <4>1. Go("flush", s, After(s))
        BY <2>5, <3>3 DEF FlushRest
      <4>2. PICK n : Taken(n)
        BY <2>5, <3>3, RestTakes
      <4>3. \A u \in Stream : ~MakesLast(u)'
        BY <4>1, <1>0 DEF Go, After, MakesLast, WaitFor, LastOf
      <4> QED BY <1>0, <2>1, <3>1, <4>2, <4>3, PageKeepsClosed
    <3> QED BY <3>2, <3>3
  <2>6. ASSUME NEW s \in Stream, FlushWait(s) PROVE CloseInv'
    <3>1. /\ UNCHANGED <<mode, nosound, running, interrupted, encoded, packets, e_o_s, page, fin, file>>
          /\ Go("flush", WaitFor(s), LastOf(s))
      BY <2>6 DEF FlushWait, streamVars, flushVars
    <3>2. /\ \A u \in Thread \ {"flush"} : pc'[u] = pc[u]
          /\ \A u \in Stream : MakesLast(u)' => MakesLast(u)
          /\ pc'["flush"] # "done"
      BY <3>1, <1>0 DEF Go, MakesLast, WaitFor, LastOf
    <3>3. Undisturbed' => Undisturbed
      BY <3>1 DEF Undisturbed
    <3>4. ASSUME Undisturbed, NEW u \in Stream PROVE Quiet(u)'
      BY <1>0, <3>1, <3>2, <3>4 DEF Quiet, Closed, EncoderOf
    <3> QED BY <2>1, <3>1, <3>2, <3>3, <3>4, MoveKeepsClosed
  <2>7. ASSUME NEW s \in Stream, FlushLast(s) PROVE CloseInv'
    <3>1. /\ Go("flush", LastOf(s), After(s)) /\ PacketIn(s)
          /\ UNCHANGED <<mode, nosound, running, interrupted, page, fin, file>>
          /\ \/ e_o_s' = [e_o_s EXCEPT ![s] = @ \/ ~running]
             \/ e_o_s' = [e_o_s EXCEPT ![s] = TRUE]
      <4>1. CASE s = "ts"
        BY <2>7, <4>1 DEF FlushLast, rmdSyncEncodeImageBuffer, flushVars
      <4>2. CASE s = "vs"
        BY <2>7, <4>2 DEF FlushLast, flushVars
      <4> QED BY <4>1, <4>2
    <3>2. /\ \A u \in Thread \ {"flush"} : pc'[u] = pc[u]
          /\ pc["flush"] = LastOf(s) /\ pc'["flush"] = After(s)
      BY <3>1, <1>0 DEF Go
    <3>3. MakesLast(s) /\ (\A u \in Stream : ~MakesLast(u)') /\ pc'["flush"] # "done"
      BY <3>2 DEF MakesLast, After, WaitFor, LastOf
    <3>4. \A u \in Stream \ {s} : e_o_s'[u] = e_o_s[u] /\ packets'[u] = packets[u]
      BY <3>1, <1>0 DEF PacketIn, DataInv, DataTypes
    <3>5. packets'[s] # <<>>
      BY <1>0, <3>1, PacketMade
    <3>6. pc[EncoderOf(s)] \notin {"wait", "encode"}
      BY <3>2 DEF ExclusiveInv, NoTurn, LastOf, EncoderOf
    <3>7. Undisturbed' => Undisturbed
      BY <3>1 DEF Undisturbed
    <3>8. Undisturbed => ~e_o_s[s]
      BY <1>0, <3>3 DEF Quiet
    <3>9. ASSUME Undisturbed, NEW u \in Stream PROVE Quiet(u)'
      <4>1. pc'[EncoderOf(u)] = pc[EncoderOf(u)]
        BY <3>2 DEF EncoderOf
      <4>2. CASE u = s
        <5>1. Closed(s)'
          BY <3>5 DEF Closed
        <5> QED BY <3>3, <3>6, <4>1, <4>2, <5>1 DEF Quiet
      <4>3. CASE u # s
        <5>1. Closed(u)' = Closed(u) /\ e_o_s'[u] = e_o_s[u]
          BY <3>1, <3>4, <4>3 DEF Closed
        <5> QED BY <1>0, <3>3, <3>9, <4>1, <5>1 DEF Quiet
      <4> QED BY <4>2, <4>3
    <3> QED BY <1>0, <2>1, <3>1, <3>2, <3>3, <3>4, <3>7, <3>8, <3>9, PacketKeepsClosed
  <2> QED BY <1>3, <2>2, <2>3, <2>4, <2>5, <2>6, <2>7 DEF Flush
<1>4. CASE MainJoin \/ Interrupt \/ UNCHANGED vars
  <2>1. /\ UNCHANGED <<mode, nosound, encoded, packets, e_o_s, page, fin, file>>
        /\ \A u \in Thread \ {"main"} : pc'[u] = pc[u]
        /\ Undisturbed' => Undisturbed
        /\ mode = "cache" /\ pc'["main"] = "done" => pc["main"] = "done" \/ pc["flush"] = "done"
    <3>1. CASE MainJoin
      BY <3>1, <1>0 DEF MainJoin, Go, streamVars, flushVars, Undisturbed
    <3>2. CASE Interrupt
      BY <3>2, <1>0 DEF Interrupt, streamVars, flushVars, Undisturbed
    <3>3. CASE UNCHANGED vars
      BY <3>3, <1>0 DEF vars, streamVars, flushVars, Undisturbed
    <3> QED BY <1>4, <3>1, <3>2, <3>3
  <2>2. ASSUME Undisturbed, NEW u \in Stream PROVE Quiet(u)'
    BY <1>0, <2>1, <2>2 DEF Quiet, Closed, MakesLast, EncoderOf
  <2>3. FlusherDone'
    BY <1>0, <2>1 DEF FlusherDone
  <2> QED BY <2>1, <2>2, <2>3, MoveKeepsClosed
<1> QED BY <1>1, <1>2, <1>3, <1>4 DEF Next

(* When rmdFlushToOgg has ended, each stream was written to the last       *)
(* packet that went in, and its last page, and no other, closes it,        *)
(* whatever the durations, the length of the recording and the pace of the *)
(* threads (rmd_flush_to_ogg.c:118-223).                                   *)
THEOREM BothStreamsClosed == Spec => []StreamsClosed
<1>1. Init => CountInv /\ CloseInv
  BY CountInit, CloseInit
<1>2. CountInv /\ CloseInv /\ OrderInv /\ ExclusiveInv /\ [Next]_vars => CountInv' /\ CloseInv'
  BY CountNext, CloseNext
<1> QED BY <1>1, <1>2, StreamsInOrder, ThreadsInPlace, CloseEnough, PTL DEF Spec
-----------------------------------------------------------------------------
(***************************************************************************)
(* A cache encoded to its end.  While the loader goes on avd is the video  *)
(* taken less the sound taken, so that when it comes to the end of the     *)
(* video with avd no more than zero the sound is as long.                  *)
(***************************************************************************)
Ahead == Loaded("ts") * frametime_us - Loaded("vs") * periodtime_us
         + (IF pc["loader"] = "closeVs" THEN periodtime_us ELSE 0)
AllTaken ==
    /\ left["ts"] = 0
    /\ nosound \/ left["vs"] = 0 \/ Loaded("vs") * periodtime_us >= MaxFrames * frametime_us
LoadInv ==
    /\ \A s \in Stream : encoded[s] >= Loaded(s)
    /\ audio_end => left["vs"] = 0
    /\ mode = "cache" /\ running => avd = Ahead
    /\ mode = "cache" /\ ~running /\ ~interrupted => AllTaken

LEMMA TakenIs ==
    ASSUME OrderInv, CountInv
    PROVE  /\ mode \in {"onTheFly", "cache"} /\ nosound \in BOOLEAN /\ running \in BOOLEAN
           /\ interrupted \in BOOLEAN /\ audio_end \in BOOLEAN /\ avd \in Int
           /\ pc \in [Thread -> Labels]
           /\ left \in [Stream -> Nat] /\ encoded \in [Stream -> Nat]
           /\ \A s \in Stream : Loaded(s) \in Nat
           /\ MaxFrames \in Nat /\ MaxPeriods \in Nat
           /\ frametime_us \in Nat /\ periodtime_us \in Nat
<1>1. /\ MaxFrames \in Nat /\ MaxPeriods \in Nat
      /\ frametime_us \in Nat /\ periodtime_us \in Nat
  BY EncodeAssumption
<1>2. left \in [Stream -> Nat] /\ \A s \in Stream : left[s] <= Total(s)
  BY DEF CountInv, CountTypes
<1>3. \A s \in Stream : Loaded(s) \in Nat
  BY <1>1, <1>2 DEF Loaded, Total
<1> QED BY <1>1, <1>2, <1>3 DEF OrderInv, DataInv, DataTypes, CountInv, CountTypes

(* One more of a duration.                                                 *)
LEMMA OneMoreTaken ==
    ASSUME NEW n \in Nat, NEW d \in Nat
    PROVE  n * d \in Nat /\ (n + 1) * d = n * d + d
OBVIOUS

LEMMA LoadInit == Init => LoadInv
<1> SUFFICES ASSUME Init PROVE LoadInv
    OBVIOUS
<1>1. \A s \in Stream : Loaded(s) = 0 /\ encoded[s] = 0
  BY EncodeAssumption DEF Init, Loaded
<1>2. avd = 0 /\ running = TRUE /\ audio_end = FALSE /\ pc["loader"] # "closeVs"
  BY DEF Init
<1>3. Ahead = 0
  <2>1. 0 * frametime_us = 0 /\ 0 * periodtime_us = 0
    BY EncodeAssumption
  <2> QED BY <1>1, <1>2, <2>1 DEF Ahead
<1> QED BY <1>1, <1>2, <1>3 DEF LoadInv

(* What neither takes nor ends anything keeps it.                          *)
LEMMA MoveKeepsLoad ==
    ASSUME OrderInv, CountInv, LoadInv,
           UNCHANGED <<mode, nosound, left>>,
           encoded' \in [Stream -> Nat], \A s \in Stream : encoded'[s] >= encoded[s],
           audio_end' => audio_end \/ left["vs"] = 0,
           running' => running /\ avd' = avd /\ (pc["loader"] = "closeVs" <=> pc'["loader"] = "closeVs"),
           ~running' /\ ~interrupted' /\ mode = "cache" => (~running /\ ~interrupted) \/ AllTaken
    PROVE  LoadInv'
<1>1. \A s \in Stream : Loaded(s)' = Loaded(s) /\ Loaded(s) \in Nat
  BY TakenIs DEF Loaded
<1>2. \A s \in Stream : encoded'[s] >= Loaded(s)
  <2> TAKE s \in Stream
  <2>1. encoded[s] >= Loaded(s) /\ encoded'[s] >= encoded[s]
    BY DEF LoadInv
  <2>2. encoded[s] \in Nat /\ encoded'[s] \in Nat /\ Loaded(s) \in Nat
    BY TakenIs
  <2> QED BY <2>1, <2>2
<1>3. AllTaken => AllTaken'
  BY <1>1 DEF AllTaken
<1>4. running' => Ahead' = Ahead
  BY <1>1 DEF Ahead
<1> QED BY <1>1, <1>2, <1>3, <1>4 DEF LoadInv

LEMMA LoadNext == LoadInv /\ CountInv /\ OrderInv /\ ExclusiveInv /\ [Next]_vars => LoadInv'
<1> SUFFICES ASSUME LoadInv, CountInv, OrderInv, ExclusiveInv, [Next]_vars PROVE LoadInv'
    OBVIOUS
<1>0. /\ mode \in {"onTheFly", "cache"} /\ nosound \in BOOLEAN /\ running \in BOOLEAN
      /\ interrupted \in BOOLEAN /\ audio_end \in BOOLEAN /\ avd \in Int
      /\ pc \in [Thread -> Labels]
      /\ left \in [Stream -> Nat] /\ encoded \in [Stream -> Nat]
      /\ \A s \in Stream : Loaded(s) \in Nat
      /\ MaxFrames \in Nat /\ MaxPeriods \in Nat
      /\ frametime_us \in Nat /\ periodtime_us \in Nat
  BY TakenIs
<1>1. ASSUME NEW s \in Stream, PacketIn(s)
      PROVE  /\ encoded' \in [Stream -> Nat] /\ encoded'[s] = encoded[s] + 1
             /\ \A u \in Stream : encoded'[u] >= encoded[u]
             /\ \A u \in Stream \ {s} : encoded'[u] = encoded[u]
  BY <1>0, <1>1 DEF PacketIn
<1>2. ASSUME NEW t \in {"video", "audio"}, Encoder(t) PROVE LoadInv'
  <2>1. mode = "onTheFly"
    BY <1>0, <1>2 DEF Encoder, EncoderStart, EncoderLoop, EncoderWait, EncoderPacket, EncoderFinish,
                      Go, ExclusiveInv, ModeThreads
  <2>2. CASE EncoderPacket(t)
    <3>1. /\ PacketIn(Of(t)) /\ UNCHANGED <<mode, audio_end>>
          /\ left' = [left EXCEPT ![Of(t)] = IF @ = 0 THEN 0 ELSE @ - 1]
      BY <2>2 DEF EncoderPacket
    <3>2. Of(t) \in Stream
      BY DEF Of
    <3>3. /\ left' \in [Stream -> Nat] /\ \A u \in Stream \ {Of(t)} : left'[u] = left[u]
          /\ left'[Of(t)] \in Nat /\ left'[Of(t)] >= left[Of(t)] - 1
          /\ left["vs"] = 0 => left'["vs"] = 0
      BY <3>1, <3>2, <1>0
    <3>4. ASSUME NEW s \in Stream PROVE encoded'[s] >= Loaded(s)'
      <4>1. encoded[s] >= Loaded(s) /\ encoded[s] \in Nat /\ left[s] \in Nat /\ left'[s] \in Nat
        BY <1>0, <3>3 DEF LoadInv
      <4>2. CASE s = Of(t)
        BY <4>1, <4>2, <3>1, <3>2, <3>3, <1>0, <1>1 DEF Loaded
      <4>3. CASE s # Of(t)
        BY <4>1, <4>3, <3>1, <3>2, <3>3, <1>0, <1>1 DEF Loaded
      <4> QED BY <4>2, <4>3
    <3> QED BY <2>1, <3>1, <3>3, <3>4 DEF LoadInv
  <2>3. CASE EncoderStart(t) \/ EncoderLoop(t) \/ EncoderWait(t) \/ EncoderFinish(t)
    <3>1. UNCHANGED <<mode, nosound, left, encoded, audio_end, avd, running, interrupted>>
      BY <2>3 DEF EncoderStart, EncoderLoop, EncoderWait, EncoderFinish, streamVars, loaderVars
    <3>2. UNCHANGED <<Loaded("ts"), Loaded("vs")>>
      BY <3>1 DEF Loaded
    <3> QED BY <2>1, <3>1, <3>2 DEF LoadInv
  <2> QED BY <1>2, <2>2, <2>3 DEF Encoder
<1>3. CASE Loader
  <2>1. CASE LoaderFrame
    <3>1. /\ PacketIn("ts") /\ pc["loader"] = "encodeTs" /\ pc'["loader"] = "loop"
          /\ avd' = avd + frametime_us /\ left' = [left EXCEPT !["ts"] = @ - 1]
          /\ UNCHANGED <<mode, nosound, running, interrupted, audio_end>>
      BY <2>1, <1>0 DEF LoaderFrame, rmdSyncEncodeImageBuffer, Go
    <3>2. left["ts"] > 0 /\ (~running => interrupted)
      BY <3>1, <1>0 DEF CountInv, InHand, ExclusiveInv, LoaderIdle
    <3>3. Loaded("ts")' = Loaded("ts") + 1 /\ Loaded("vs")' = Loaded("vs")
      BY <3>1, <1>0 DEF Loaded
    <3>4. \A s \in Stream : encoded'[s] >= Loaded(s)'
      <4>1. encoded["ts"] >= Loaded("ts") /\ encoded["vs"] >= Loaded("vs")
        BY DEF LoadInv
      <4> QED BY <4>1, <3>1, <3>3, <1>0, <1>1
    <3>5. running => avd' = Ahead' \/ mode # "cache"
      <4>1. (Loaded("ts") + 1) * frametime_us = Loaded("ts") * frametime_us + frametime_us
        BY <1>0, OneMoreTaken
      <4>2. Loaded("ts") * frametime_us \in Nat /\ Loaded("vs") * periodtime_us \in Nat
        BY <1>0, OneMoreTaken
      <4>3. running /\ mode = "cache" => avd = Loaded("ts") * frametime_us - Loaded("vs") * periodtime_us
        BY <3>1, <4>2, <1>0 DEF LoadInv, Ahead
      <4>4. Ahead' = (Loaded("ts") + 1) * frametime_us - Loaded("vs") * periodtime_us
        BY <3>1, <3>3, <4>1, <4>2, <1>0 DEF Ahead
      <4> QED BY <3>1, <4>1, <4>2, <4>3, <4>4, <1>0
    <3> QED BY <3>1, <3>2, <3>4, <3>5, <1>0 DEF LoadInv
  <2>2. CASE LoaderPeriod
    <3>1. /\ PacketIn("vs") /\ pc["loader"] = "encodeVs" /\ pc'["loader"] = "closeVs"
          /\ left' = [left EXCEPT !["vs"] = @ - 1]
          /\ UNCHANGED <<mode, nosound, running, interrupted, audio_end, avd>>
      BY <2>2, <1>0 DEF LoaderPeriod, Go
    <3>2. left["vs"] > 0 /\ (~running => interrupted)
      BY <3>1, <1>0 DEF CountInv, InHand, ExclusiveInv, LoaderIdle
    <3>3. Loaded("vs")' = Loaded("vs") + 1 /\ Loaded("ts")' = Loaded("ts")
      BY <3>1, <1>0 DEF Loaded
    <3>4. \A s \in Stream : encoded'[s] >= Loaded(s)'
      <4>1. encoded["ts"] >= Loaded("ts") /\ encoded["vs"] >= Loaded("vs")
        BY DEF LoadInv
      <4> QED BY <4>1, <3>1, <3>3, <1>0, <1>1
    <3>5. running => avd' = Ahead' \/ mode # "cache"
      <4>1. (Loaded("vs") + 1) * periodtime_us = Loaded("vs") * periodtime_us + periodtime_us
        BY <1>0, OneMoreTaken
      <4>2. Loaded("ts") * frametime_us \in Nat /\ Loaded("vs") * periodtime_us \in Nat
        BY <1>0, OneMoreTaken
      <4>3. running /\ mode = "cache" => avd = Loaded("ts") * frametime_us - Loaded("vs") * periodtime_us
        BY <3>1, <4>2, <1>0 DEF LoadInv, Ahead
      <4>4. Ahead' = Loaded("ts") * frametime_us - (Loaded("vs") + 1) * periodtime_us + periodtime_us
        BY <3>1, <3>3 DEF Ahead
      <4> QED BY <3>1, <4>1, <4>2, <4>3, <4>4, <1>0
    <3> QED BY <3>1, <3>2, <3>4, <3>5, <1>0 DEF LoadInv
  <2>3. CASE LoaderClose
    <3>1. /\ pc["loader"] = "closeVs" /\ pc'["loader"] = "loop" /\ avd' = avd - periodtime_us
          /\ UNCHANGED <<mode, nosound, running, interrupted, audio_end, left, encoded>>
      BY <2>3, <1>0 DEF LoaderClose, Go
    <3>2. ~running => interrupted
      BY <3>1, <1>0 DEF ExclusiveInv, LoaderIdle
    <3>3. Loaded("vs")' = Loaded("vs") /\ Loaded("ts")' = Loaded("ts")
      BY <3>1 DEF Loaded
    <3>4. \A s \in Stream : encoded'[s] >= Loaded(s)'
      BY <3>1, <3>3 DEF LoadInv
    <3>5. running => avd' = Ahead' \/ mode # "cache"
      <4>1. Loaded("ts") * frametime_us \in Nat /\ Loaded("vs") * periodtime_us \in Nat
        BY <1>0, OneMoreTaken
      <4>2. running /\ mode = "cache" =>
                avd = Loaded("ts") * frametime_us - Loaded("vs") * periodtime_us + periodtime_us
        BY <3>1 DEF LoadInv, Ahead
      <4>3. Ahead' = Loaded("ts") * frametime_us - Loaded("vs") * periodtime_us
        BY <3>1, <3>3, <4>1, <1>0 DEF Ahead
      <4> QED BY <3>1, <4>1, <4>2, <4>3, <1>0
    <3> QED BY <3>1, <3>2, <3>4, <3>5, <1>0 DEF LoadInv
  <2>4. CASE LoaderLoop
    <3>1. /\ pc["loader"] = "loop" /\ pc'["loader"] # "closeVs"
          /\ UNCHANGED <<mode, nosound, interrupted, left, encoded, avd>>
          /\ audio_end' => audio_end \/ left["vs"] = 0
          /\ running' => running
          /\ running' \in BOOLEAN
          /\ running /\ ~running' => VideoTurn /\ left["ts"] = 0
      <4>1. pc["loader"] = "loop" /\ UNCHANGED <<mode, nosound, interrupted, left, encoded, avd>>
        BY <2>4 DEF LoaderLoop, At, streamVars
      <4>2. left["ts"] \in Nat /\ left["vs"] \in Nat
        BY <1>0
      <4> DEFINE more(s) == left[s] > 0
      <4>3. (~more("ts") => left["ts"] = 0) /\ (~more("vs") => left["vs"] = 0)
        BY <4>2
      <4>4. \/ /\ ~running
               /\ Go("loader", "loop", "finish") /\ UNCHANGED <<running, audio_end>>
            \/ /\ running /\ VideoTurn /\ more("ts")
               /\ Go("loader", "loop", "encodeTs") /\ UNCHANGED <<running, audio_end>>
            \/ /\ running /\ VideoTurn /\ ~more("ts")
               /\ running' = FALSE /\ UNCHANGED <<pc, audio_end>>
            \/ /\ running /\ ~VideoTurn /\ more("vs")
               /\ Go("loader", "loop", "encodeVs") /\ UNCHANGED <<running, audio_end>>
            \/ /\ running /\ ~VideoTurn /\ ~more("vs")
               /\ audio_end' = TRUE /\ UNCHANGED <<pc, running>>
        BY <2>4 DEF LoaderLoop
      <4> HIDE DEF more
      <4>5. pc'["loader"] # "closeVs"
        BY <4>1, <4>4, <1>0 DEF Go
      <4>6. (running' => running) /\ running' \in BOOLEAN
        <5>1. running' = running \/ running' = FALSE
          BY <4>4, Zenon
        <5>2. running \in BOOLEAN
          BY <1>0
        <5>3. CASE running' = running
          BY <5>2, <5>3
        <5>4. CASE running' = FALSE
          BY <5>4
        <5> QED BY <5>1, <5>3, <5>4
      <4>7. audio_end' => audio_end \/ ~more("vs")
        BY <4>4, <1>0
      <4>8. running /\ ~running' => VideoTurn /\ ~more("ts")
        BY <4>4, <1>0
      <4> QED BY <4>1, <4>3, <4>5, <4>6, <4>7, <4>8
    <3>2. CASE running /\ ~running'
      <4>1. VideoTurn /\ left["ts"] = 0
        BY <3>1, <3>2
      <4>2. Loaded("ts") = MaxFrames
        BY <4>1, <1>0 DEF Loaded
      <4>3. ASSUME mode = "cache", avd <= 0
            PROVE  Loaded("vs") * periodtime_us >= MaxFrames * frametime_us
        <5>1. avd = MaxFrames * frametime_us - Loaded("vs") * periodtime_us
          <6>1. avd = Ahead
            BY <3>2, <4>3 DEF LoadInv
          <6>2. MaxFrames * frametime_us \in Nat /\ Loaded("vs") * periodtime_us \in Nat
            BY <1>0, OneMoreTaken
          <6> QED BY <3>1, <4>2, <6>1, <6>2 DEF Ahead
        <5>2. MaxFrames * frametime_us \in Nat /\ Loaded("vs") * periodtime_us \in Nat
          BY <1>0, OneMoreTaken
        <5> QED BY <4>3, <5>1, <5>2, <1>0
      <4>4. mode = "cache" => AllTaken
        BY <4>1, <4>3 DEF VideoTurn, AllTaken, LoadInv
      <4> QED BY <3>1, <3>2, <4>4, <1>0, MoveKeepsLoad
    <3>3. CASE running' = running
      BY <3>1, <3>3, <1>0, MoveKeepsLoad
    <3> QED BY <3>1, <3>2, <3>3, <1>0
  <2>5. CASE LoaderFinish
    <3>1. /\ pc["loader"] # "closeVs" /\ pc'["loader"] # "closeVs"
          /\ UNCHANGED <<mode, nosound, interrupted, left, encoded, avd, audio_end, running>>
      BY <2>5, <1>0 DEF LoaderFinish, Go, loaderVars, streamVars
    <3> QED BY <3>1, <1>0, MoveKeepsLoad
  <2> QED BY <1>3, <2>1, <2>2, <2>3, <2>4, <2>5 DEF Loader
<1>4. CASE Flush
  <2>1. /\ UNCHANGED <<mode, nosound, left, audio_end, running, interrupted>>
        /\ pc'["loader"] = pc["loader"]
    <3>1. CASE FlushTop \/ FlushPages \/ FlushWrite
      BY <3>1, <1>0 DEF FlushTop, FlushPages, FlushWrite, Go, loaderVars
    <3>2. CASE \E s \in Stream : FlushRest(s) \/ FlushWait(s) \/ FlushLast(s)
      <4>1. PICK s \in Stream : FlushRest(s) \/ FlushWait(s) \/ FlushLast(s)
        BY <3>2
      <4>2. CASE FlushRest(s)
        BY <4>2, <1>0 DEF FlushRest, Go, loaderVars
      <4>3. CASE FlushWait(s)
        BY <4>3, <1>0 DEF FlushWait, Go, loaderVars
      <4>4. CASE FlushLast(s)
        BY <4>4, <1>0 DEF FlushLast, Go
      <4> QED BY <4>1, <4>2, <4>3, <4>4
    <3> QED BY <1>4, <3>1, <3>2 DEF Flush
  <2>2. CASE \E s \in Stream : FlushLast(s)
    <3>1. PICK s \in Stream : FlushLast(s)
      BY <2>2
    <3>2. pc["flush"] = LastOf(s) /\ PacketIn(s)
      BY <3>1, <1>0 DEF FlushLast, Go, rmdSyncEncodeImageBuffer
    <3>3. ~running
      BY <3>2, <1>0 DEF ExclusiveInv, ClosesWhenOver, LastOf
    <3> QED BY <2>1, <3>2, <3>3, <1>0, <1>1, MoveKeepsLoad
  <2>3. CASE ~\E s \in Stream : FlushLast(s)
    <3>1. UNCHANGED <<encoded, avd>>
      BY <1>4, <2>3 DEF Flush, FlushTop, FlushPages, FlushWrite, FlushRest, FlushWait, loaderVars, streamVars
    <3> QED BY <2>1, <3>1, <1>0, MoveKeepsLoad
  <2> QED BY <2>2, <2>3
<1>5. CASE MainJoin \/ Interrupt \/ UNCHANGED vars
  <2>1. /\ UNCHANGED <<mode, nosound, left, encoded, audio_end, avd>>
        /\ pc'["loader"] = pc["loader"]
        /\ running' => running
        /\ ~running' /\ ~interrupted' => ~running /\ ~interrupted
    BY <1>5, <1>0 DEF MainJoin, Interrupt, Go, vars, streamVars, loaderVars
  <2> QED BY <2>1, <1>0, MoveKeepsLoad
<1> QED BY <1>2, <1>3, <1>4, <1>5 DEF Next

(* Of a cache encoded to its end nothing is left out but sound beyond the  *)
(* end of the video, and every stream that the flusher has ended is closed *)
(* (rmd_load_cache.c:213-286).                                             *)
THEOREM CompleteFile == Spec => []FileComplete
<1>1. LoadInv => CacheEncoded
  BY DEF LoadInv, AllTaken, CacheEncoded
<1>2. Init => CountInv /\ LoadInv
  BY CountInit, LoadInit
<1>3. CountInv /\ LoadInv /\ OrderInv /\ ExclusiveInv /\ [Next]_vars => CountInv' /\ LoadInv'
  BY CountNext, LoadNext
<1>4. Spec => []CacheEncoded
  BY <1>1, <1>2, <1>3, StreamsInOrder, ThreadsInPlace, PTL DEF Spec
<1>5. StreamsClosed /\ CacheEncoded => FileComplete
  BY DEF FileComplete
<1> QED BY <1>4, <1>5, BothStreamsClosed, PTL
=============================================================================
