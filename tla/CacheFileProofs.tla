-------------------------- MODULE CacheFileProofs --------------------------
(***************************************************************************)
(* The cache of pictures, for chapters of any size and frames of any       *)
(* length: no write or read goes through a NULL handle, what is loaded is  *)
(* what was cached, none of it missing, and no chapter stays behind.       *)
(***************************************************************************)
EXTENDS CacheFile, SequenceTheorems, TLAPS

Writing == {"idle", "write", "join", "open", "put", "last"}
InHand  == {"write", "join", "open", "put"}
Header  == {"header", "headerNext"}
Frame   == {"body", "bodyNext"}
Loading == Header \cup Frame

(* While chapters are written: a chapter without a handle is a full one,   *)
(* and the syncer is that of the handle.                                   *)
OneHandle ==
    /\ pc \in Writing =>
         /\ ~crashed
         /\ file.fp \in {NULL, file.chapter}
         /\ file.fp = NULL => pc \notin {"join", "put"} /\ (pc # "last" => Full)
         /\ pc \in {"join", "open"} => Full
         /\ pc = "open" => file.fp = NULL
         /\ pc = "put" => ~Full
    /\ syncer.state # "none" => syncer.fd = file.fp /\ file.fp # NULL /\ pc \in Writing \ {"open"}
    /\ pc \in {"header", "body"} => file.fp = file.chapter

(* There is nothing of chapters that are still to come.                    *)
NewChapters ==
    pc \in Writing =>
        /\ \A c \in Chapters : c > file.chapter => c \notin exists /\ c \notin allocated /\ data[c] = <<>>
        /\ file.fp # NULL => Len(data[file.fp]) = file.chapter_n_bytes

(* A write opens no more than one chapter, so that their numbers suffice.  *)
Writes == Len(sizes) * (MaxBody + 1)
Spent ==
    /\ Len(sizes) <= MaxFrames
    /\ pc \in Writing => file.chapter + Len(todo) <= Writes + (IF pc = "put" THEN 1 ELSE 0)
    /\ pc \in {"idle", "last"} => todo = <<>>

(* What is left of the frame in hand are its last bytes.                   *)
InFrame ==
    pc \in InHand =>
        /\ sizes # <<>>
        /\ Len(todo) \in 1 .. sizes[Len(sizes)] + 1
        /\ \A i \in DOMAIN todo : todo[i] = <<Len(sizes), sizes[Len(sizes)] - Len(todo) + i>>

(* The bytes of a chapter are those of frames, or zeros after a crash.     *)
Real(b) == b[1] \in 1..Len(sizes) /\ b[2] \in 0..sizes[b[1]]
Bytes ==
    \A c \in Chapters : \A i \in DOMAIN data[c] : Real(data[c][i]) \/ (data[c][i] = Zero /\ crashed)

(* Where the loader is, and that it has read nothing but such bytes.       *)
GotReal == \A i \in DOMAIN reading.got : Real(reading.got[i]) \/ reading.got[i] = Zero
InCache ==
    /\ pc \in Writing \cup {"load"} => reading.at = 0 /\ loaded = <<>> /\ nth_cache = 0
    /\ pc \in Loading => nth_cache = 0 /\ GotReal
    /\ pc \in {"header", "body"} => reading.at <= Len(Content(file.chapter))
    /\ pc \in {"headerNext", "bodyNext"} => reading.at = Len(Content(file.chapter)) /\ reading.len > 0
    /\ pc \in Header => Len(reading.got) + reading.len = 1
    /\ pc \in Frame => reading.frame \in DOMAIN sizes
                       /\ Len(reading.got) + reading.len = sizes[reading.frame]

SafeInv == TypeOK /\ OneHandle /\ NewChapters /\ Spent /\ InFrame /\ Bytes /\ InCache
-----------------------------------------------------------------------------
(* What the types say, in the form the proofs use it.                      *)
LEMMA BytesAre ==
    /\ \A n \in 0..MaxFrames, k \in 0..MaxBody : <<n, k>> \in Byte
    /\ \A b \in Byte : b[1] \in 0..MaxFrames /\ b[2] \in 0..MaxBody /\ b = <<b[1], b[2]>>
    /\ Zero \in Byte
  BY CacheAssumption DEF Byte, Zero

(* The zeros a chapter reads as after what was written to it.              *)
LEMMA ZerosAre ==
    ASSUME NEW n \in Int
    PROVE  LET zeros == [i \in 1..n |-> Zero] IN
           /\ zeros \in Seq(Byte)
           /\ Len(zeros) = IF n > 0 THEN n ELSE 0
           /\ \A i \in 1..Len(zeros) : zeros[i] = Zero
<1> DEFINE zeros == [i \in 1..n |-> Zero]
           m == IF n > 0 THEN n ELSE 0
<1>1. m \in Nat /\ 1..n = 1..m
  OBVIOUS
<1>2. zeros \in [1..m -> Byte] /\ DOMAIN zeros = 1..m /\ \A i \in 1..m : zeros[i] = Zero
  BY <1>1, BytesAre
<1> HIDE DEF zeros, m
<1>3. zeros \in Seq(Byte)
  BY <1>1, <1>2, SeqDef
<1>4. Len(zeros) = m
  BY <1>1, <1>2, <1>3, LenProperties
<1>5. /\ zeros \in Seq(Byte) /\ Len(zeros) = m
      /\ \A i \in 1..Len(zeros) : zeros[i] = Zero
  BY <1>2, <1>3, <1>4
<1> QED  BY <1>5 DEF zeros, m

(* A chapter reads as what was written to it, and zeros after that.        *)
LEMMA ContentIs ==
    ASSUME TypeOK, NEW c \in Chapters
    PROVE  /\ Content(c) \in Seq(Byte)
           /\ data[c] \in Seq(Byte)
           /\ Len(data[c]) \in Nat /\ Len(Content(c)) \in Nat
           /\ Len(data[c]) <= Len(Content(c))
           /\ \A i \in 1..Len(data[c]) : Content(c)[i] = data[c][i]
           /\ \A i \in Len(data[c]) + 1..Len(Content(c)) : Content(c)[i] = Zero
           /\ Len(data[c]) > CACHE_FILE_SIZE_LIMIT => Len(Content(c)) = Len(data[c])
<1>1. data[c] \in Seq(Byte) /\ Len(data[c]) \in Nat
  <2>1. data[c] \in Seq(Byte)
    BY DEF TypeOK
  <2> QED  BY <2>1, LenProperties
<1>2. CASE compressed \/ c \notin allocated
  BY <1>1, <1>2 DEF Content
<1>3. CASE ~(compressed \/ c \notin allocated)
  <2> DEFINE room == CACHE_FILE_SIZE_LIMIT - Len(data[c])
             zeros == [i \in 1..room |-> Zero]
  <2>1. room \in Int
    BY <1>1, CacheAssumption
  <2>2. /\ zeros \in Seq(Byte)
        /\ Len(zeros) = IF room > 0 THEN room ELSE 0
        /\ \A i \in 1..Len(zeros) : zeros[i] = Zero
    BY <2>1, ZerosAre
  <2>3. Content(c) = data[c] \o zeros
    BY <1>3 DEF Content
  <2> HIDE DEF zeros
  <2>4. /\ data[c] \o zeros \in Seq(Byte)
        /\ Len(data[c] \o zeros) = Len(data[c]) + Len(zeros)
        /\ \A i \in 1..Len(data[c]) + Len(zeros) : (data[c] \o zeros)[i] =
               IF i <= Len(data[c]) THEN data[c][i] ELSE zeros[i - Len(data[c])]
    BY <1>1, <2>2, ConcatProperties
  <2>5. Len(zeros) \in Nat
    BY <2>2, LenProperties
  <2>6. \A i \in Len(data[c]) + 1..Len(Content(c)) : Content(c)[i] = Zero
    BY <1>1, <2>2, <2>3, <2>4, <2>5
  <2>7. \A i \in 1..Len(data[c]) : Content(c)[i] = data[c][i]
    BY <1>1, <2>3, <2>4, <2>5
  <2>8. /\ Len(Content(c)) = Len(data[c]) + Len(zeros)
        /\ Len(data[c]) > CACHE_FILE_SIZE_LIMIT => Len(zeros) = 0
    BY <1>1, <2>2, <2>3, <2>4, CacheAssumption
  <2>9. Content(c) \in Seq(Byte)
    BY <2>3, <2>4
  <2> QED  BY <1>1, <2>5, <2>6, <2>7, <2>8, <2>9
<1> QED  BY <1>2, <1>3

LEMMA ContentKept ==
    ASSUME UNCHANGED <<compressed, allocated, data>>
    PROVE  \A c \in Chapters : Content(c)' = Content(c)
  BY DEF Content

(* The sizes of the frames are numbers, one for each frame.                *)
LEMMA SizesAre ==
    ASSUME TypeOK
    PROVE  /\ Len(sizes) \in Nat /\ DOMAIN sizes = 1..Len(sizes)
           /\ \A n \in 1..Len(sizes) : sizes[n] \in 1..MaxBody /\ sizes[n] \in Nat
           /\ sizes # <<>> <=> Len(sizes) \in 1..Len(sizes)
           /\ Writes \in Nat
<1>1. sizes \in Seq(1..MaxBody)
  BY DEF TypeOK
<1>2. Len(sizes) \in Nat /\ DOMAIN sizes = 1..Len(sizes)
  BY <1>1, LenProperties
<1>3. \A n \in 1..Len(sizes) : sizes[n] \in 1..MaxBody
  BY <1>1, ElementOfSeq
<1>4. sizes # <<>> <=> Len(sizes) \in 1..Len(sizes)
  BY <1>1, <1>2, EmptySeq
<1>5. Writes \in Nat
  BY <1>2, CacheAssumption DEF Writes
<1> QED  BY <1>2, <1>3, <1>4, <1>5, CacheAssumption

(* The next write takes the first of what is left.                         *)
LEMMA NextWriteTakes ==
    ASSUME TypeOK, InFrame, pc \in InHand, NextWrite
    PROVE  /\ todo' \in Seq(Byte) /\ Len(todo) \in Nat /\ Len(todo') = Len(todo) - 1
           /\ \A i \in 1..Len(todo) - 1 : todo'[i] = todo[i + 1]
           /\ Head(todo) = todo[1] /\ Head(todo) \in Byte /\ todo # <<>>
           /\ pc' = IF Len(todo) = 1 THEN "idle" ELSE "write"
           /\ Len(todo) = 1 <=> todo' = <<>>
           /\ sizes' = sizes /\ InFrame'
<1>1. todo \in Seq(Byte) /\ Len(todo) \in Nat /\ Len(todo) >= 1 /\ todo # <<>>
  <2>1. todo \in Seq(Byte) /\ Len(todo) >= 1
    BY DEF TypeOK, InFrame
  <2> QED  BY <2>1, LenProperties, EmptySeq
<1>2. /\ todo' \in Seq(Byte) /\ Len(todo') = Len(todo) - 1
      /\ \A i \in 1..Len(todo) - 1 : todo'[i] = todo[i + 1]
      /\ Head(todo) = todo[1] /\ Head(todo) \in Byte
  <2>1. /\ Tail(todo) \in Seq(Byte) /\ Len(Tail(todo)) = Len(todo) - 1
        /\ \A i \in 1..Len(Tail(todo)) : Tail(todo)[i] = todo[i + 1]
        /\ Head(todo) \in Byte
    BY <1>1, HeadTailProperties
  <2>2. Head(todo) = todo[1]
    BY <1>1
  <2> QED  BY <2>1, <2>2 DEF NextWrite
<1>3. Len(todo) = 1 <=> todo' = <<>>
  BY <1>1, <1>2, EmptySeq
<1>4. sizes' = sizes /\ pc' = IF Len(todo) = 1 THEN "idle" ELSE "write"
  BY DEF NextWrite
<1>5. InFrame'
  <2> SUFFICES ASSUME pc' \in InHand
               PROVE  InFrame'
    BY DEF InFrame
  <2>1. Len(todo) # 1
    BY <1>4 DEF InHand
  <2>2. Len(todo') \in 1..sizes[Len(sizes)] + 1 /\ DOMAIN todo' = 1..Len(todo) - 1
    <3>1. DOMAIN todo' = 1..Len(todo')
      BY <1>2, LenProperties
    <3>2. sizes[Len(sizes)] \in Nat
      BY SizesAre DEF InFrame
    <3> QED  BY <1>1, <1>2, <2>1, <3>1, <3>2 DEF InFrame
  <2>3. \A i \in DOMAIN todo' : todo'[i] = <<Len(sizes), sizes[Len(sizes)] - Len(todo') + i>>
    <3> SUFFICES ASSUME NEW i \in DOMAIN todo'
                 PROVE  todo'[i] = <<Len(sizes), sizes[Len(sizes)] - Len(todo') + i>>
      OBVIOUS
    <3> DEFINE m == sizes[Len(sizes)]
    <3>0. m \in Int
      BY SizesAre DEF InFrame
    <3>1. i \in 1..Len(todo) - 1 /\ i + 1 \in DOMAIN todo
      BY <1>1, <2>2
    <3>2. todo[i + 1] = <<Len(sizes), m - Len(todo) + (i + 1)>>
      BY <3>1 DEF InFrame
    <3> HIDE DEF m
    <3>3. m - Len(todo) + (i + 1) = m - Len(todo') + i
      BY <1>1, <1>2, <3>0, <3>1
    <3> QED  BY <1>2, <3>1, <3>2, <3>3 DEF m
  <2> QED  BY <1>4, <2>2, <2>3 DEF InFrame
<1> QED  BY <1>1, <1>2, <1>3, <1>4, <1>5

(* The handles of the open chapter are chapters, or NULL.                  *)
LEMMA HandleIs ==
    ASSUME TypeOK
    PROVE  /\ file.fp \in Chapters \cup {NULL} /\ file.chapter \in Chapters
           /\ file.chapter_n_bytes \in Nat
           /\ \A c \in Chapters : c \in Nat /\ c # NULL
           /\ syncer.state \in {"none", "allocate", "sync"} /\ syncer.fd \in Chapters \cup {NULL}
<1>1. file \in [fp : Chapters \cup {NULL}, chapter : Chapters, chapter_n_bytes : Nat]
  BY DEF TypeOK
<1>2. syncer \in [state : {"none", "allocate", "sync"}, fd : Chapters \cup {NULL}, cancelled : BOOLEAN]
  BY DEF TypeOK
<1>3. \A c \in Chapters : c \in Nat /\ c # NULL
  BY DEF Chapters, NULL
<1> QED  BY <1>1, <1>2, <1>3

-----------------------------------------------------------------------------
(* Each step of the syncer and of the cacher keeps the invariant.          *)
LEMMA SyncerAllocatesSafe ==
    ASSUME SafeInv, SyncerAllocates
    PROVE  SafeInv'
<1> USE DEF SafeInv, SyncerAllocates, writerVars, readerVars, history
<1>1. /\ syncer.fd = file.fp /\ file.fp # NULL /\ pc \in Writing \ {"open"}
      /\ file.fp = file.chapter /\ file.chapter \in Chapters
  BY HandleIs DEF OneHandle
<1>2. TypeOK'
  BY <1>1 DEF TypeOK
<1>3. OneHandle'
  <2>1. syncer'.fd = syncer.fd
    BY DEF TypeOK
  <2> QED  BY <1>1, <2>1 DEF OneHandle, Full
<1>4. NewChapters'
  BY <1>1, HandleIs DEF NewChapters
<1>5. Spent' /\ InFrame'
  BY DEF Spent, Writes, InFrame
<1>6. Bytes'
  BY DEF Bytes, Real
<1>7. InCache'
  BY <1>1 DEF InCache, Writing, Loading, Header, Frame
<1> QED  BY <1>2, <1>3, <1>4, <1>5, <1>6, <1>7

LEMMA SyncerEndsSafe ==
    ASSUME SafeInv, SyncerEnds
    PROVE  SafeInv'
<1> USE DEF SafeInv, SyncerEnds, writerVars, readerVars, history
<1>1. NoSyncer \in [state : {"none", "allocate", "sync"}, fd : Chapters \cup {NULL}, cancelled : BOOLEAN]
      /\ NoSyncer.state = "none"
  BY DEF NoSyncer
<1>2. TypeOK'
  BY <1>1 DEF TypeOK
<1>3. OneHandle'
  BY <1>1 DEF OneHandle, Full
<1>4. NewChapters' /\ Spent' /\ InFrame'
  BY DEF NewChapters, Spent, Writes, InFrame
<1>5. Bytes'
  BY DEF Bytes, Real
<1>6. InCache'
  <2>1. pc \in Writing
    BY DEF OneHandle
  <2> QED  BY <2>1 DEF InCache, Writing, Loading, Header, Frame
<1> QED  BY <1>2, <1>3, <1>4, <1>5, <1>6

LEMMA StartFrameSafe ==
    ASSUME SafeInv, NEW n \in 1..MaxBody, StartFrame(n)
    PROVE  SafeInv'
<1> USE CacheAssumption DEF SafeInv, StartFrame, Go, At, fileVars, readerVars, history
<1> DEFINE m == Len(sizes)
<1>1. /\ m \in Nat /\ m < MaxFrames /\ sizes' \in Seq(1..MaxBody) /\ sizes \in Seq(1..MaxBody)
      /\ Len(sizes') = m + 1 /\ sizes'[m + 1] = n /\ \A i \in 1..m : sizes'[i] = sizes[i]
  <2>1. sizes \in Seq(1..MaxBody)
    BY DEF TypeOK
  <2> QED  BY <2>1, AppendProperties, LenProperties
<1>2. /\ todo' \in Seq(Byte) /\ Len(todo') = n + 1 /\ DOMAIN todo' = 1..n + 1
      /\ \A i \in 1..n + 1 : todo'[i] = <<m + 1, i - 1>>
  <2>1. todo' = [i \in 1..n + 1 |-> <<m + 1, i - 1>>]
    BY <1>1
  <2>2. ASSUME NEW i \in 1..n + 1
        PROVE  <<m + 1, i - 1>> \in Byte
    <3>1. m + 1 \in 0..MaxFrames /\ i - 1 \in 0..MaxBody
      BY <1>1
    <3> QED  BY <3>1, BytesAre
  <2>3. todo' \in [1..n + 1 -> Byte] /\ n + 1 \in Nat
    BY <2>1, <2>2
  <2>4. todo' \in Seq(Byte)
    BY <2>3, SeqDef
  <2> QED  BY <2>1, <2>3, <2>4, LenProperties
<1> HIDE DEF m
<1>3. TypeOK'
  BY <1>1, <1>2 DEF TypeOK
<1>4. OneHandle'
  BY DEF OneHandle, Writing, Full
<1>5. NewChapters'
  BY DEF NewChapters, Writing
<1>6. Spent'
  <2>1. todo = <<>> /\ file.chapter + Len(todo) <= Writes
    BY SizesAre DEF Spent, Writing
  <2>2. file.chapter <= Writes
    BY <2>1, HandleIs
  <2>3. Writes' = Writes + MaxBody + 1 /\ Writes \in Nat
    <3>1. (m + 1) * (MaxBody + 1) = m * (MaxBody + 1) + MaxBody + 1
      BY <1>1
    <3> QED  BY <1>1, <3>1, SizesAre DEF Writes, m
  <2>4. file.chapter + (n + 1) <= Writes'
    BY <2>2, <2>3, HandleIs
  <2>5. Writes' \in Nat /\ file.chapter + Len(todo') <= Writes'
    BY <1>2, <2>3, <2>4
  <2> QED  BY <1>1, <2>5 DEF Spent
<1>7. InFrame'
  <2>1. sizes' # <<>>
    BY <1>1
  <2>2. \A i \in DOMAIN todo' : todo'[i] = <<m + 1, n - (n + 1) + i>>
    BY <1>1, <1>2
  <2> QED  BY <1>1, <1>2, <2>1, <2>2 DEF InFrame
<1>8. Bytes'
  <2>1. ASSUME NEW c \in Chapters, NEW i \in DOMAIN data[c], Real(data[c][i])
        PROVE  Real(data[c][i])'
    <3>1. PICK b : b = data[c][i]
      OBVIOUS
    <3>2. b[1] \in 1..m /\ b[2] \in 0..sizes[b[1]]
      BY <2>1, <3>1 DEF Real, m
    <3>3. b[1] \in 1..m + 1 /\ b[2] \in 0..sizes'[b[1]]
      BY <1>1, <3>2
    <3> QED  BY <1>1, <3>1, <3>3 DEF Real
  <2> QED  BY <2>1 DEF Bytes
<1>9. InCache'
  BY DEF InCache, Writing, Loading, Header, Frame
<1> QED  BY <1>3, <1>4, <1>5, <1>6, <1>7, <1>8, <1>9

LEMMA CloseFullSafe ==
    ASSUME SafeInv, CloseFull
    PROVE  SafeInv'
<1> USE DEF SafeInv, CloseFull, At, writerVars, readerVars, history
<1>1. /\ pc = "write" /\ Full
      /\ \/ file.fp = NULL /\ pc' = "open" /\ syncer' = syncer
         \/ file.fp # NULL /\ pc' = "join" /\ syncer' = [syncer EXCEPT !.cancelled = TRUE]
  OBVIOUS
<1>2. syncer' \in [state : {"none", "allocate", "sync"}, fd : Chapters \cup {NULL}, cancelled : BOOLEAN]
      /\ syncer'.state = syncer.state /\ syncer'.fd = syncer.fd
  BY <1>1 DEF TypeOK
<1>3. TypeOK'
  BY <1>1, <1>2 DEF TypeOK
<1>4. OneHandle'
  BY <1>1, <1>2 DEF OneHandle, Writing, Full
<1>5. NewChapters'
  BY <1>1 DEF NewChapters, Writing
<1>6. Spent'
  BY <1>1 DEF Spent, Writes, Writing
<1>7. InFrame'
  BY <1>1 DEF InFrame, InHand
<1>8. Bytes'
  BY DEF Bytes, Real
<1>9. InCache'
  BY <1>1 DEF InCache, Writing, Loading, Header, Frame
<1> QED  BY <1>3, <1>4, <1>5, <1>6, <1>7, <1>8, <1>9

LEMMA CloseWorksSafe ==
    ASSUME SafeInv, CloseWorks
    PROVE  SafeInv'
<1> USE DEF SafeInv, CloseWorks, Go, Close, writerVars, readerVars, history
<1>1. file' = [file EXCEPT !.fp = NULL] /\ pc = "join" /\ pc' = "open" /\ syncer.state = "none"
  OBVIOUS
<1>2. file' \in [fp : Chapters \cup {NULL}, chapter : Chapters, chapter_n_bytes : Nat]
      /\ file'.fp = NULL /\ file'.chapter = file.chapter /\ file'.chapter_n_bytes = file.chapter_n_bytes
  BY <1>1 DEF TypeOK
<1>3. TypeOK'
  BY <1>1, <1>2 DEF TypeOK
<1>4. OneHandle'
  BY <1>1, <1>2 DEF OneHandle, Writing, Full
<1>5. NewChapters'
  BY <1>1, <1>2 DEF NewChapters, Writing
<1>6. Spent'
  BY <1>1, <1>2 DEF Spent, Writes, Writing
<1>7. InFrame'
  BY <1>1 DEF InFrame, InHand
<1>8. Bytes'
  BY DEF Bytes, Real
<1>9. InCache'
  BY <1>1 DEF InCache, Writing, Loading, Header, Frame
<1> QED  BY <1>3, <1>4, <1>5, <1>6, <1>7, <1>8, <1>9

(* What a step writes to one chapter, or cuts of it.                       *)
LEMMA DataWritten ==
    ASSUME TypeOK, NEW c \in Chapters, NEW s \in Seq(Byte), data' = [data EXCEPT ![c] = s]
    PROVE  /\ data' \in [Chapters -> Seq(Byte)] /\ data'[c] = s
           /\ \A d \in Chapters : d # c => data'[d] = data[d]
  BY DEF TypeOK

(* What a cut leaves of a chapter are its first bytes.                     *)
LEMMA DataCut ==
    ASSUME TypeOK, NEW c \in Chapters, NEW n \in 0..Len(data[c])
    PROVE  /\ SubSeq(data[c], 1, n) \in Seq(Byte) /\ Len(SubSeq(data[c], 1, n)) = n
           /\ \A i \in 1..n : SubSeq(data[c], 1, n)[i] = data[c][i]
<1> DEFINE s == data[c]
<1>1. s \in Seq(Byte) /\ Len(s) \in Nat
  BY ContentIs
<1>2. \A i \in 1..n : s[i] \in Byte
  BY <1>1, ElementOfSeq
<1> HIDE DEF s
<1>3. n \in Int /\ n \in Nat
  BY <1>1 DEF s
<1>4. /\ SubSeq(s, 1, n) \in Seq(Byte) /\ Len(SubSeq(s, 1, n)) = IF 1 <= n THEN n - 1 + 1 ELSE 0
      /\ \A i \in 1..n - 1 + 1 : SubSeq(s, 1, n)[i] = s[1 + i - 1]
  BY <1>2, <1>3, SubSeqProperties
<1>5. \A i \in 1..n : SubSeq(s, 1, n)[i] = s[i]
  BY <1>3, <1>4
<1> QED  BY <1>3, <1>4, <1>5 DEF s

LEMMA CloseFailsSafe ==
    ASSUME SafeInv, CloseFails
    PROVE  SafeInv'
<1> USE DEF SafeInv, CloseFails, Close, At
<1>1. /\ file' = [file EXCEPT !.fp = NULL] /\ pc = "join" /\ syncer.state = "none" /\ NextWrite
      /\ failures' = failures + 1 /\ failures < MaxFailures
      /\ UNCHANGED <<compressed, syncer, exists, allocated, sizes, reading, loaded, nth_cache, crashed>>
  BY DEF NextWrite, readerVars
<1>2. file' \in [fp : Chapters \cup {NULL}, chapter : Chapters, chapter_n_bytes : Nat]
      /\ file'.fp = NULL /\ file'.chapter = file.chapter /\ file'.chapter_n_bytes = file.chapter_n_bytes
  BY <1>1 DEF TypeOK
<1>3. /\ todo' \in Seq(Byte) /\ Len(todo) \in Nat /\ Len(todo') = Len(todo) - 1 /\ InFrame'
      /\ pc' \in {"idle", "write"} /\ (pc' = "idle" => todo' = <<>>)
  BY <1>1, NextWriteTakes DEF InHand
<1>4. /\ file.fp = file.chapter /\ file.fp \in Chapters /\ Full
  BY <1>1, HandleIs DEF OneHandle, Writing
<1>5. PICK n \in 0..Len(data[file.fp]) : data' = [data EXCEPT ![file.fp] = SubSeq(@, 1, n)]
  OBVIOUS
<1>6. /\ data' \in [Chapters -> Seq(Byte)]
      /\ \A d \in Chapters : d # file.fp => data'[d] = data[d]
      /\ data'[file.fp] \in Seq(Byte) /\ Len(data'[file.fp]) = n
      /\ \A i \in 1..n : data'[file.fp][i] = data[file.fp][i]
  <2> DEFINE s == SubSeq(data[file.fp], 1, n)
  <2>1. s \in Seq(Byte) /\ Len(s) = n /\ \A i \in 1..n : s[i] = data[file.fp][i]
    BY <1>4, DataCut
  <2>2. data' = [data EXCEPT ![file.fp] = s]
    BY <1>5
  <2> HIDE DEF s
  <2>3. /\ data' \in [Chapters -> Seq(Byte)] /\ data'[file.fp] = s
        /\ \A d \in Chapters : d # file.fp => data'[d] = data[d]
    BY <1>4, <2>1, <2>2, DataWritten
  <2> QED  BY <2>1, <2>3
<1> HIDE DEF CloseFails, Close, At
<1>7. \A c \in Chapters : /\ Len(data'[c]) <= Len(data[c]) /\ DOMAIN data'[c] \subseteq DOMAIN data[c]
                          /\ \A i \in DOMAIN data'[c] : data'[c][i] = data[c][i]
  <2> SUFFICES ASSUME NEW c \in Chapters
               PROVE  /\ Len(data'[c]) <= Len(data[c]) /\ DOMAIN data'[c] \subseteq DOMAIN data[c]
                      /\ \A i \in DOMAIN data'[c] : data'[c][i] = data[c][i]
    OBVIOUS
  <2>1. data[c] \in Seq(Byte) /\ Len(data[c]) \in Nat /\ DOMAIN data[c] = 1..Len(data[c])
    BY ContentIs, LenProperties
  <2>2. CASE c = file.fp
    <3>1. DOMAIN data'[c] = 1..n
      BY <1>6, <2>2, LenProperties
    <3> QED  BY <1>6, <2>1, <2>2, <3>1
  <2>3. CASE c # file.fp
    BY <1>6, <2>1, <2>3
  <2> QED  BY <2>2, <2>3
<1>8. TypeOK'
  <2>1. ~crashed' => \A c \in Chapters : Len(data'[c]) <= CACHE_FILE_SIZE_LIMIT + 1
    <3>1. ASSUME NEW c \in Chapters
          PROVE  Len(data[c]) \in Nat /\ Len(data'[c]) \in Nat
      <4>1. data'[c] \in Seq(Byte)
        BY <1>6
      <4> QED  BY <4>1, LenProperties, ContentIs
    <3>2. ~crashed /\ \A c \in Chapters : Len(data[c]) <= CACHE_FILE_SIZE_LIMIT + 1
      BY <1>1 DEF TypeOK, OneHandle, Writing
    <3> QED  BY <1>7, <3>1, <3>2, CacheAssumption
  <2>2. failures' \in 0..MaxFailures
    <3>1. failures \in 0..MaxFailures
      BY DEF TypeOK
    <3> QED  BY <1>1, <3>1, CacheAssumption
  <2> QED  BY <1>1, <1>2, <1>3, <1>6, <2>1, <2>2 DEF TypeOK
<1>9. OneHandle'
  BY <1>1, <1>2, <1>3, <1>4 DEF OneHandle, Writing, Full
<1>10. NewChapters'
  <2> SUFFICES ASSUME NEW c \in Chapters, c > file.chapter
               PROVE  c \notin exists /\ c \notin allocated /\ data'[c] = <<>>
    BY <1>1, <1>2 DEF NewChapters
  <2>1. c # file.fp
    BY <1>4, HandleIs
  <2> QED  BY <1>1, <1>6, <2>1 DEF NewChapters, Writing
<1>11. Spent'
  <2>1. Writes' = Writes /\ file.chapter + Len(todo) <= Writes
    BY <1>1, SizesAre DEF Spent, Writes, Writing
  <2>2. file'.chapter + Len(todo') <= Writes'
    BY <1>2, <1>3, <2>1, HandleIs, SizesAre
  <2> QED  BY <1>1, <1>3, <2>1, <2>2, SizesAre DEF Spent
<1>12. Bytes'
  BY <1>1, <1>7 DEF Bytes, Real
<1>13. InCache'
  BY <1>1, <1>3 DEF InCache, Writing, Loading, Header, Frame
<1> QED  BY <1>3, <1>8, <1>9, <1>10, <1>11, <1>12, <1>13

(* There is a number for the chapter that a write opens.                   *)
LEMMA ChapterToCome ==
    ASSUME SafeInv, pc = "open"
    PROVE  /\ file.chapter + 1 \in Chapters
           /\ \A c \in Chapters : c > file.chapter <=> c = file.chapter + 1 \/ c > file.chapter + 1
<1>1. file.chapter + Len(todo) <= Len(sizes) * (MaxBody + 1) /\ Len(sizes) <= MaxFrames
  BY SizesAre DEF SafeInv, Spent, Writes, Writing
<1>2. Len(todo) >= 1 /\ Len(todo) \in Nat
  <2>1. todo \in Seq(Byte)
    BY DEF SafeInv, TypeOK
  <2> QED  BY <2>1, LenProperties DEF SafeInv, InFrame, InHand
<1>3. Len(sizes) \in Nat /\ file.chapter \in Nat
  BY SizesAre, HandleIs DEF SafeInv
<1>4. Len(sizes) * (MaxBody + 1) <= MaxFrames * (MaxBody + 1)
  <2> DEFINE n == Len(sizes)
             k == MaxFrames - Len(sizes)
             w == MaxBody + 1
  <2>1. n \in Nat /\ k \in Nat /\ w \in Nat /\ MaxFrames = n + k
    BY <1>1, <1>3, CacheAssumption
  <2> HIDE DEF n, k, w
  <2>2. (n + k) * w = n * w + k * w /\ k * w \in Nat /\ n * w \in Nat
    BY <2>1
  <2>3. n * w <= MaxFrames * w
    BY <2>1, <2>2
  <2> QED  BY <2>3 DEF n, w
<1>5. Len(sizes) * (MaxBody + 1) \in Nat /\ MaxFrames * (MaxBody + 1) \in Nat
  BY <1>3, CacheAssumption
<1>6. file.chapter + 1 \in Chapters
  BY <1>1, <1>2, <1>3, <1>4, <1>5 DEF Chapters
<1> QED  BY <1>3, <1>6, HandleIs DEF SafeInv

LEMMA OpenNextSafe ==
    ASSUME SafeInv, OpenNext
    PROVE  SafeInv'
<1> DEFINE next == file.chapter + 1
<1>1. /\ pc = "open" /\ next \in Chapters /\ Full
      /\ file.fp = NULL /\ syncer.state = "none"
      /\ \A c \in Chapters : c \in Nat /\ (c > file.chapter <=> c = next \/ c > next)
      /\ next \in Nat /\ file.chapter \in Nat /\ file.chapter < next
      /\ UNCHANGED <<compressed, data, allocated, sizes, reading, loaded, nth_cache, crashed>>
  BY HandleIs, ChapterToCome DEF SafeInv, OpenNext, At, OneHandle, Writing, NextWrite, writerVars,
         readerVars, history
<1>2. data[next] = <<>> /\ next \notin exists
  BY <1>1 DEF SafeInv, NewChapters, Writing
<1>3. Bytes'
  BY <1>1 DEF SafeInv, Bytes, Real
<1>4. CASE /\ pc' = "put" /\ OpenForWriting(next)
           /\ UNCHANGED <<writerVars, failures>>
  <2> USE DEF SafeInv
  <2>1. /\ file'.fp = next /\ file'.chapter = next /\ file'.chapter_n_bytes = 0
        /\ file' \in [fp : Chapters \cup {NULL}, chapter : Chapters, chapter_n_bytes : Nat]
        /\ exists' = exists \cup {next}
    BY <1>1, <1>4 DEF OpenForWriting, Opened
  <2>2. /\ syncer'.fd = next
        /\ syncer' \in [state : {"none", "allocate", "sync"}, fd : Chapters \cup {NULL}, cancelled : BOOLEAN]
    BY <1>1, <1>4 DEF OpenForWriting, NoSyncer
  <2>3. TypeOK'
    BY <1>1, <1>4, <2>1, <2>2 DEF TypeOK, writerVars
  <2>4. OneHandle'
    BY <1>1, <1>4, <2>1, <2>2, HandleIs, CacheAssumption DEF OneHandle, Writing, Full
  <2>5. NewChapters'
    <3>1. Len(data'[file'.fp]) = file'.chapter_n_bytes
      BY <1>1, <1>2, <2>1
    <3>2. ASSUME NEW c \in Chapters, c > file'.chapter
          PROVE  c \notin exists' /\ c \notin allocated' /\ data'[c] = <<>>
      <4>1. c > file.chapter /\ c # next
        BY <1>1, <2>1, <3>2
      <4> QED  BY <1>1, <2>1, <4>1 DEF NewChapters, Writing
    <3> QED  BY <3>1, <3>2 DEF NewChapters
  <2>6. Spent'
    <3>1. Writes' = Writes /\ file.chapter + Len(todo) <= Writes /\ todo' = todo /\ Len(todo) \in Nat
      <4>1. todo \in Seq(Byte)
        BY DEF TypeOK
      <4> QED  BY <1>1, <1>4, <4>1, SizesAre, LenProperties DEF Spent, Writes, Writing, writerVars
    <3>2. file'.chapter + Len(todo') <= Writes' + 1
      BY <1>1, <2>1, <3>1, SizesAre
    <3> QED  BY <1>1, <1>4, <3>1, <3>2 DEF Spent
  <2>7. InFrame'
    BY <1>1, <1>4 DEF InFrame, InHand, writerVars
  <2>8. InCache'
    BY <1>1, <1>4 DEF InCache, Writing, Loading, Header, Frame
  <2> QED  BY <1>3, <2>3, <2>4, <2>5, <2>6, <2>7, <2>8
<1>5. CASE OpenFails(next) /\ NextWrite /\ UNCHANGED <<syncer, exists>>
  <2> USE DEF SafeInv
  <2>1. /\ file'.fp = NULL /\ file'.chapter = next /\ file'.chapter_n_bytes = file.chapter_n_bytes
        /\ file' \in [fp : Chapters \cup {NULL}, chapter : Chapters, chapter_n_bytes : Nat]
        /\ failures' \in 0..MaxFailures
    <3>1. file' = [file EXCEPT !.chapter = next] /\ failures' = failures + 1 /\ failures < MaxFailures
      BY <1>5 DEF OpenFails
    <3>2. failures \in 0..MaxFailures
      BY DEF TypeOK
    <3>3. failures' \in 0..MaxFailures
      BY <3>1, <3>2, CacheAssumption
    <3> QED  BY <1>1, <3>1, <3>3 DEF TypeOK
  <2>2. /\ todo' \in Seq(Byte) /\ Len(todo) \in Nat /\ Len(todo') = Len(todo) - 1 /\ InFrame'
        /\ pc' \in {"idle", "write"} /\ (pc' = "idle" => todo' = <<>>)
    BY <1>1, <1>5, NextWriteTakes DEF InHand
  <2>3. TypeOK'
    BY <1>1, <1>5, <2>1, <2>2 DEF TypeOK
  <2>4. OneHandle'
    BY <1>1, <1>5, <2>1, <2>2 DEF OneHandle, Writing, Full
  <2>5. NewChapters'
    BY <1>1, <1>5, <2>1 DEF NewChapters, Writing
  <2>6. Spent'
    <3>1. Writes' = Writes /\ file.chapter + Len(todo) <= Writes
      BY <1>1, SizesAre DEF Spent, Writes, Writing
    <3>2. file'.chapter + Len(todo') <= Writes'
      BY <1>1, <2>1, <2>2, <3>1, SizesAre
    <3> QED  BY <1>1, <2>2, <3>1, <3>2, SizesAre DEF Spent
  <2>7. InCache'
    BY <1>1, <2>2 DEF InCache, Writing, Loading, Header, Frame
  <2> QED  BY <1>3, <2>2, <2>3, <2>4, <2>5, <2>6, <2>7
<1> QED  BY <1>4, <1>5 DEF OpenNext, history

(* The handle a write goes through is that of the last chapter.            *)
LEMMA PutThere ==
    ASSUME SafeInv, At("put") \/ (At("write") /\ ~Full)
    PROVE  /\ file.fp = file.chapter /\ file.fp \in Chapters /\ file.fp # NULL /\ ~Full
           /\ pc \in {"write", "put"}
           /\ Len(data[file.fp]) = file.chapter_n_bytes
           /\ Len(data[file.fp]) <= CACHE_FILE_SIZE_LIMIT
<1>1. file.fp = file.chapter /\ file.fp # NULL /\ ~Full /\ pc \in {"write", "put"}
  BY HandleIs DEF SafeInv, OneHandle, At, Writing
<1>2. Len(data[file.fp]) = file.chapter_n_bytes
  BY <1>1 DEF SafeInv, NewChapters, Writing
<1> QED  BY <1>1, <1>2, HandleIs, CacheAssumption DEF SafeInv, Full

LEMMA PutSafe ==
    ASSUME SafeInv, Put
    PROVE  SafeInv'
<1>1. /\ file.fp = file.chapter /\ file.fp \in Chapters /\ file.fp # NULL /\ ~Full
      /\ pc \in {"write", "put"}
      /\ Len(data[file.fp]) = file.chapter_n_bytes
      /\ Len(data[file.fp]) <= CACHE_FILE_SIZE_LIMIT
  BY PutThere DEF Put
<1>2. /\ UNCHANGED <<compressed, syncer, exists, allocated, sizes, reading, loaded, nth_cache, crashed>>
      /\ NextWrite
  BY DEF Put, NextWrite, readerVars
<1>3. /\ todo' \in Seq(Byte) /\ Len(todo) \in Nat /\ Len(todo') = Len(todo) - 1 /\ InFrame'
      /\ Head(todo) \in Byte /\ Head(todo) = todo[1] /\ 1 \in DOMAIN todo /\ todo # <<>>
      /\ pc' \in {"idle", "write"} /\ (pc' = "idle" => todo' = <<>>)
  <2>1. todo \in Seq(Byte) /\ todo # <<>>
    BY <1>1, <1>2, NextWriteTakes DEF SafeInv, TypeOK, InHand
  <2>2. 1 \in DOMAIN todo
    BY <2>1, LenProperties, EmptySeq
  <2> QED  BY <1>1, <1>2, <2>2, NextWriteTakes DEF SafeInv, InHand
<1>4. Spent' /\ InCache'
  <2>1. Spent'
    <3>1. file.chapter + Len(todo) <= Writes + 1
      BY <1>1, SizesAre, HandleIs, <1>3 DEF SafeInv, Spent, Writing
    <3>2. Writes' = Writes /\ file'.chapter = file.chapter
      BY <1>2, HandleIs DEF SafeInv, Writes, Put, TypeOK
    <3>3. file'.chapter + Len(todo') <= Writes'
      BY <1>3, <3>1, <3>2, SizesAre, HandleIs DEF SafeInv
    <3> QED  BY <1>2, <1>3, <3>2, <3>3, SizesAre DEF SafeInv, Spent
  <2>2. InCache'
    BY <1>1, <1>2, <1>3 DEF SafeInv, InCache, Writing, Loading, Header, Frame
  <2> QED  BY <2>1, <2>2
<1>5. CASE /\ data' = [data EXCEPT ![file.fp] = Append(@, Head(todo))]
           /\ file' = [file EXCEPT !.chapter_n_bytes = @ + 1]
           /\ UNCHANGED failures
  <2> DEFINE s == Append(data[file.fp], Head(todo))
  <2>1. /\ data[file.fp] \in Seq(Byte) /\ Len(data[file.fp]) \in Nat
        /\ s \in Seq(Byte) /\ Len(s) = Len(data[file.fp]) + 1
        /\ s[Len(data[file.fp]) + 1] = Head(todo)
        /\ \A i \in 1..Len(data[file.fp]) : s[i] = data[file.fp][i]
    <3> DEFINE q == data[file.fp]
    <3>1. q \in Seq(Byte) /\ Len(q) \in Nat
      BY <1>1, ContentIs DEF SafeInv
    <3>2. s = Append(q, Head(todo))
      OBVIOUS
    <3> HIDE DEF q, s
    <3>3. s \in Seq(Byte) /\ Len(s) = Len(q) + 1 /\ s[Len(q) + 1] = Head(todo)
          /\ \A i \in 1..Len(q) : s[i] = q[i]
      BY <1>3, <3>1, <3>2, AppendProperties
    <3> QED  BY <3>1, <3>3 DEF q
  <2>2. data' = [data EXCEPT ![file.fp] = s]
    BY <1>5
  <2>3. DOMAIN s = 1..Len(data[file.fp]) + 1
    BY <2>1, LenProperties
  <2> HIDE DEF s
  <2>4. /\ data' \in [Chapters -> Seq(Byte)] /\ data'[file.fp] = s
        /\ \A d \in Chapters : d # file.fp => data'[d] = data[d]
    BY <1>1, <2>1, <2>2, DataWritten DEF SafeInv
  <2>5. /\ file'.fp = file.fp /\ file'.chapter = file.chapter
        /\ file'.chapter_n_bytes = file.chapter_n_bytes + 1
        /\ file' \in [fp : Chapters \cup {NULL}, chapter : Chapters, chapter_n_bytes : Nat]
    <3> DEFINE m == file.chapter_n_bytes + 1
    <3>1. file' = [file EXCEPT !.chapter_n_bytes = m] /\ m \in Nat
      BY <1>5, HandleIs DEF SafeInv
    <3> HIDE DEF m
    <3>2. /\ file'.fp = file.fp /\ file'.chapter = file.chapter /\ file'.chapter_n_bytes = m
          /\ file' \in [fp : Chapters \cup {NULL}, chapter : Chapters, chapter_n_bytes : Nat]
      BY <3>1 DEF SafeInv, TypeOK
    <3> QED  BY <3>2 DEF m
  <2>6. \A c \in Chapters : ~crashed => Len(data'[c]) <= CACHE_FILE_SIZE_LIMIT + 1
    <3>1. Len(data'[file.fp]) <= CACHE_FILE_SIZE_LIMIT + 1
      BY <1>1, <2>1, <2>4, CacheAssumption
    <3> QED  BY <2>4, <3>1 DEF SafeInv, TypeOK
  <2>7. TypeOK'
    BY <1>2, <1>3, <1>5, <2>4, <2>5, <2>6 DEF SafeInv, TypeOK
  <2>8. OneHandle'
    BY <1>1, <1>2, <1>3, <2>5 DEF SafeInv, OneHandle, Writing, Full
  <2>9. NewChapters'
    <3>1. \A c \in Chapters : c > file.chapter => c # file.fp
      BY <1>1, HandleIs DEF SafeInv
    <3>2. Len(data'[file'.fp]) = file'.chapter_n_bytes
      BY <1>1, <2>1, <2>4, <2>5
    <3> QED  BY <1>1, <1>2, <2>4, <2>5, <3>1, <3>2 DEF SafeInv, NewChapters, Writing
  <2>10. Bytes'
    <3> SUFFICES ASSUME NEW c \in Chapters, NEW i \in DOMAIN data'[c]
                 PROVE  Real(data'[c][i]) \/ (data'[c][i] = Zero /\ crashed)
      BY <1>2 DEF Bytes, Real
    <3>1. CASE c = file.fp /\ i = Len(data[file.fp]) + 1
      <4>1. Head(todo) = <<Len(sizes), sizes[Len(sizes)] - Len(todo) + 1>>
            /\ Len(todo) \in 1..sizes[Len(sizes)] + 1 /\ sizes # <<>>
        BY <1>1, <1>3 DEF SafeInv, InFrame, InHand
      <4>2. Real(Head(todo))
        BY <1>3, <4>1, SizesAre DEF SafeInv, Real
      <4> QED  BY <2>1, <2>4, <3>1, <4>2
    <3>2. CASE c = file.fp /\ i # Len(data[file.fp]) + 1
      <4>1. i \in 1..Len(data[file.fp])
        BY <2>1, <2>3, <2>4, <3>2
      <4>2. data'[c][i] = data[c][i] /\ i \in DOMAIN data[c]
        BY <2>1, <2>4, <3>2, <4>1, LenProperties
      <4> QED  BY <4>2 DEF SafeInv, Bytes
    <3>3. CASE c # file.fp
      BY <2>4, <3>3 DEF SafeInv, Bytes
    <3> QED  BY <3>1, <3>2, <3>3
  <2> QED  BY <1>3, <1>4, <2>7, <2>8, <2>9, <2>10 DEF SafeInv
<1>6. CASE failures < MaxFailures /\ failures' = failures + 1 /\ UNCHANGED <<data, file>>
  <2>1. failures' \in 0..MaxFailures
    <3>1. failures \in 0..MaxFailures
      BY DEF SafeInv, TypeOK
    <3> QED  BY <1>6, <3>1, CacheAssumption
  <2>2. TypeOK'
    BY <1>2, <1>3, <1>6, <2>1 DEF SafeInv, TypeOK
  <2>3. OneHandle'
    BY <1>1, <1>2, <1>3, <1>6 DEF SafeInv, OneHandle, Writing, Full
  <2>4. NewChapters'
    BY <1>1, <1>2, <1>6 DEF SafeInv, NewChapters, Writing
  <2>5. Bytes'
    BY <1>2, <1>6 DEF SafeInv, Bytes, Real
  <2> QED  BY <1>3, <1>4, <2>2, <2>3, <2>4, <2>5 DEF SafeInv
<1> QED  BY <1>5, <1>6 DEF Put

LEMMA EndRecordingSafe ==
    ASSUME SafeInv, EndRecording
    PROVE  SafeInv'
<1> USE DEF SafeInv, EndRecording, Go, writerVars, readerVars, history
<1>1. pc = "idle" /\ pc' = "last"
  OBVIOUS
<1>2. /\ syncer'.state = syncer.state /\ syncer'.fd = syncer.fd
      /\ syncer' \in [state : {"none", "allocate", "sync"}, fd : Chapters \cup {NULL}, cancelled : BOOLEAN]
  <2> DEFINE open == file.fp # NULL
  <2>1. open \in BOOLEAN /\ syncer' = [syncer EXCEPT !.cancelled = open]
    OBVIOUS
  <2> HIDE DEF open
  <2> QED  BY <2>1 DEF TypeOK
<1>3. TypeOK'
  BY <1>1, <1>2 DEF TypeOK
<1>4. OneHandle'
  BY <1>1, <1>2 DEF OneHandle, Writing, Full
<1>5. NewChapters'
  BY <1>1 DEF NewChapters, Writing
<1>6. Spent' /\ InFrame'
  BY <1>1, SizesAre DEF Spent, Writes, Writing, InFrame, InHand
<1>7. Bytes'
  BY DEF Bytes, Real
<1>8. InCache'
  BY <1>1 DEF InCache, Writing, Loading, Header, Frame
<1> QED  BY <1>3, <1>4, <1>5, <1>6, <1>7, <1>8

LEMMA CloseLastSafe ==
    ASSUME SafeInv, CloseLast
    PROVE  SafeInv'
<1> USE DEF SafeInv, CloseLast, At, Close, writerVars, readerVars, history
<1>1. /\ pc = "last" /\ pc' \in {"load", "purge"} /\ syncer.state = "none" /\ syncer' = syncer
      /\ file'.fp = NULL
      /\ file' \in [fp : Chapters \cup {NULL}, chapter : Chapters, chapter_n_bytes : Nat]
  BY DEF TypeOK
<1>2. TypeOK'
  BY <1>1 DEF TypeOK
<1>3. OneHandle'
  BY <1>1 DEF OneHandle, Writing
<1>4. NewChapters'
  BY <1>1 DEF NewChapters, Writing
<1>5. Spent' /\ InFrame'
  BY <1>1, SizesAre DEF Spent, Writes, Writing, InFrame, InHand
<1>6. Bytes'
  BY DEF Bytes, Real
<1>7. InCache'
  BY <1>1 DEF InCache, Writing, Loading, Header, Frame
<1> QED  BY <1>2, <1>3, <1>4, <1>5, <1>6, <1>7

(* What a crash leaves of a chapter: a part of it, and zeros.              *)
LEMMA CrashLeaves ==
    ASSUME SafeInv, Crash
    PROVE  /\ data' \in [Chapters -> Seq(Byte)]
           /\ \A c \in Chapters : c # file.fp => data'[c] = data[c]
           /\ file.fp # NULL =>
                 /\ file.fp = file.chapter /\ file.fp \in Chapters
                 /\ \E n \in 0..Len(data[file.fp]) :
                       /\ n <= Len(data'[file.fp])
                       /\ \A i \in 1..n : data'[file.fp][i] = data[file.fp][i]
                       /\ \A i \in n + 1..Len(data'[file.fp]) : data'[file.fp][i] = Zero
<1>1. CASE file.fp = NULL
  BY <1>1 DEF SafeInv, Crash, TypeOK
<1>2. CASE file.fp # NULL
  <2>1. file.fp = file.chapter /\ file.fp \in Chapters
    BY <1>2, HandleIs DEF SafeInv, Crash, OneHandle, Writing
  <2>2. PICK n \in 0..Len(data[file.fp]), z \in 0..CACHE_FILE_SIZE_LIMIT :
             data' = [data EXCEPT ![file.fp] = SubSeq(@, 1, n) \o [i \in 1..z |-> Zero]]
    BY <1>2 DEF Crash
  <2> DEFINE s == SubSeq(data[file.fp], 1, n)
             zeros == [i \in 1..z |-> Zero]
             left == s \o zeros
  <2>3. s \in Seq(Byte) /\ Len(s) = n /\ \A i \in 1..n : s[i] = data[file.fp][i]
    BY <2>1, DataCut DEF SafeInv
  <2>4. /\ zeros \in Seq(Byte) /\ Len(zeros) = IF z > 0 THEN z ELSE 0
        /\ \A i \in 1..Len(zeros) : zeros[i] = Zero
    <3>1. z \in Int
      BY CacheAssumption
    <3> QED  BY <3>1, ZerosAre
  <2>5. data' = [data EXCEPT ![file.fp] = left]
    BY <2>2
  <2> HIDE DEF s, zeros
  <2>6. /\ left \in Seq(Byte) /\ Len(left) = Len(s) + Len(zeros)
        /\ \A i \in 1..Len(s) + Len(zeros) : left[i] = IF i <= Len(s) THEN s[i] ELSE zeros[i - Len(s)]
    BY <2>3, <2>4, ConcatProperties
  <2> HIDE DEF left
  <2>7. /\ data' \in [Chapters -> Seq(Byte)] /\ data'[file.fp] = left
        /\ \A d \in Chapters : d # file.fp => data'[d] = data[d]
    BY <2>1, <2>5, <2>6, DataWritten DEF SafeInv
  <2>8. n \in Nat /\ Len(zeros) \in Nat
    BY <2>1, <2>4, ContentIs, LenProperties DEF SafeInv
  <2>9. n <= Len(left) /\ \A i \in 1..n : left[i] = data[file.fp][i]
    BY <2>3, <2>6, <2>8
  <2>10. ASSUME NEW i \in n + 1..Len(left)
         PROVE  left[i] = Zero
    <3>1. i \in 1..Len(s) + Len(zeros) /\ ~(i <= Len(s)) /\ i - Len(s) \in 1..Len(zeros)
      BY <2>3, <2>6, <2>8
    <3> QED  BY <2>4, <2>6, <3>1
  <2> QED  BY <2>1, <2>7, <2>9, <2>10
<1> QED  BY <1>1, <1>2

LEMMA CrashSafe ==
    ASSUME SafeInv, Crash
    PROVE  SafeInv'
<1>1. /\ pc \in Writing /\ pc' = "load" /\ crashed' = TRUE /\ syncer' = NoSyncer
      /\ file' = [file EXCEPT !.fp = NULL]
      /\ UNCHANGED <<compressed, exists, allocated, todo, sizes, reading, loaded, nth_cache, failures>>
  BY DEF Crash, Writing, writerVars, readerVars
<1>2. data' \in [Chapters -> Seq(Byte)]
  BY CrashLeaves
<1>3. NoSyncer \in [state : {"none", "allocate", "sync"}, fd : Chapters \cup {NULL}, cancelled : BOOLEAN]
      /\ NoSyncer.state = "none"
  BY DEF NoSyncer
<1>4. file' \in [fp : Chapters \cup {NULL}, chapter : Chapters, chapter_n_bytes : Nat]
  BY <1>1 DEF SafeInv, TypeOK
<1>5. TypeOK'
  BY <1>1, <1>2, <1>3, <1>4 DEF SafeInv, TypeOK
<1>6. OneHandle'
  BY <1>1, <1>3 DEF SafeInv, OneHandle, Writing
<1>7. NewChapters' /\ InFrame'
  BY <1>1 DEF SafeInv, NewChapters, InFrame, Writing, InHand
<1>8. Spent'
  BY <1>1 DEF SafeInv, Spent, Writing
<1>9. Bytes'
  <2> SUFFICES ASSUME NEW c \in Chapters, NEW i \in DOMAIN data'[c]
               PROVE  Real(data'[c][i]) \/ data'[c][i] = Zero
    BY <1>1 DEF Bytes, Real
  <2>1. CASE c # file.fp
    BY <2>1, CrashLeaves DEF SafeInv, Bytes
  <2>2. CASE c = file.fp
    <3>1. file.fp # NULL
      BY <2>2, HandleIs DEF SafeInv
    <3>2. PICK n \in 0..Len(data[c]) :
              /\ n <= Len(data'[c])
              /\ \A j \in 1..n : data'[c][j] = data[c][j]
              /\ \A j \in n + 1..Len(data'[c]) : data'[c][j] = Zero
      BY <2>2, <3>1, CrashLeaves
    <3>3. /\ DOMAIN data'[c] = 1..Len(data'[c]) /\ Len(data'[c]) \in Nat
          /\ DOMAIN data[c] = 1..Len(data[c]) /\ Len(data[c]) \in Nat
      BY <1>2, ContentIs, LenProperties DEF SafeInv
    <3>4. CASE i <= n
      <4>1. i \in 1..n /\ i \in DOMAIN data[c]
        BY <3>3, <3>4
      <4> QED  BY <3>2, <4>1 DEF SafeInv, Bytes
    <3>5. CASE ~(i <= n)
      <4>1. i \in n + 1..Len(data'[c])
        BY <3>3, <3>5
      <4> QED  BY <3>2, <4>1
    <3> QED  BY <3>4, <3>5
  <2> QED  BY <2>1, <2>2
<1>10. InCache'
  BY <1>1 DEF SafeInv, InCache, Writing, Loading, Header, Frame
<1> QED  BY <1>5, <1>6, <1>7, <1>8, <1>9, <1>10 DEF SafeInv

(* The loader and the purge write nothing.                                 *)
LEMMA NothingWritten ==
    ASSUME SafeInv, pc \notin Writing, pc' \notin Writing,
           UNCHANGED <<syncer, data, sizes, crashed>>
    PROVE  /\ NewChapters' /\ Spent' /\ InFrame' /\ Bytes' /\ syncer.state = "none"
           /\ pc' \notin {"idle", "write", "join", "open", "put", "last"}
<1>1. NewChapters' /\ InFrame'
  BY DEF NewChapters, InFrame, InHand, Writing
<1>2. Spent'
  BY DEF SafeInv, Spent, Writing
<1>3. Bytes'
  BY DEF SafeInv, Bytes, Real
<1>4. syncer.state = "none"
  BY DEF SafeInv, OneHandle
<1> QED  BY <1>1, <1>2, <1>3, <1>4 DEF Writing

ReaderType == [frame : 0..MaxFrames, at : Nat, len : Nat, got : Seq(Byte)]

(* The reader counts in numbers and has a sequence of bytes.               *)
LEMMA ReaderIs ==
    ASSUME TypeOK
    PROVE  /\ reading \in ReaderType
           /\ reading.frame \in 0..MaxFrames /\ reading.at \in Nat /\ reading.len \in Nat
           /\ reading.got \in Seq(Byte) /\ Len(reading.got) \in Nat
           /\ DOMAIN reading.got = 1..Len(reading.got)
<1>1. reading \in ReaderType
  BY DEF TypeOK, ReaderType
<1>2. reading.got \in Seq(Byte)
  BY <1>1 DEF ReaderType
<1> QED  BY <1>1, <1>2, LenProperties DEF ReaderType

(* Read() asks for n bytes, and has none of them yet.                      *)
LEMMA ReadAsks ==
    ASSUME TypeOK, NEW n \in Nat, Read(n)
    PROVE  /\ reading' \in ReaderType /\ reading'.frame = reading.frame /\ reading'.at = reading.at
           /\ reading'.len = n /\ reading'.got = <<>>
<1>1. <<>> \in Seq(Byte)
  OBVIOUS
<1>2. [reading EXCEPT !.len = n] \in ReaderType
  BY ReaderIs DEF ReaderType
<1>3. reading' = [[reading EXCEPT !.len = n] EXCEPT !.got = <<>>]
  BY ReaderIs DEF Read, ReaderType
<1> QED  BY <1>1, <1>2, <1>3, ReaderIs DEF ReaderType

LEMMA OpenedIs ==
    ASSUME NEW c \in Chapters
    PROVE  /\ Opened(c) \in [fp : Chapters \cup {NULL}, chapter : Chapters, chapter_n_bytes : Nat]
           /\ Opened(c).fp = c /\ Opened(c).chapter = c
  BY DEF Opened

(* Each step of the loader, and of the purge, keeps the invariant.         *)
LEMMA LoadCacheSafe ==
    ASSUME SafeInv, LoadCache
    PROVE  SafeInv'
<1>1. /\ pc = "load" /\ pc' = "header" /\ file' = Opened(0) /\ Read(1)
      /\ UNCHANGED <<compressed, syncer, exists, data, allocated, todo, sizes, loaded, nth_cache, failures, crashed>>
  BY DEF LoadCache, Go, writerVars, history
<1>2. 0 \in Chapters
  BY CacheAssumption DEF Chapters
<1>3. /\ reading' \in ReaderType /\ reading'.at = reading.at
      /\ reading'.len = 1 /\ reading'.got = <<>>
  BY <1>1, ReadAsks DEF SafeInv
<1>4. TypeOK'
  BY <1>1, <1>2, <1>3, OpenedIs DEF SafeInv, TypeOK, ReaderType
<1>5. NewChapters' /\ Spent' /\ InFrame' /\ Bytes' /\ syncer.state = "none"
  BY <1>1, NothingWritten DEF Writing
<1>6. OneHandle'
  BY <1>1, <1>2, <1>5, OpenedIs DEF OneHandle, Writing
<1>7. InCache'
  <2>1. reading'.at = 0 /\ nth_cache' = 0
    BY <1>1, <1>3 DEF SafeInv, InCache
  <2>2. file'.chapter = 0 /\ Len(Content(file.chapter)') \in Nat
    <3>1. Content(0)' = Content(0)
      BY <1>1 DEF Content
    <3> QED  BY <1>1, <1>2, <3>1, OpenedIs, ContentIs DEF SafeInv
  <2>3. GotReal'
    BY <1>3 DEF GotReal
  <2> QED  BY <1>1, <1>3, <2>1, <2>2, <2>3 DEF InCache, Writing, Header, Frame
<1> QED  BY <1>4, <1>5, <1>6, <1>7 DEF SafeInv

(* A round takes the next n bytes of the chapter.                          *)
LEMMA ChunkIs ==
    ASSUME SafeInv, ReadChunk
    PROVE  LET c == file.chapter
               n == IF Available < reading.len THEN Available ELSE reading.len IN
           /\ c \in Chapters /\ file.fp = c /\ n \in Nat /\ n <= reading.len
           /\ reading.at + n <= Len(Content(c))
           /\ n # reading.len => reading.at + n = Len(Content(c))
           /\ reading' \in ReaderType /\ reading'.frame = reading.frame
           /\ reading'.at = reading.at + n /\ reading'.len = reading.len - n
           /\ Len(reading'.got) = Len(reading.got) + n
           /\ \A i \in 1..Len(reading.got) : reading'.got[i] = reading.got[i]
           /\ \A i \in 1..n : reading'.got[Len(reading.got) + i] = Content(c)[reading.at + i]
<1> DEFINE c == file.chapter
           s == Content(c)
           at == reading.at
           len == reading.len
           got == reading.got
           n == IF Available < reading.len THEN Available ELSE reading.len
           chunk == SubSeq(s, at + 1, at + n)
<1>1. pc \in {"header", "body"} /\ file.fp = c /\ c \in Chapters /\ at <= Len(s)
  BY HandleIs DEF SafeInv, ReadChunk, OneHandle, InCache
<1>2. /\ s \in Seq(Byte) /\ Len(s) \in Nat /\ at \in Nat /\ len \in Nat /\ got \in Seq(Byte)
      /\ Len(got) \in Nat
  BY <1>1, ContentIs, ReaderIs DEF SafeInv
<1>3. Available = Len(s) - at
  BY <1>1 DEF Available
<1>4. n \in Nat /\ n <= len /\ at + n <= Len(s) /\ (n # len => at + n = Len(s))
  BY <1>1, <1>2, <1>3
<1>5. reading' = [reading EXCEPT !.at = at + n, !.len = len - n, !.got = got \o chunk]
  BY <1>1 DEF ReadChunk
<1> HIDE DEF s, at, len, got, n
<1>6. \A i \in at + 1..at + n : s[i] \in Byte
  BY <1>2, <1>4, ElementOfSeq
<1>7. chunk \in Seq(Byte) /\ Len(chunk) = n /\ \A i \in 1..n : chunk[i] = s[at + i]
  <2>1. /\ chunk \in Seq(Byte)
        /\ Len(chunk) = IF at + 1 <= at + n THEN (at + n) - (at + 1) + 1 ELSE 0
        /\ \A i \in 1..(at + n) - (at + 1) + 1 : chunk[i] = s[at + 1 + i - 1]
    <3> DEFINE p == at + 1
               q == at + n
    <3>1. p \in Nat /\ q \in Nat /\ p >= 1 /\ \A i \in p..q : s[i] \in Byte
      BY <1>2, <1>4, <1>6
    <3>2. chunk = SubSeq(s, p, q)
      OBVIOUS
    <3> HIDE DEF p, q, chunk
    <3>3. /\ chunk \in Seq(Byte)
          /\ Len(chunk) = IF p <= q THEN q - p + 1 ELSE 0
          /\ \A i \in 1..q - p + 1 : chunk[i] = s[p + i - 1]
      BY <1>2, <3>1, <3>2, SubSeqProperties
    <3> QED  BY <3>3 DEF p, q
  <2> HIDE DEF chunk
  <2>2. Len(chunk) = n
    BY <1>2, <1>4, <2>1
  <2>3. ASSUME NEW i \in 1..n
        PROVE  chunk[i] = s[at + i]
    <3>1. i \in 1..(at + n) - (at + 1) + 1 /\ at + 1 + i - 1 = at + i
      BY <1>2, <1>4
    <3> QED  BY <2>1, <3>1
  <2> QED  BY <2>1, <2>2, <2>3
<1> HIDE DEF chunk
<1> DEFINE all == got \o chunk
<1>8. /\ all \in Seq(Byte) /\ Len(all) = Len(got) + n
      /\ \A i \in 1..Len(got) + n : all[i] = IF i <= Len(got) THEN got[i] ELSE chunk[i - Len(got)]
  BY <1>2, <1>7, ConcatProperties
<1>9. reading' = [reading EXCEPT !.at = at + n, !.len = len - n, !.got = all]
  BY <1>5
<1> HIDE DEF all
<1>10. /\ \A i \in 1..Len(got) : all[i] = got[i]
       /\ \A i \in 1..n : all[Len(got) + i] = s[at + i]
  <2>1. \A i \in 1..Len(got) : all[i] = got[i]
    BY <1>2, <1>4, <1>8
  <2>2. ASSUME NEW i \in 1..n
        PROVE  all[Len(got) + i] = s[at + i]
    <3>1. Len(got) + i \in 1..Len(got) + n /\ ~(Len(got) + i <= Len(got)) /\ Len(got) + i - Len(got) = i
      BY <1>2, <1>4
    <3> QED  BY <1>7, <1>8, <3>1
  <2> QED  BY <2>1, <2>2
<1>11. /\ reading' \in ReaderType /\ reading'.frame = reading.frame
       /\ reading'.at = at + n /\ reading'.len = len - n /\ reading'.got = all
  <2> DEFINE a == at + n
             l == len - n
  <2>1. a \in Nat /\ l \in Nat
    BY <1>2, <1>4
  <2>2. reading' = [reading EXCEPT !.at = a, !.len = l, !.got = all]
    BY <1>9
  <2> HIDE DEF a, l
  <2>3. [reading EXCEPT !.at = a] \in ReaderType
    BY <2>1, ReaderIs DEF SafeInv, ReaderType
  <2>4. [[reading EXCEPT !.at = a] EXCEPT !.len = l] \in ReaderType
    BY <2>1, <2>3 DEF ReaderType
  <2>5. [[[reading EXCEPT !.at = a] EXCEPT !.len = l] EXCEPT !.got = all] \in ReaderType
    BY <1>8, <2>4 DEF ReaderType
  <2>6. reading' = [[[reading EXCEPT !.at = a] EXCEPT !.len = l] EXCEPT !.got = all]
    BY <2>2, ReaderIs DEF SafeInv, ReaderType
  <2>7. /\ reading'.frame = reading.frame /\ reading'.at = a /\ reading'.len = l /\ reading'.got = all
    BY <2>2, ReaderIs DEF SafeInv, ReaderType
  <2> QED  BY <2>5, <2>6, <2>7 DEF a, l
<1> QED  BY <1>1, <1>4, <1>8, <1>10, <1>11 DEF s, at, len, got, n

LEMMA ReadChunkSafe ==
    ASSUME SafeInv, ReadChunk
    PROVE  SafeInv'
<1> DEFINE c == file.chapter
           n == IF Available < reading.len THEN Available ELSE reading.len
<1>1. /\ c \in Chapters /\ file.fp = c /\ n \in Nat /\ n <= reading.len
      /\ reading.at + n <= Len(Content(c))
      /\ n # reading.len => reading.at + n = Len(Content(c))
      /\ reading' \in ReaderType /\ reading'.frame = reading.frame
      /\ reading'.at = reading.at + n /\ reading'.len = reading.len - n
      /\ Len(reading'.got) = Len(reading.got) + n
      /\ \A i \in 1..Len(reading.got) : reading'.got[i] = reading.got[i]
      /\ \A i \in 1..n : reading'.got[Len(reading.got) + i] = Content(c)[reading.at + i]
  BY ChunkIs
<1>2. /\ pc \in {"header", "body"} /\ reading.len > 0
      /\ UNCHANGED <<compressed, syncer, exists, data, allocated, todo, sizes, loaded, nth_cache, failures, crashed>>
      /\ \/ n = reading.len /\ pc' = pc /\ file' = file
         \/ /\ n # reading.len /\ file' = [file EXCEPT !.fp = NULL]
            /\ pc' = IF pc = "header" THEN "headerNext" ELSE "bodyNext"
  BY DEF ReadChunk, writerVars, history, At
<1> HIDE DEF n
<1>3. /\ file' \in [fp : Chapters \cup {NULL}, chapter : Chapters, chapter_n_bytes : Nat]
      /\ file'.chapter = c /\ (file' # file => pc' \notin {"header", "body"})
  BY <1>2 DEF SafeInv, TypeOK
<1>4. NewChapters' /\ Spent' /\ InFrame' /\ Bytes' /\ syncer.state = "none"
  BY <1>2, NothingWritten DEF Writing
<1>5. TypeOK'
  BY <1>1, <1>2, <1>3 DEF SafeInv, TypeOK, ReaderType
<1>6. OneHandle'
  BY <1>1, <1>2, <1>3, <1>4 DEF OneHandle, Writing
<1>7. \A d \in Chapters : Content(d)' = Content(d)
  BY <1>2, ContentKept
<1>8. GotReal'
  <2> SUFFICES ASSUME NEW i \in DOMAIN reading'.got
               PROVE  Real(reading'.got[i]) \/ reading'.got[i] = Zero
    BY <1>2 DEF GotReal, Real
  <2>1. i \in 1..Len(reading.got) + n /\ Len(reading.got) \in Nat
    BY <1>1, ReaderIs, LenProperties DEF SafeInv, ReaderType
  <2>2. CASE i \in 1..Len(reading.got)
    BY <1>1, <1>2, <2>2, ReaderIs DEF SafeInv, InCache, GotReal, Loading, Header, Frame
  <2>3. CASE i - Len(reading.got) \in 1..n
    <3> DEFINE k == i - Len(reading.got)
    <3>1. reading'.got[i] = Content(c)[reading.at + k] /\ reading.at + k \in 1..Len(Content(c))
      <4>1. Len(reading.got) + k = i /\ k \in 1..n
        BY <2>1, <2>3
      <4>2. reading.at + k \in 1..Len(Content(c))
        <5>1. reading.at \in Nat /\ Len(Content(c)) \in Nat
          BY <1>1, ReaderIs, ContentIs DEF SafeInv
        <5> HIDE DEF k
        <5> QED  BY <1>1, <4>1, <5>1
      <4> HIDE DEF k
      <4> QED  BY <1>1, <4>1, <4>2
    <3> DEFINE j == reading.at + k
    <3>2. j \in 1..Len(Content(c)) /\ reading'.got[i] = Content(c)[j]
      BY <3>1
    <3> HIDE DEF j, k
    <3>3. CASE j \in 1..Len(data[c])
      <4>1. Content(c)[j] = data[c][j] /\ j \in DOMAIN data[c]
        BY <1>1, <3>3, ContentIs, LenProperties DEF SafeInv
      <4> QED  BY <1>1, <3>2, <4>1 DEF SafeInv, Bytes
    <3>4. CASE j \in Len(data[c]) + 1..Len(Content(c))
      BY <1>1, <3>2, <3>4, ContentIs DEF SafeInv
    <3> QED  BY <1>1, <3>2, <3>3, <3>4, ContentIs DEF SafeInv
  <2> QED  BY <1>1, <2>1, <2>2, <2>3
<1>9. InCache'
  <2>1. reading'.at <= Len(Content(c))
    BY <1>1, <1>2
  <2>2. pc' \in {"headerNext", "bodyNext"} => reading'.at = Len(Content(c)) /\ reading'.len > 0
    BY <1>1, <1>2, ReaderIs DEF SafeInv
  <2>3. pc' \in Header => pc = "header" /\ Len(reading'.got) + reading'.len = 1
    <3>1. pc' \in Header => pc = "header"
      BY <1>2 DEF Header
    <3>2. pc = "header" => Len(reading.got) + reading.len = 1
      BY DEF SafeInv, InCache, Header
    <3> QED  BY <1>1, <3>1, <3>2, ReaderIs DEF SafeInv
  <2>4. pc' \in Frame => /\ reading'.frame \in DOMAIN sizes
                         /\ Len(reading'.got) + reading'.len = sizes[reading'.frame]
    <3>1. pc' \in Frame => pc = "body"
      BY <1>2 DEF Frame
    <3>2. pc = "body" => reading.frame \in DOMAIN sizes /\ Len(reading.got) + reading.len = sizes[reading.frame]
      BY DEF SafeInv, InCache, Frame
    <3> QED  BY <1>1, <3>1, <3>2, ReaderIs DEF SafeInv
  <2>5. nth_cache' = 0 /\ pc' \notin Writing \cup {"load"}
    BY <1>2 DEF SafeInv, InCache, Loading, Header, Frame, Writing
  <2>6. file'.chapter = c /\ Content(file.chapter)' = Content(c)
    <3>1. PICK d \in Chapters : d = file.chapter
      BY <1>1
    <3>2. file'.chapter = d /\ Content(d)' = Content(d)
      BY <1>3, <1>7, <3>1
    <3> QED  BY <3>1, <3>2
  <2>7. pc' \in {"header", "body"} => reading'.at <= Len(Content(file.chapter)')
    BY <2>1, <2>6
  <2>8. pc' \in {"headerNext", "bodyNext"} => reading'.at = Len(Content(file.chapter)') /\ reading'.len > 0
    BY <2>2, <2>6
  <2> HIDE DEF c
  <2> QED  BY <1>2, <1>8, <2>3, <2>4, <2>5, <2>7, <2>8 DEF InCache
<1> QED  BY <1>4, <1>5, <1>6, <1>9 DEF SafeInv

LEMMA NextChapterSafe ==
    ASSUME SafeInv, NextChapter
    PROVE  SafeInv'
<1> DEFINE c == file.chapter + 1
<1>1. /\ pc \in {"headerNext", "bodyNext"} /\ c \in exists /\ c \in Chapters
      /\ pc' = IF pc = "headerNext" THEN "header" ELSE "body"
      /\ file' = Opened(c) /\ reading' = [reading EXCEPT !.at = 0]
      /\ UNCHANGED <<compressed, syncer, exists, data, allocated, todo, sizes, loaded, nth_cache, failures, crashed>>
  BY DEF SafeInv, TypeOK, NextChapter, writerVars, history, At
<1> HIDE DEF c
<1>2. NewChapters' /\ Spent' /\ InFrame' /\ Bytes' /\ syncer.state = "none"
  BY <1>1, NothingWritten DEF Writing
<1>3. /\ reading' \in ReaderType /\ reading'.at = 0
      /\ reading'.frame = reading.frame /\ reading'.len = reading.len /\ reading'.got = reading.got
  BY <1>1, ReaderIs DEF SafeInv, ReaderType
<1>4. TypeOK'
  BY <1>1, <1>3, OpenedIs DEF SafeInv, TypeOK, ReaderType
<1>5. OneHandle'
  BY <1>1, <1>2, OpenedIs DEF OneHandle, Writing
<1>6. InCache'
  <2>1. Len(Content(file.chapter)') \in Nat /\ file'.chapter = c
    <3>1. PICK d \in Chapters : d = c
      BY <1>1
    <3>2. file'.chapter = d /\ Content(d)' = Content(d)
      BY <1>1, <3>1, OpenedIs, ContentKept
    <3> QED  BY <3>1, <3>2, ContentIs DEF SafeInv
  <2>2. GotReal'
    BY <1>1, <1>3 DEF SafeInv, InCache, GotReal, Real, Loading, Header, Frame
  <2>3. nth_cache' = 0 /\ pc' \notin Writing \cup {"load"}
    BY <1>1 DEF SafeInv, InCache, Writing, Loading, Header, Frame
  <2>4. pc' \in Header => Len(reading'.got) + reading'.len = 1
    BY <1>1, <1>3 DEF SafeInv, InCache, Header
  <2>5. pc' \in Frame => /\ reading'.frame \in DOMAIN sizes
                         /\ Len(reading'.got) + reading'.len = sizes[reading'.frame]
    BY <1>1, <1>3 DEF SafeInv, InCache, Frame
  <2>6. reading'.at = 0 /\ pc' \notin {"headerNext", "bodyNext"} /\ UNCHANGED sizes
    BY <1>1, <1>3
  <2> QED  BY <2>1, <2>2, <2>3, <2>4, <2>5, <2>6 DEF InCache
<1> QED  BY <1>2, <1>4, <1>5, <1>6 DEF SafeInv

LEMMA EndOfCacheSafe ==
    ASSUME SafeInv, EndOfCache
    PROVE  SafeInv'
<1>1. /\ pc \in {"headerNext", "bodyNext"} /\ pc' \in {"done", "purge"}
      /\ UNCHANGED <<compressed, file, syncer, exists, data, allocated, todo, sizes, reading, loaded,
                     nth_cache, failures, crashed>>
  BY DEF EndOfCache, AfterCache, fileVars, writerVars, readerVars, history
<1>2. NewChapters' /\ Spent' /\ InFrame' /\ Bytes' /\ syncer.state = "none"
  BY <1>1, NothingWritten DEF Writing
<1>3. TypeOK'
  BY <1>1 DEF SafeInv, TypeOK
<1>4. OneHandle'
  BY <1>1, <1>2 DEF OneHandle, Writing
<1>5. InCache'
  BY <1>1 DEF InCache, Writing, Loading, Header, Frame
<1> QED  BY <1>2, <1>3, <1>4, <1>5 DEF SafeInv

(* read_header() finds the number of a frame that was cached.              *)
LEMMA HeaderIs ==
    ASSUME SafeInv, At("header"), reading.len = 0
    PROVE  LET b == reading.got[1] IN
           /\ Len(reading.got) = 1 /\ b \in Byte /\ (b = Zero \/ Real(b))
           /\ IsHeader(b) => b[1] \in DOMAIN sizes /\ sizes[b[1]] \in Nat /\ b = <<b[1], 0>>
<1>1. Len(reading.got) = 1 /\ 1 \in DOMAIN reading.got
  BY ReaderIs DEF SafeInv, InCache, At, Header
<1>2. reading.got[1] \in Byte
  BY <1>1, ReaderIs, ElementOfSeq DEF SafeInv
<1>3. reading.got[1] = Zero \/ Real(reading.got[1])
  BY <1>1 DEF SafeInv, InCache, GotReal, At, Loading, Header
<1>4. IsHeader(reading.got[1]) => reading.got[1] = <<reading.got[1][1], 0>>
  BY <1>2, BytesAre DEF IsHeader
<1> QED  BY <1>1, <1>2, <1>3, <1>4, SizesAre DEF SafeInv, IsHeader, Real

LEMMA HeaderReadSafe ==
    ASSUME SafeInv, HeaderRead
    PROVE  SafeInv'
<1> DEFINE b == reading.got[1]
<1>1. /\ pc = "header" /\ reading.len = 0
      /\ UNCHANGED <<compressed, file, syncer, exists, data, allocated, todo, sizes, loaded,
                     nth_cache, failures, crashed>>
  BY DEF HeaderRead, At, fileVars, writerVars, history
<1>2. NewChapters' /\ Spent' /\ InFrame' /\ Bytes' /\ syncer.state = "none"
  <2>1. pc' \notin Writing
    BY DEF HeaderRead, AfterCache, Writing
  <2> QED  BY <1>1, <2>1, NothingWritten DEF Writing
<1>3. CASE IsHeader(b)
  <2>1. /\ pc' = "body"
        /\ reading' = [reading EXCEPT !.frame = b[1], !.len = sizes[b[1]], !.got = <<>>]
    BY <1>3 DEF HeaderRead
  <2>2. b[1] \in DOMAIN sizes /\ sizes[b[1]] \in Nat /\ b[1] \in 0..MaxFrames
    BY <1>1, <1>3, HeaderIs, BytesAre DEF At
  <2> DEFINE f == b[1]
             m == sizes[b[1]]
  <2>3. reading' = [reading EXCEPT !.frame = f, !.len = m, !.got = <<>>]
    BY <2>1
  <2>4. f \in DOMAIN sizes /\ m \in Nat /\ f \in 0..MaxFrames /\ m = sizes[f]
    BY <2>2
  <2> HIDE DEF f, m
  <2>5. [[reading EXCEPT !.frame = f] EXCEPT !.len = m] \in ReaderType
    <3>1. [reading EXCEPT !.frame = f] \in ReaderType
      BY <2>4, ReaderIs DEF SafeInv, ReaderType
    <3> QED  BY <2>4, <3>1 DEF ReaderType
  <2>6. /\ reading' \in ReaderType
        /\ reading'.frame = f /\ reading'.at = reading.at /\ reading'.len = m /\ reading'.got = <<>>
    <3>1. <<>> \in Seq(Byte)
      OBVIOUS
    <3>2. reading' = [[[reading EXCEPT !.frame = f] EXCEPT !.len = m] EXCEPT !.got = <<>>]
      BY <2>3, ReaderIs DEF SafeInv, ReaderType
    <3>3. reading' \in ReaderType
      BY <2>5, <3>1, <3>2 DEF ReaderType
    <3> QED  BY <2>3, <3>3, ReaderIs DEF SafeInv, ReaderType
  <2>7. TypeOK'
    BY <1>1, <2>1, <2>6 DEF SafeInv, TypeOK, ReaderType
  <2>8. OneHandle'
    BY <1>1, <1>2, <2>1 DEF SafeInv, OneHandle, Writing
  <2>9. InCache'
    <3>1. Content(file.chapter)' = Content(file.chapter)
      BY <1>1 DEF Content
    <3>2. nth_cache' = 0 /\ reading'.at <= Len(Content(file.chapter))
      BY <1>1, <2>6 DEF SafeInv, InCache, Loading, Header
    <3>3. reading'.frame \in DOMAIN sizes' /\ Len(reading'.got) + reading'.len = sizes'[reading'.frame]
      BY <1>1, <2>4, <2>6
    <3>4. GotReal'
      BY <2>6 DEF GotReal
    <3> QED  BY <1>1, <2>1, <2>6, <3>1, <3>2, <3>3, <3>4 DEF InCache, Writing, Header
  <2> QED  BY <1>2, <2>7, <2>8, <2>9 DEF SafeInv
<1>4. CASE ~IsHeader(b)
  <2>1. pc' \in {"done", "purge"} /\ reading' = reading
    BY <1>4 DEF HeaderRead, AfterCache
  <2>2. TypeOK'
    BY <1>1, <2>1 DEF SafeInv, TypeOK
  <2>3. OneHandle'
    BY <1>1, <1>2, <2>1 DEF OneHandle, Writing
  <2>4. InCache'
    BY <2>1 DEF InCache, Writing, Loading, Header, Frame
  <2> QED  BY <1>2, <2>2, <2>3, <2>4 DEF SafeInv
<1> QED  BY <1>3, <1>4

LEMMA BodyReadSafe ==
    ASSUME SafeInv, BodyRead
    PROVE  SafeInv'
<1> DEFINE new == [frame |-> reading.frame, body |-> reading.got]
<1>1. /\ pc = "body" /\ pc' = "header" /\ reading.len = 0 /\ Read(1)
      /\ loaded' = Append(loaded, new)
      /\ UNCHANGED <<compressed, file, syncer, exists, data, allocated, todo, sizes, nth_cache,
                     failures, crashed>>
  BY DEF BodyRead, At, fileVars, writerVars, history
<1>2. NewChapters' /\ Spent' /\ InFrame' /\ Bytes' /\ syncer.state = "none"
  BY <1>1, NothingWritten DEF Writing
<1>3. /\ reading' \in ReaderType /\ reading'.at = reading.at
      /\ reading'.len = 1 /\ reading'.got = <<>>
  BY <1>1, ReadAsks DEF SafeInv
<1>4. new \in [frame : 1..MaxFrames, body : Seq(Byte)]
  <2>1. reading.frame \in DOMAIN sizes /\ Len(sizes) <= MaxFrames
    BY <1>1 DEF SafeInv, InCache, Frame, Spent
  <2>2. reading.frame \in 1..MaxFrames
    BY <2>1, SizesAre, CacheAssumption DEF SafeInv
  <2> QED  BY <2>2, ReaderIs DEF SafeInv
<1> HIDE DEF new
<1>5. TypeOK'
  <2>1. loaded' \in Seq([frame : 1..MaxFrames, body : Seq(Byte)])
    BY <1>1, <1>4, AppendProperties DEF SafeInv, TypeOK
  <2> QED  BY <1>1, <1>3, <2>1 DEF SafeInv, TypeOK, ReaderType
<1>6. OneHandle'
  BY <1>1, <1>2 DEF SafeInv, OneHandle, Writing
<1>7. InCache'
  <2>1. Content(file.chapter)' = Content(file.chapter)
    BY <1>1 DEF Content
  <2>2. nth_cache' = 0 /\ reading'.at <= Len(Content(file.chapter))
    BY <1>1, <1>3 DEF SafeInv, InCache, Loading, Frame
  <2>3. GotReal'
    BY <1>3 DEF GotReal
  <2> QED  BY <1>1, <1>3, <2>1, <2>2, <2>3 DEF InCache, Writing, Header, Frame
<1> QED  BY <1>2, <1>5, <1>6, <1>7 DEF SafeInv

LEMMA PurgeSafe ==
    ASSUME SafeInv, Purge
    PROVE  SafeInv'
<1>1. /\ pc = "purge" /\ pc' \in {"purge", "done"} /\ exists' \subseteq exists
      /\ nth_cache' \in {nth_cache, nth_cache + 1}
      /\ UNCHANGED <<compressed, file, syncer, data, allocated, todo, sizes, reading, loaded, failures, crashed>>
  BY DEF Purge, PurgeChapter, PurgeEnds, At, fileVars, writerVars, readerVars, history
<1>2. NewChapters' /\ Spent' /\ InFrame' /\ Bytes' /\ syncer.state = "none"
  BY <1>1, NothingWritten DEF Writing
<1>3. TypeOK'
  BY <1>1 DEF SafeInv, TypeOK
<1>4. OneHandle'
  BY <1>1, <1>2 DEF OneHandle, Writing
<1>5. InCache'
  BY <1>1 DEF InCache, Writing, Loading, Header, Frame
<1> QED  BY <1>2, <1>3, <1>4, <1>5 DEF SafeInv

LEMMA InitSafe ==
    ASSUME Init
    PROVE  SafeInv
<1> USE CacheAssumption DEF Init
<1>1. 0 \in Chapters /\ \A c \in Chapters : c \in Nat
  BY DEF Chapters
<1>2. /\ file.fp = 0 /\ file.chapter = 0 /\ file.chapter_n_bytes = 0 /\ pc = "idle"
      /\ file \in [fp : Chapters \cup {NULL}, chapter : Chapters, chapter_n_bytes : Nat]
  BY <1>1 DEF Opened
<1>3. /\ syncer \in [state : {"none", "allocate", "sync"}, fd : Chapters \cup {NULL}, cancelled : BOOLEAN]
      /\ syncer.fd = 0
  BY <1>1 DEF NoSyncer
<1>4. TypeOK
  <2>1. data \in [Chapters -> Seq(Byte)] /\ \A c \in Chapters : Len(data[c]) = 0
    OBVIOUS
  <2>2. reading \in ReaderType /\ reading.at = 0
    BY DEF ReaderType
  <2>3. /\ todo \in Seq(Byte) /\ sizes \in Seq(1..MaxBody)
        /\ loaded \in Seq([frame : 1..MaxFrames, body : Seq(Byte)])
    OBVIOUS
  <2>4. failures \in 0..MaxFailures /\ nth_cache \in Nat
    OBVIOUS
  <2>5. exists \subseteq Chapters /\ allocated \subseteq Chapters
    BY <1>1
  <2>6. compressed \in BOOLEAN /\ crashed \in BOOLEAN
    OBVIOUS
  <2>7. \A c \in Chapters : Len(data[c]) <= CACHE_FILE_SIZE_LIMIT + 1
    BY <2>1
  <2>8. reading \in [frame : 0..MaxFrames, at : Nat, len : Nat, got : Seq(Byte)]
    BY <2>2 DEF ReaderType
  <2> HIDE DEF Init
  <2>9. pc = "idle"
    BY <1>2
  <2> QED  BY <1>2, <1>3, <2>1, <2>3, <2>4, <2>5, <2>6, <2>7, <2>8, <2>9 DEF TypeOK
<1>5. OneHandle
  BY <1>2, <1>3 DEF OneHandle, NULL
<1>6. NewChapters
  BY <1>1, <1>2 DEF NewChapters
<1>7. Spent /\ InFrame
  BY <1>2 DEF Spent, Writes, InFrame, InHand
<1>8. Bytes
  BY DEF Bytes
<1>9. InCache
  BY DEF InCache, Loading, Header, Frame
<1> QED  BY <1>4, <1>5, <1>6, <1>7, <1>8, <1>9 DEF SafeInv

LEMMA StutterSafe ==
    ASSUME SafeInv, UNCHANGED vars
    PROVE  SafeInv'
<1>1. /\ UNCHANGED <<compressed, pc, file, syncer, exists, data, allocated, todo, sizes, reading, loaded,
                     nth_cache, failures, crashed>>
  BY DEF vars, fileVars, writerVars, readerVars, history
<1>2. TypeOK'
  BY <1>1 DEF SafeInv, TypeOK
<1>3. OneHandle'
  BY <1>1 DEF SafeInv, OneHandle, Full
<1>4. NewChapters' /\ Spent' /\ InFrame'
  BY <1>1 DEF SafeInv, NewChapters, Spent, Writes, InFrame
<1>5. Bytes'
  BY <1>1 DEF SafeInv, Bytes, Real
<1>6. InCache'
  <2>1. GotReal' = GotReal
    BY <1>1 DEF GotReal, Real
  <2>2. Content(file.chapter)' = Content(file.chapter)
    BY <1>1 DEF Content
  <2>3. UNCHANGED <<pc, sizes, reading, loaded, nth_cache>>
    BY <1>1
  <2> QED  BY <2>1, <2>2, <2>3 DEF SafeInv, InCache
<1> QED  BY <1>2, <1>3, <1>4, <1>5, <1>6 DEF SafeInv

LEMMA NextSafe ==
    ASSUME SafeInv, [Next]_vars
    PROVE  SafeInv'
<1>1. CASE Next
  <2>1. CASE Syncer
    BY <2>1, SyncerAllocatesSafe, SyncerEndsSafe DEF Syncer
  <2>2. CASE Write
    BY <2>2, CloseFullSafe, CloseWorksSafe, CloseFailsSafe, OpenNextSafe, PutSafe, CloseLastSafe DEF Write
  <2>3. CASE Load
    BY <2>3, LoadCacheSafe, ReadChunkSafe, NextChapterSafe, EndOfCacheSafe, HeaderReadSafe,
       BodyReadSafe DEF Load
  <2>4. CASE Purge
    BY <2>4, PurgeSafe
  <2>5. CASE \E n \in 1..MaxBody : StartFrame(n)
    BY <2>5, StartFrameSafe
  <2>6. CASE EndRecording \/ Crash
    BY <2>6, EndRecordingSafe, CrashSafe
  <2>7. CASE UNCHANGED vars
    BY <2>7, StutterSafe
  <2> QED  BY <1>1, <2>1, <2>2, <2>3, <2>4, <2>5, <2>6, <2>7 DEF Next, Finished
<1>2. CASE UNCHANGED vars
  BY <1>2, StutterSafe
<1> QED  BY <1>1, <1>2

(* THEOREM: in every behaviour the handles of the open chapter stay right: *)
(* no write or read goes through a NULL one, and the syncer never has the  *)
(* descriptor of a chapter that is closed.                                 *)
THEOREM HandlesStayRight == Spec => []HandlesRight
<1>1. SafeInv => HandlesRight
  <2> SUFFICES ASSUME SafeInv
               PROVE  HandlesRight
    OBVIOUS
  <2>1. HandleOpen
    <3>1. At("put") \/ (At("write") /\ ~Full) => file.fp # NULL
      BY DEF SafeInv, OneHandle, Writing, At
    <3>2. pc \in {"header", "body"} => file.fp # NULL
      BY HandleIs DEF SafeInv, OneHandle
    <3> QED  BY <3>1, <3>2 DEF HandleOpen
  <2>2. SyncerOnOpenChapter
    BY DEF SafeInv, OneHandle, SyncerOnOpenChapter
  <2> QED  BY <2>1, <2>2 DEF SafeInv, HandlesRight
<1>2. SafeInv /\ [Next]_vars => SafeInv'
  BY NextSafe
<1> QED  BY <1>1, <1>2, InitSafe, PTL DEF Spec
-----------------------------------------------------------------------------
(* As long as nothing fails the chapters that exist have the numbers from  *)
(* that on which the purge has come to; it ends where there is none.       *)
Consecutive ==
    /\ \A c \in exists : nth_cache <= c /\ \A d \in nth_cache..c : d \in exists
    /\ pc \in Writing => file.chapter \in exists
    /\ pc \in Writing /\ file.fp = NULL => pc = "open"
    /\ pc = "done" /\ ~crashed => nth_cache \notin exists

Gapless == failures = 0 => Consecutive

(* Failures are counted, never forgotten.                                  *)
LEMMA FailuresCount ==
    ASSUME SafeInv, Next, failures' = 0
    PROVE  failures = 0
<1>1. failures \in Nat
  BY CacheAssumption DEF SafeInv, TypeOK
<1>2. failures' = failures \/ failures' = failures + 1
  <2>1. CASE Syncer
    BY <2>1 DEF Syncer, SyncerAllocates, SyncerEnds, history
  <2>2. CASE Write
    BY <2>2 DEF Write, CloseFull, CloseWorks, CloseFails, OpenNext, OpenFails, Put, CloseLast, history
  <2>3. CASE Load \/ Purge
    BY <2>3 DEF Load, LoadCache, ReadChunk, NextChapter, EndOfCache, HeaderRead, BodyRead,
       Purge, PurgeChapter, PurgeEnds, history
  <2>4. CASE EndRecording \/ Crash \/ \E n \in 1..MaxBody : StartFrame(n)
    BY <2>4 DEF EndRecording, Crash, StartFrame, history
  <2>5. CASE Finished
    BY <2>5 DEF Finished, vars, history
  <2> QED  BY <2>1, <2>2, <2>3, <2>4, <2>5 DEF Next
<1> QED  BY <1>1, <1>2

(* The cacher opens the chapter of the next number ...                     *)
LEMMA WriteConsecutive ==
    ASSUME SafeInv, Consecutive, Write, failures' = failures
    PROVE  Consecutive'
<1>1. file.chapter \in Nat /\ exists \subseteq Nat /\ failures \in Nat
  BY HandleIs, CacheAssumption DEF SafeInv, TypeOK, Chapters
<1>2. pc \in Writing /\ nth_cache = 0 /\ file.chapter \in exists
  BY DEF Write, CloseFull, CloseWorks, CloseFails, OpenNext, Put, CloseLast, At, Go, Writing,
     SafeInv, InCache, Consecutive
<1>3. CASE CloseFull \/ Put
  <2>1. /\ UNCHANGED <<exists, nth_cache, crashed>> /\ file'.chapter = file.chapter /\ file'.fp = file.fp
        /\ pc' # "done"
    BY <1>3 DEF CloseFull, Put, NextWrite, At, readerVars, history, SafeInv, TypeOK
  <2>2. pc' \in Writing /\ (file.fp = NULL => pc' = "open")
    BY <1>2, <1>3 DEF CloseFull, Put, NextWrite, At, Writing, SafeInv, OneHandle, Consecutive
  <2> QED  BY <1>2, <2>1, <2>2 DEF Consecutive
<1>4. CASE CloseWorks \/ CloseLast
  <2>1. /\ UNCHANGED <<exists, nth_cache, crashed>> /\ file'.chapter = file.chapter
        /\ pc' # "done" /\ (pc' \in Writing => pc' = "open")
    BY <1>4 DEF CloseWorks, CloseLast, Close, Go, readerVars, history, SafeInv, TypeOK, Writing
  <2> QED  BY <1>2, <2>1 DEF Consecutive
<1>5. CASE CloseFails
  BY <1>1, <1>5 DEF CloseFails
<1>6. CASE OpenNext
  <2>1. /\ pc' = "put" /\ file' = Opened(file.chapter + 1) /\ exists' = exists \cup {file.chapter + 1}
        /\ UNCHANGED <<nth_cache, crashed>>
    BY <1>1, <1>6 DEF OpenNext, OpenForWriting, OpenFails, readerVars, history
  <2>2. \A c \in exists : 0 <= c /\ \A d \in 0..c : d \in exists
    BY <1>2 DEF Consecutive
  <2>3. \A c \in exists' : 0 <= c /\ \A d \in 0..c : d \in exists'
    <3>1. \A d \in 0..file.chapter : d \in exists
      BY <1>2, <2>2
    <3>2. \A d \in 0..file.chapter + 1 : d \in 0..file.chapter \/ d = file.chapter + 1
      BY <1>1
    <3> QED  BY <1>1, <2>1, <2>2, <3>1, <3>2
  <2>4. file'.chapter \in exists' /\ file'.fp # NULL
    BY <1>1, <2>1 DEF Opened, NULL
  <2>5. nth_cache' = 0 /\ pc' # "done"
    BY <1>2, <2>1
  <2> QED  BY <2>3, <2>4, <2>5 DEF Consecutive
<1> QED  BY <1>3, <1>4, <1>5, <1>6 DEF Write

(* ... nobody else opens or removes one ...                                *)
LEMMA OthersConsecutive ==
    ASSUME SafeInv, Consecutive,
           \/ Syncer \/ Load \/ Finished \/ EndRecording \/ Crash
           \/ \E n \in 1..MaxBody : StartFrame(n)
    PROVE  Consecutive'
<1>1. UNCHANGED <<exists, nth_cache>>
  BY DEF Syncer, SyncerAllocates, SyncerEnds, Load, LoadCache, ReadChunk, NextChapter, EndOfCache,
     HeaderRead, BodyRead, EndRecording, Crash, StartFrame, Finished, vars, fileVars, readerVars
<1>2. CASE Syncer \/ Finished
  <2>1. UNCHANGED <<pc, file, crashed>>
    BY <1>2 DEF Syncer, SyncerAllocates, SyncerEnds, Finished, vars, fileVars, history
  <2> QED  BY <1>1, <2>1 DEF Consecutive
<1>3. CASE EndRecording \/ \E n \in 1..MaxBody : StartFrame(n)
  <2>1. /\ pc = "idle" /\ pc' \in {"write", "last"} /\ file' = file
    BY <1>3 DEF EndRecording, StartFrame, Go, fileVars
  <2> QED  BY <1>1, <2>1 DEF Consecutive, Writing
<1>4. CASE Load \/ Crash
  <2>1. pc' \notin Writing /\ (pc' = "done" => crashed')
    BY <1>4 DEF Load, LoadCache, ReadChunk, NextChapter, EndOfCache, HeaderRead, BodyRead, AfterCache,
       Crash, Go, At, Writing, history
  <2> QED  BY <1>1, <2>1 DEF Consecutive
<1> QED  BY <1>2, <1>3, <1>4

(* ... but the purge, from the first number on.                            *)
LEMMA PurgeConsecutive ==
    ASSUME SafeInv, Consecutive, Purge
    PROVE  Consecutive'
<1>1. /\ pc = "purge" /\ pc' \in {"purge", "done"} /\ crashed' = crashed
  BY DEF Purge, PurgeChapter, PurgeEnds, At, history
<1>2. nth_cache \in Nat /\ exists \subseteq Nat
  BY CacheAssumption DEF SafeInv, TypeOK, Chapters
<1>3. CASE PurgeChapter
  <2>1. exists' = exists \ {nth_cache} /\ nth_cache' = nth_cache + 1 /\ pc' = "purge"
    BY <1>1, <1>3 DEF PurgeChapter
  <2>2. ASSUME NEW c \in exists'
        PROVE  nth_cache' <= c /\ \A d \in nth_cache'..c : d \in exists'
    <3>1. c \in exists /\ c # nth_cache /\ nth_cache <= c /\ \A d \in nth_cache..c : d \in exists
      BY <2>1 DEF Consecutive
    <3>2. \A d \in nth_cache + 1..c : d \in nth_cache..c /\ d # nth_cache
      BY <1>2, <3>1
    <3> QED  BY <1>2, <2>1, <3>1, <3>2
  <2> QED  BY <2>1, <2>2 DEF Consecutive, Writing
<1>4. CASE PurgeEnds
  <2>1. UNCHANGED <<exists, nth_cache>> /\ pc' = "done" /\ nth_cache \notin exists
    BY <1>4 DEF PurgeEnds, fileVars, readerVars
  <2> QED  BY <2>1 DEF Consecutive, Writing
<1> QED  BY <1>3, <1>4 DEF Purge

LEMMA NextGapless ==
    ASSUME SafeInv, Gapless, [Next]_vars
    PROVE  Gapless'
<1> SUFFICES ASSUME failures' = 0
             PROVE  Consecutive'
  BY DEF Gapless
<1>1. CASE Next
  <2>1. failures = 0 /\ Consecutive
    BY <1>1, FailuresCount DEF Gapless
  <2> QED  BY <1>1, <2>1, WriteConsecutive, OthersConsecutive, PurgeConsecutive DEF Next
<1>2. CASE UNCHANGED vars
  <2>1. UNCHANGED <<pc, file, exists, nth_cache, failures, crashed>>
    BY <1>2 DEF vars, fileVars, readerVars, history
  <2> QED  BY <2>1 DEF Gapless, Consecutive
<1> QED  BY <1>1, <1>2

LEMMA InitGapless ==
    ASSUME Init
    PROVE  Gapless
<1>1. exists = {0} /\ nth_cache = 0 /\ pc = "idle" /\ file.chapter = 0 /\ file.fp # NULL
  BY DEF Init, Opened, NULL
<1>2. \A d \in 0..0 : d = 0
  OBVIOUS
<1> QED  BY <1>1, <1>2 DEF Gapless, Consecutive

(* THEOREM: when the session is over and nothing failed, there is no       *)
(* chapter left of its cache.                                              *)
THEOREM NoChapterStays == Spec => []AllPurged
<1>1. Init => Gapless
  BY InitGapless
<1>2. SafeInv /\ Gapless => AllPurged
  <2> SUFFICES ASSUME SafeInv, Consecutive, pc = "done", ~crashed, NEW c \in exists
               PROVE  FALSE
    BY DEF Gapless, AllPurged, At
  <2>1. nth_cache \in Nat /\ c \in Nat
    BY CacheAssumption DEF SafeInv, TypeOK, Chapters
  <2>2. nth_cache \in nth_cache..c
    BY <2>1 DEF Consecutive
  <2> QED  BY <2>2 DEF Consecutive
<1>3. SafeInv /\ Gapless /\ [Next]_vars => SafeInv' /\ Gapless'
  BY NextSafe, NextGapless
<1> QED  BY <1>1, <1>2, <1>3, InitSafe, PTL DEF Spec
-----------------------------------------------------------------------------
(* The byte that follows a byte of a frame: the next one of the frame, or  *)
(* the header of the next frame.                                           *)
Follow(s, b) == IF b[2] < s[b[1]] THEN <<b[1], b[2] + 1>> ELSE <<b[1] + 1, 0>>

(* After i bytes of chapter c the byte e comes next; s are the sizes of    *)
(* the frames and d is what the chapters hold.                             *)
Before(s, d, c, i, e) ==
    IF i > 0 THEN d[c][i] # Zero /\ e = Follow(s, d[c][i])
    ELSE IF c > 0 THEN LET last == d[c - 1][Len(d[c - 1])]
                       IN  d[c - 1] # <<>> /\ last # Zero /\ e = Follow(s, last)
    ELSE e = <<1, 0>>

(* Each byte is the one that comes next, and zeros are followed by zeros.  *)
Chained(s, d) ==
    \A c \in Chapters : \A i \in 1..Len(d[c]) : d[c][i] # Zero => Before(s, d, c, i - 1, d[c][i])

(* Hence a byte of a frame is so many bytes ahead of another, which is     *)
(* stated beside the chain: it cannot be concluded without an induction.   *)
Ahead(s, b, k) == IF b[2] + k <= s[b[1]] THEN {<<b[1], b[2] + k>>} ELSE Byte
Runs(s, d) ==
    \A c \in Chapters : \A i, j \in 1..Len(d[c]) :
        i < j => \/ d[c][j] = Zero
                 \/ d[c][i] # Zero /\ d[c][j] \in Ahead(s, d[c][i], j - i)

(* A chapter that another follows is full; the last one has been written   *)
(* up to the byte that the cacher has in hand.                             *)
Upcoming == IF pc \in InHand THEN Head(todo) ELSE <<Len(sizes) + 1, 0>>
Filled ==
    /\ pc \in Writing \cup {"load"} \cup Loading =>
         /\ 0 \in exists
         /\ \A c \in exists :
               IF c + 1 \in exists
               THEN Len(data[c]) > CACHE_FILE_SIZE_LIMIT /\ \A i \in 1..Len(data[c]) : data[c][i] # Zero
               ELSE ~crashed => Before(sizes, data, c, Len(data[c]), Upcoming)
    /\ pc \in Writing => Len(data[file.chapter]) = file.chapter_n_bytes

Written == Chained(sizes, data) /\ Runs(sizes, data) /\ Filled

(* The loader has come to the byte e, or to zeros up to the cache's end.   *)
Comes(e) == /\ reading.at <= Len(data[file.chapter])
            /\ Before(sizes, data, file.chapter, reading.at, e)
OnlyZeros == /\ crashed /\ file.chapter + 1 \notin exists
             /\ \A i \in 1..Len(Content(file.chapter)) :
                   i > reading.at => Content(file.chapter)[i] = Zero
Good == \A i \in 1..Len(loaded) : loaded[i].frame = i /\ loaded[i].body = Body(i)
Nth == Len(loaded) + 1
Behind ==
    pc \in Loading =>
      /\ file.chapter \in exists
      /\ pc \in Header /\ reading.len = 1 => (Good /\ Comes(<<Nth, 0>>)) \/ OnlyZeros
      /\ pc \in Header /\ reading.len = 0 =>
           \/ Good /\ reading.got[1] = <<Nth, 0>> /\ Nth \in DOMAIN sizes /\ Comes(<<Nth, 1>>)
           \/ reading.got[1] = Zero /\ (~crashed => Len(loaded) = Len(sizes))
      /\ pc \in Frame =>
           /\ reading.frame = Nth /\ Good
           /\ \/ /\ \A i \in 1..Len(reading.got) : reading.got[i] = <<Nth, i>>
                 /\ Comes(IF reading.len > 0 THEN <<Nth, Len(reading.got) + 1>> ELSE <<Nth + 1, 0>>)
              \/ OnlyZeros /\ \E i \in 1..Len(reading.got) : reading.got[i] = Zero

InOrder == failures = 0 => Written /\ Behind /\ FramesLoaded
(* What the definitions say of chapters and sizes that are given.          *)
LEMMA FollowIs ==
    ASSUME NEW s, NEW b \in Byte, s[b[1]] \in Nat
    PROVE  /\ b[2] < s[b[1]] => Follow(s, b) = <<b[1], b[2] + 1>>
           /\ ~(b[2] < s[b[1]]) => Follow(s, b) = <<b[1] + 1, 0>>
           /\ b[1] \in Nat /\ b[2] \in Nat
  BY BytesAre, CacheAssumption DEF Follow

(* Before a chapter that is not the first comes another.                   *)
LEMMA ChaptersAre ==
    \A c \in Chapters : c \in Nat /\ (c > 0 => c - 1 \in Chapters) /\ c - 1 # c
<1> DEFINE top == MaxFrames * (MaxBody + 1)
<1>1. top \in Nat /\ Chapters = 0..top
  BY CacheAssumption DEF Chapters
<1> HIDE DEF top
<1> QED  BY <1>1

LEMMA ChunksAre ==
    ASSUME NEW d \in [Chapters -> Seq(Byte)], NEW c \in Chapters
    PROVE  d[c] \in Seq(Byte) /\ Len(d[c]) \in Nat /\ \A i \in 1..Len(d[c]) : d[c][i] \in Byte
<1>1. d[c] \in Seq(Byte)
  OBVIOUS
<1> QED  BY <1>1, LenProperties, ElementOfSeq

(* A byte that is the one to come next is written behind the others.       *)
LEMMA AppendInOrder ==
    ASSUME NEW s, NEW d \in [Chapters -> Seq(Byte)], NEW e \in [Chapters -> Seq(Byte)],
           NEW f \in Chapters, NEW b \in Byte,
           Len(e[f]) = Len(d[f]) + 1, e[f][Len(d[f]) + 1] = b,
           \A i \in 1..Len(d[f]) : e[f][i] = d[f][i],
           \A c \in Chapters : (c # f => e[c] = d[c]) /\ (c > f => d[c] = <<>>),
           \A i \in 1..Len(d[f]) : d[f][i] # Zero /\ s[d[f][i][1]] \in Nat,
           Chained(s, d), Runs(s, d), Before(s, d, f, Len(d[f]), b)
    PROVE  Chained(s, e) /\ Runs(s, e)
<1> DEFINE n == Len(d[f])
<1>1. n \in Nat /\ \A i \in 1..n : d[f][i] \in Byte
  BY ChunksAre
<1>2. \A c \in Chapters : c \in Nat
  BY DEF Chapters
<1>3. \A i \in 1..n + 1 : i \in 1..n \/ i = n + 1
  BY <1>1
<1>4. Chained(s, e)
  <2> SUFFICES ASSUME NEW c \in Chapters, NEW i \in 1..Len(e[c]), e[c][i] # Zero
               PROVE  Before(s, e, c, i - 1, e[c][i])
    BY DEF Chained
  <2>1. CASE c = f /\ i = n + 1
    <3>1. Before(s, d, f, n, b) /\ i - 1 = n /\ e[c][i] = b
      BY <1>1, <2>1
    <3>2. CASE n > 0
      <4>1. n \in 1..n
        BY <1>1, <3>2
      <4>2. e[f][n] = d[f][n]
        BY <4>1
      <4> QED  BY <2>1, <3>1, <3>2, <4>2 DEF Before
    <3>3. CASE ~(n > 0)
      <4>1. f - 1 # f /\ (f > 0 => f - 1 \in Chapters)
        BY ChaptersAre
      <4>2. f > 0 => e[f - 1] = d[f - 1]
        BY <4>1
      <4> QED  BY <2>1, <3>1, <3>3, <4>2 DEF Before
    <3> QED  BY <3>2, <3>3
  <2>2. CASE c = f /\ i \in 1..n
    <3>1. e[c][i] = d[c][i] /\ Before(s, d, c, i - 1, d[c][i])
      BY <2>2 DEF Chained
    <3>2. i - 1 > 0 => e[c][i - 1] = d[c][i - 1]
      BY <1>1, <2>2
    <3>3. c > 0 => e[c - 1] = d[c - 1]
      BY <1>2, <2>2, ChaptersAre
    <3> QED  BY <3>1, <3>2, <3>3 DEF Before
  <2>3. CASE c # f
    <3>1. e[c] = d[c] /\ i \in 1..Len(d[c]) /\ Before(s, d, c, i - 1, d[c][i])
      BY <2>3 DEF Chained
    <3>2. c - 1 # f \/ ~(c > 0)
      <4> SUFFICES ASSUME c - 1 = f
                   PROVE  FALSE
        OBVIOUS
      <4>1. c > f
        BY <1>2
      <4>2. d[c] = <<>>
        BY <4>1
      <4> QED  BY <3>1, <4>2
    <3>3. c > 0 => e[c - 1] = d[c - 1]
      <4>1. c > 0 => c - 1 \in Chapters
        BY ChaptersAre
      <4> QED  BY <3>2, <4>1
    <3> QED  BY <3>1, <3>3 DEF Before
  <2>4. c = f => i \in 1..n \/ i = n + 1
    BY <1>3
  <2> QED  BY <2>1, <2>2, <2>3, <2>4
<1>5. Runs(s, e)
  <2> SUFFICES ASSUME NEW c \in Chapters, NEW i \in 1..Len(e[c]), NEW j \in 1..Len(e[c]), i < j
               PROVE  e[c][j] = Zero \/ (e[c][i] # Zero /\ e[c][j] \in Ahead(s, e[c][i], j - i))
    BY DEF Runs
  <2>1. CASE c # f \/ j # n + 1
    <3>1. i \in 1..Len(d[c]) /\ j \in 1..Len(d[c])
      <4>1. CASE c # f
        BY <4>1
      <4>2. CASE c = f /\ j # n + 1
        BY <1>1, <4>2
      <4> QED  BY <2>1, <4>1, <4>2
    <3>2. e[c][i] = d[c][i] /\ e[c][j] = d[c][j]
      BY <3>1
    <3> QED  BY <3>1, <3>2 DEF Runs
  <2>2. CASE c = f /\ j = n + 1
    <3> DEFINE x == d[f][i]
               y == d[f][n]
    <3>1. i \in 1..n /\ n \in 1..n /\ e[c][i] = x /\ e[c][j] = b /\ x # Zero
      BY <1>1, <2>2
    <3>2. x \in Byte /\ y \in Byte /\ s[x[1]] \in Nat /\ s[y[1]] \in Nat /\ b = Follow(s, y)
      BY <1>1, <3>1 DEF Before
    <3>3. (y = x /\ i = n) \/ y \in Ahead(s, x, n - i)
      <4>1. CASE i = n
        BY <4>1
      <4>2. CASE i # n
        <5>1. i < n
          BY <1>1, <3>1, <4>2
        <5> QED  BY <3>1, <5>1 DEF Runs
      <4> QED  BY <4>1, <4>2
    <3> HIDE DEF x, y
    <3>4. b \in Ahead(s, x, n + 1 - i)
      <4>1. CASE x[2] + (n + 1 - i) <= s[x[1]]
        <5>1. x[2] \in Nat /\ x[1] \in Nat
          BY <3>2, FollowIs
        <5>2. x[2] + (n - i) <= s[x[1]]
          BY <1>1, <3>1, <3>2, <4>1, <5>1
        <5>3. y[1] = x[1] /\ y[2] = x[2] + (n - i)
          <6>1. CASE y = x /\ i = n
            BY <1>1, <5>1, <6>1
          <6>2. CASE y \in Ahead(s, x, n - i)
            BY <5>2, <6>2 DEF Ahead
          <6> QED  BY <3>3, <6>1, <6>2
        <5>4. y[2] < s[y[1]] /\ y[2] + 1 = x[2] + (n + 1 - i)
          <6> DEFINE v == x[2]
                     w == y[2]
                     size == s[x[1]]
          <6>1. /\ v \in Nat /\ size \in Nat /\ i \in 1..n /\ n \in Nat
                /\ v + (n + 1 - i) <= size /\ w = v + (n - i)
            BY <1>1, <3>1, <3>2, <4>1, <5>1, <5>3
          <6>2. s[y[1]] = size
            BY <5>3
          <6> HIDE DEF v, w, size, n
          <6>3. w < size /\ w + 1 = v + (n + 1 - i)
            BY <6>1
          <6> QED  BY <6>2, <6>3 DEF v, w, size
        <5>5. b = <<x[1], x[2] + (n + 1 - i)>>
          BY <3>2, <5>3, <5>4, FollowIs
        <5> QED  BY <4>1, <5>5 DEF Ahead
      <4>2. CASE ~(x[2] + (n + 1 - i) <= s[x[1]])
        BY <4>2 DEF Ahead
      <4> QED  BY <4>1, <4>2
    <3> QED  BY <2>2, <3>1, <3>4
  <2> QED  BY <2>1, <2>2
<1> QED  BY <1>4, <1>5

(* What is left of the chapter that was open is still in order.            *)
LEMMA CutInOrder ==
    ASSUME NEW s, NEW d \in [Chapters -> Seq(Byte)], NEW e \in [Chapters -> Seq(Byte)],
           NEW f \in Chapters, NEW n \in 0..Len(d[f]),
           n <= Len(e[f]), \A i \in 1..n : e[f][i] = d[f][i],
           \A i \in n + 1..Len(e[f]) : e[f][i] = Zero,
           \A c \in Chapters : (c # f => e[c] = d[c]) /\ (c > f => d[c] = <<>>),
           Chained(s, d), Runs(s, d)
    PROVE  Chained(s, e) /\ Runs(s, e)
<1>1. n \in Nat /\ n <= Len(d[f]) /\ Len(d[f]) \in Nat /\ Len(e[f]) \in Nat
  <2>1. Len(d[f]) \in Nat /\ Len(e[f]) \in Nat
    BY ChunksAre
  <2> QED  BY <2>1
<1>2. \A c \in Chapters : c \in Nat
  BY DEF Chapters
<1>3. Chained(s, e)
  <2> SUFFICES ASSUME NEW c \in Chapters, NEW i \in 1..Len(e[c]), e[c][i] # Zero
               PROVE  Before(s, e, c, i - 1, e[c][i])
    BY DEF Chained
  <2>1. CASE c = f
    <3>1. i \in 1..n
      BY <1>1, <2>1
    <3>2. i \in 1..Len(d[f]) /\ e[c][i] = d[c][i]
      BY <1>1, <2>1, <3>1
    <3>3. Before(s, d, c, i - 1, d[c][i])
      BY <2>1, <3>2 DEF Chained
    <3>4. i - 1 > 0 => e[c][i - 1] = d[c][i - 1]
      BY <1>1, <2>1, <3>1
    <3>5. c > 0 => e[c - 1] = d[c - 1]
      BY <1>2, <2>1, ChaptersAre
    <3> QED  BY <3>2, <3>3, <3>4, <3>5 DEF Before
  <2>2. CASE c # f
    <3>1. e[c] = d[c] /\ i \in 1..Len(d[c]) /\ Before(s, d, c, i - 1, d[c][i])
      BY <2>2 DEF Chained
    <3>2. c - 1 # f \/ ~(c > 0)
      <4> SUFFICES ASSUME c - 1 = f
                   PROVE  FALSE
        OBVIOUS
      <4>1. c > f
        BY <1>2
      <4>2. d[c] = <<>>
        BY <4>1
      <4> QED  BY <3>1, <4>2
    <3>3. c > 0 => e[c - 1] = d[c - 1]
      <4>1. c > 0 => c - 1 \in Chapters
        BY ChaptersAre
      <4> QED  BY <3>2, <4>1
    <3> QED  BY <3>1, <3>3 DEF Before
  <2> QED  BY <2>1, <2>2
<1>4. Runs(s, e)
  <2> SUFFICES ASSUME NEW c \in Chapters, NEW i \in 1..Len(e[c]), NEW j \in 1..Len(e[c]), i < j
               PROVE  e[c][j] = Zero \/ (e[c][i] # Zero /\ e[c][j] \in Ahead(s, e[c][i], j - i))
    BY DEF Runs
  <2>1. CASE c # f
    BY <2>1 DEF Runs
  <2>2. CASE c = f /\ j <= n
    <3>1. i \in 1..n /\ j \in 1..n
      BY <1>1, <2>2
    <3>2. i \in 1..Len(d[f]) /\ j \in 1..Len(d[f]) /\ e[c][i] = d[f][i] /\ e[c][j] = d[f][j]
      BY <1>1, <2>2, <3>1
    <3> QED  BY <3>2 DEF Runs
  <2>3. CASE c = f /\ ~(j <= n)
    <3>1. j \in n + 1..Len(e[f])
      BY <1>1, <2>3
    <3> QED  BY <2>3, <3>1
  <2> QED  BY <2>1, <2>2, <2>3
<1> QED  BY <1>3, <1>4

(* A further frame changes nothing for the bytes of those there are.       *)
LEMMA SizesInOrder ==
    ASSUME NEW s, NEW t, NEW d \in [Chapters -> Seq(Byte)],
           \A c \in Chapters : \A i \in 1..Len(d[c]) : d[c][i] # Zero => t[d[c][i][1]] = s[d[c][i][1]]
    PROVE  /\ \A c \in Chapters, i \in Nat : \A e :
                 i <= Len(d[c]) => (Before(s, d, c, i, e) <=> Before(t, d, c, i, e))
           /\ Chained(s, d) => Chained(t, d)
           /\ Runs(s, d) => Runs(t, d)
<1>1. ASSUME NEW c \in Chapters, NEW i \in Nat, NEW e, i <= Len(d[c])
      PROVE  Before(s, d, c, i, e) <=> Before(t, d, c, i, e)
  <2>1. CASE i > 0
    <3>1. i \in 1..Len(d[c])
      BY <1>1, <2>1, ChunksAre
    <3>2. d[c][i] # Zero => Follow(s, d[c][i]) = Follow(t, d[c][i])
      BY <3>1 DEF Follow
    <3> QED  BY <2>1, <3>2 DEF Before
  <2>2. CASE ~(i > 0) /\ c > 0
    <3>1. c - 1 \in Chapters
      BY <2>2, ChaptersAre
    <3>2. d[c - 1] # <<>> => Len(d[c - 1]) \in 1..Len(d[c - 1])
      BY <3>1, ChunksAre, EmptySeq
    <3> DEFINE last == d[c - 1][Len(d[c - 1])]
    <3>3. d[c - 1] # <<>> /\ last # Zero => Follow(s, last) = Follow(t, last)
      BY <3>1, <3>2 DEF Follow
    <3> QED  BY <2>2, <3>3 DEF Before
  <2>3. CASE ~(i > 0) /\ ~(c > 0)
    BY <2>3 DEF Before
  <2> QED  BY <2>1, <2>2, <2>3
<1>2. ASSUME Chained(s, d)
      PROVE  Chained(t, d)
  <2> SUFFICES ASSUME NEW c \in Chapters, NEW i \in 1..Len(d[c]), d[c][i] # Zero
               PROVE  Before(t, d, c, i - 1, d[c][i])
    BY DEF Chained
  <2>1. Before(s, d, c, i - 1, d[c][i])
    BY <1>2 DEF Chained
  <2>2. i - 1 \in Nat /\ i - 1 <= Len(d[c])
    BY ChunksAre
  <2> QED  BY <1>1, <2>1, <2>2
<1>3. ASSUME Runs(s, d)
      PROVE  Runs(t, d)
  <2> SUFFICES ASSUME NEW c \in Chapters, NEW i \in 1..Len(d[c]), NEW j \in 1..Len(d[c]), i < j
               PROVE  d[c][j] = Zero \/ (d[c][i] # Zero /\ d[c][j] \in Ahead(t, d[c][i], j - i))
    BY DEF Runs
  <2>1. d[c][j] = Zero \/ (d[c][i] # Zero /\ d[c][j] \in Ahead(s, d[c][i], j - i))
    BY <1>3 DEF Runs
  <2>2. d[c][i] # Zero => Ahead(t, d[c][i], j - i) = Ahead(s, d[c][i], j - i)
    BY DEF Ahead
  <2> QED  BY <2>1, <2>2
<1> QED  BY <1>1, <1>2, <1>3
-----------------------------------------------------------------------------
(* Without a crash every byte there is belongs to a frame.                 *)
LEMMA NonZero ==
    ASSUME SafeInv
    PROVE  /\ data \in [Chapters -> Seq(Byte)]
           /\ \A c \in Chapters : \A i \in 1..Len(data[c]) :
                 data[c][i] # Zero => /\ Real(data[c][i]) /\ data[c][i][1] \in 1..Len(sizes)
                                      /\ sizes[data[c][i][1]] \in Nat
           /\ ~crashed => \A c \in Chapters : \A i \in 1..Len(data[c]) : data[c][i] # Zero
<1>1. data \in [Chapters -> Seq(Byte)]
  BY DEF SafeInv, TypeOK
<1>2. ASSUME NEW c \in Chapters, NEW i \in 1..Len(data[c])
      PROVE  Real(data[c][i]) \/ (data[c][i] = Zero /\ crashed)
  <2>1. i \in DOMAIN data[c]
    BY <1>1, ChunksAre, LenProperties
  <2> QED  BY <2>1 DEF SafeInv, Bytes
<1>3. ASSUME NEW b, Real(b)
      PROVE  b[1] \in 1..Len(sizes) /\ sizes[b[1]] \in Nat /\ b # Zero
  BY <1>3, SizesAre DEF SafeInv, Real, Zero
<1> QED  BY <1>1, <1>2, <1>3

(* A step that writes nothing and takes nothing in hand.                   *)
LEMMA KeptWritten ==
    ASSUME Written, UNCHANGED <<data, sizes>>,
           pc' \in Writing \cup {"load"} \cup Loading =>
               /\ pc \in Writing \cup {"load"} \cup Loading
               /\ UNCHANGED <<exists, crashed>> /\ Upcoming' = Upcoming,
           pc' \in Writing => /\ pc \in Writing /\ file'.chapter = file.chapter
                              /\ file'.chapter_n_bytes = file.chapter_n_bytes
    PROVE  Written'
<1>1. Chained(sizes', data') /\ Runs(sizes', data')
  BY DEF Written
<1>2. Filled'
  BY DEF Written, Filled
<1> QED  BY <1>1, <1>2 DEF Written

LEMMA StartFrameWritten ==
    ASSUME SafeInv, Written, NEW n \in 1..MaxBody, StartFrame(n)
    PROVE  Written'
<1>1. /\ pc = "idle" /\ pc' = "write" /\ sizes' = Append(sizes, n)
      /\ todo' = [i \in 1..n + 1 |-> <<Len(sizes'), i - 1>>]
      /\ UNCHANGED <<file, exists, data, crashed>>
  BY DEF StartFrame, Go, fileVars, history
<1>2. /\ Len(sizes) \in Nat /\ Len(sizes') = Len(sizes) + 1
      /\ \A i \in 1..Len(sizes) : sizes'[i] = sizes[i]
  <2>1. sizes \in Seq(1..MaxBody)
    BY DEF SafeInv, TypeOK
  <2> QED  BY <1>1, <2>1, AppendProperties, LenProperties
<1>3. Upcoming' = Upcoming
  <2>1. todo'[1] = <<Len(sizes) + 1, 0>>
    BY <1>1, <1>2
  <2>2. Head(todo') = todo'[1]
    OBVIOUS
  <2> QED  BY <1>1, <2>1, <2>2 DEF Upcoming, InHand
<1>4. \A c \in Chapters : \A i \in 1..Len(data[c]) :
         data[c][i] # Zero => sizes'[data[c][i][1]] = sizes[data[c][i][1]]
  BY <1>2, NonZero
<1>5. /\ Chained(sizes', data) /\ Runs(sizes', data)
      /\ \A c \in Chapters, i \in Nat : \A e :
            i <= Len(data[c]) => (Before(sizes, data, c, i, e) <=> Before(sizes', data, c, i, e))
  BY <1>4, NonZero, SizesInOrder DEF Written
<1>6. Filled'
  <2>1. pc \in Writing /\ pc' \in Writing
    BY <1>1 DEF Writing
  <2>2. ASSUME NEW c \in exists, c + 1 \notin exists, ~crashed
        PROVE  Before(sizes', data, c, Len(data[c]), Upcoming')
    <3>1. Before(sizes, data, c, Len(data[c]), Upcoming)
      BY <2>1, <2>2 DEF Written, Filled
    <3>2. c \in Chapters /\ Len(data[c]) \in Nat /\ Len(data[c]) <= Len(data[c])
      BY NonZero, ChunksAre DEF SafeInv, TypeOK
    <3> QED  BY <1>3, <1>5, <3>1, <3>2
  <2> QED  BY <1>1, <2>1, <2>2 DEF Written, Filled
<1> QED  BY <1>1, <1>5, <1>6 DEF Written

(* The chapter that is open is the last of those that exist.               *)
LEMMA OpenIsLast ==
    ASSUME SafeInv, Consecutive, pc \in Writing
    PROVE  /\ file.chapter \in exists /\ file.chapter + 1 \notin exists /\ ~crashed
           /\ \A c \in exists : c \in Nat /\ c <= file.chapter /\ (c + 1 \notin exists => c = file.chapter)
<1>1. file.chapter \in exists /\ ~crashed /\ nth_cache = 0 /\ file.chapter \in Nat
  BY HandleIs DEF SafeInv, OneHandle, InCache, Consecutive
<1>2. ASSUME NEW c \in exists
      PROVE  c \in Nat /\ c <= file.chapter
  <2>1. c \in Chapters /\ c \in Nat
    BY ChaptersAre DEF SafeInv, TypeOK
  <2>2. ~(c > file.chapter)
    BY <2>1 DEF SafeInv, NewChapters
  <2> QED  BY <1>1, <2>1, <2>2
<1>3. file.chapter + 1 \notin exists
  BY <1>1, <1>2
<1>4. ASSUME NEW c \in exists, c + 1 \notin exists
      PROVE  c = file.chapter
  <2>1. c \in Nat /\ c <= file.chapter
    BY <1>2
  <2>2. c # file.chapter => c + 1 \in 0..file.chapter
    BY <1>1, <2>1
  <2>3. \A d \in 0..file.chapter : d \in exists
    BY <1>1 DEF Consecutive
  <2> QED  BY <1>4, <2>2, <2>3
<1> QED  BY <1>1, <1>2, <1>3, <1>4

(* The chapter that is opened goes on where the full one ended.            *)
LEMMA OpenNextWritten ==
    ASSUME SafeInv, Consecutive, Written, OpenNext, failures' = failures
    PROVE  Written'
<1> DEFINE k == file.chapter + 1
<1>1. /\ pc = "open" /\ pc' = "put" /\ file' = Opened(k) /\ exists' = exists \cup {k}
      /\ UNCHANGED <<data, todo, sizes, crashed>>
  <2>1. failures \in Nat
    BY CacheAssumption DEF SafeInv, TypeOK
  <2> QED  BY <2>1 DEF OpenNext, OpenForWriting, OpenFails, At, writerVars, history
<1>2. /\ k \in Chapters /\ k \in Nat /\ data[k] = <<>> /\ file.chapter \in Chapters
      /\ file.chapter \in Nat
  BY <1>1, ChapterToCome, HandleIs DEF SafeInv, NewChapters, Writing
<1>3. /\ file.chapter \in exists /\ k \notin exists /\ ~crashed
      /\ \A c \in exists : c \in Nat /\ c <= file.chapter
  BY <1>1, OpenIsLast DEF Writing
<1>4. Len(data[file.chapter]) > CACHE_FILE_SIZE_LIMIT /\ Len(data[file.chapter]) \in Nat
  <2>1. file.chapter_n_bytes > CACHE_FILE_SIZE_LIMIT
    BY <1>1 DEF SafeInv, OneHandle, Writing, Full
  <2>2. Len(data[file.chapter]) = file.chapter_n_bytes
    BY <1>1 DEF Written, Filled, Writing
  <2> QED  BY <1>2, <2>1, <2>2, NonZero, ChunksAre
<1>5. Upcoming' = Upcoming
  BY <1>1 DEF Upcoming, InHand
<1>6. Before(sizes, data, file.chapter, Len(data[file.chapter]), Upcoming)
  BY <1>1, <1>3 DEF Written, Filled, Writing
<1>7. Before(sizes, data, k, 0, Upcoming)
  <2>1. k > 0 /\ k - 1 = file.chapter
    BY <1>2
  <2>2. Len(data[file.chapter]) > 0
    BY <1>4, CacheAssumption
  <2>3. data[file.chapter] # <<>>
    BY <2>2
  <2> HIDE DEF k
  <2> QED  BY <1>6, <2>1, <2>2, <2>3 DEF Before
<1>8. Filled'
  <2>1. 0 \in exists'
    BY <1>1 DEF Written, Filled, Writing
  <2>2. ASSUME NEW c \in exists', c + 1 \in exists'
        PROVE  Len(data[c]) > CACHE_FILE_SIZE_LIMIT /\ \A i \in 1..Len(data[c]) : data[c][i] # Zero
    <3>1. c # k /\ c \in exists
      BY <1>1, <1>2, <1>3, <2>2
    <3>2. CASE c = file.chapter
      BY <1>2, <1>3, <1>4, <3>2, NonZero
    <3>3. CASE c # file.chapter
      <4>1. c + 1 \in exists
        BY <1>1, <1>2, <1>3, <2>2, <3>1, <3>3
      <4> QED  BY <1>1, <3>1, <4>1 DEF Written, Filled, Writing
    <3> QED  BY <3>2, <3>3
  <2>3. ASSUME NEW c \in exists', c + 1 \notin exists'
        PROVE  Before(sizes, data, c, Len(data[c]), Upcoming)
    <3>1. CASE c = k
      <4>1. Len(data[k]) = 0
        BY <1>2
      <4> QED  BY <1>7, <3>1, <4>1
    <3>2. CASE c # k
      <4>1. c \in exists /\ c + 1 \notin exists
        BY <1>1, <2>3, <3>2
      <4> QED  BY <1>1, <1>3, <4>1 DEF Written, Filled, Writing
    <3> QED  BY <3>1, <3>2
  <2>4. Len(data'[file'.chapter]) = file'.chapter_n_bytes
    <3>1. file'.chapter = k /\ file'.chapter_n_bytes = 0 /\ Len(data[k]) = 0
      BY <1>1, <1>2 DEF Opened
    <3> HIDE DEF k
    <3> QED  BY <1>1, <3>1
  <2> HIDE DEF k
  <2>5. \A c \in exists' :
           IF c + 1 \in exists'
           THEN Len(data'[c]) > CACHE_FILE_SIZE_LIMIT /\ \A i \in 1..Len(data'[c]) : data'[c][i] # Zero
           ELSE ~crashed' => Before(sizes', data', c, Len(data'[c]), Upcoming')
    BY <1>1, <1>5, <2>2, <2>3
  <2> QED  BY <2>1, <2>4, <2>5 DEF Filled
<1>9. Chained(sizes', data') /\ Runs(sizes', data')
  BY <1>1 DEF Written
<1> QED  BY <1>8, <1>9 DEF Written
(* The byte in hand is one of the last frame, and the next follows it.     *)
LEMMA HandIs ==
    ASSUME SafeInv, pc \in InHand, NextWrite
    PROVE  /\ Head(todo) \in Byte /\ Head(todo) # Zero /\ Upcoming = Head(todo)
           /\ sizes' = sizes /\ Upcoming' = Follow(sizes, Head(todo))
<1> DEFINE n == Len(sizes)
           m == sizes[n]
           k == Len(todo)
           b == Head(todo)
<1>1. /\ todo' \in Seq(Byte) /\ k \in Nat /\ Len(todo') = k - 1
      /\ \A i \in 1..k - 1 : todo'[i] = todo[i + 1]
      /\ b = todo[1] /\ b \in Byte /\ todo # <<>> /\ sizes' = sizes
      /\ pc' = IF k = 1 THEN "idle" ELSE "write"
      /\ (k = 1 <=> todo' = <<>>)
  BY NextWriteTakes DEF SafeInv
<1>2. n \in Nat /\ n >= 1 /\ m \in Nat /\ k \in 1..m + 1
  <2>1. sizes # <<>> /\ k \in 1..m + 1
    BY DEF SafeInv, InFrame
  <2> QED  BY <2>1, SizesAre DEF SafeInv
<1>3. \A i \in 1..k : todo[i] = <<n, m - k + i>>
  <2>1. DOMAIN todo = 1..k
    BY LenProperties DEF SafeInv, TypeOK
  <2> QED  BY <2>1 DEF SafeInv, InFrame
<1>4. b = <<n, m - k + 1>>
  BY <1>1, <1>2, <1>3
<1>5. b # Zero /\ Upcoming = b
  <2>1. b[1] = n
    BY <1>4
  <2> QED  BY <1>2, <2>1 DEF Zero, Upcoming
<1>6. Upcoming' = Follow(sizes, b)
  <2> DEFINE i == m - k + 1
  <2>1. i \in Int /\ b[1] = n /\ b[2] = i
    BY <1>2, <1>4
  <2>2. CASE k = 1
    <3>1. ~(b[2] < m)
      BY <1>2, <2>1, <2>2
    <3>2. Follow(sizes, b) = <<n + 1, 0>>
      BY <2>1, <3>1 DEF Follow
    <3>3. Upcoming' = <<n + 1, 0>>
      BY <1>1, <2>2 DEF Upcoming, InHand
    <3> QED  BY <3>2, <3>3
  <2>3. CASE k # 1
    <3>0. k > 1 /\ k \in Nat /\ m \in Nat
      <4> HIDE DEF m, k, n
      <4> QED  BY <1>2, <2>3
    <3>1. b[2] < m
      <4> HIDE DEF m, k, n, b
      <4> QED  BY <2>1, <3>0
    <3>2. Follow(sizes, b) = <<n, i + 1>>
      BY <2>1, <3>1 DEF Follow
    <3>3. todo'[1] = <<n, i + 1>>
      <4>1. 1 \in 1..k - 1 /\ 2 \in 1..k
          <5> HIDE DEF k
          <5> QED  BY <3>0
      <4>2. todo'[1] = todo[2]
        BY <1>1, <4>1
      <4>3. m - k + 2 = i + 1
        BY <1>2
      <4> HIDE DEF i, m, k, n
      <4> QED  BY <1>3, <4>1, <4>2, <4>3
    <3>4. Upcoming' = Head(todo')
      BY <1>1, <2>3 DEF Upcoming, InHand
    <3>5. Head(todo') = todo'[1]
      OBVIOUS
    <3> QED  BY <3>2, <3>3, <3>4, <3>5
  <2> QED  BY <2>2, <2>3
<1> QED  BY <1>1, <1>5, <1>6

(* The byte in hand is written behind the one that it follows.             *)
LEMMA PutWritten ==
    ASSUME SafeInv, Consecutive, Written, Put, failures' = failures
    PROVE  Written'
<1> DEFINE f == file.chapter
           b == Head(todo)
           n == Len(data[f])
<1>1. /\ pc \in {"write", "put"} /\ file.fp = f /\ f \in Chapters /\ NextWrite
      /\ UNCHANGED <<exists, crashed>> /\ pc' \in Writing
      /\ data' = [data EXCEPT ![f] = Append(data[f], b)]
      /\ file' = [file EXCEPT !.chapter_n_bytes = @ + 1]
  <2>1. failures \in Nat
    BY CacheAssumption DEF SafeInv, TypeOK
  <2> QED  BY <2>1, PutThere DEF Put, NextWrite, Writing
<1>2. b \in Byte /\ b # Zero /\ Upcoming = b /\ sizes' = sizes /\ Upcoming' = Follow(sizes, b)
  BY <1>1, HandIs DEF InHand
<1>3. data \in [Chapters -> Seq(Byte)] /\ n \in Nat /\ data[f] \in Seq(Byte)
  BY <1>1, NonZero, ChunksAre
<1> HIDE DEF b, f, n
<1>4. /\ data' \in [Chapters -> Seq(Byte)]
      /\ \A c \in Chapters : c # f => data'[c] = data[c]
      /\ Len(data'[f]) = n + 1 /\ data'[f][n + 1] = b
      /\ \A i \in 1..n : data'[f][i] = data[f][i]
  <2> DEFINE s == Append(data[f], b)
  <2>1. s \in Seq(Byte) /\ Len(s) = n + 1 /\ s[n + 1] = b /\ \A i \in 1..n : s[i] = data[f][i]
    BY <1>2, <1>3, AppendProperties DEF n
  <2> HIDE DEF s
  <2>2. data' = [data EXCEPT ![f] = s]
    BY <1>1 DEF s
  <2> QED  BY <1>1, <1>3, <2>1, <2>2
<1>5. /\ f \in exists /\ f + 1 \notin exists /\ ~crashed /\ pc \in Writing
      /\ \A c \in exists : c + 1 \notin exists => c = f
  BY <1>1, OpenIsLast DEF Writing, f
<1>6. Before(sizes, data, f, n, b)
  BY <1>2, <1>5 DEF Written, Filled, n
<1>7. \A c \in Chapters : c > f => data[c] = <<>>
  BY <1>5 DEF SafeInv, NewChapters, f
<1>8. Chained(sizes, data') /\ Runs(sizes, data')
  <2>1. \A i \in 1..Len(data[f]) : data[f][i] # Zero /\ sizes[data[f][i][1]] \in Nat
    BY <1>1, <1>5, NonZero
  <2>2. \A i \in 1..Len(data[f]) : data'[f][i] = data[f][i]
    BY <1>4 DEF n
  <2>3. Len(data'[f]) = Len(data[f]) + 1 /\ data'[f][Len(data[f]) + 1] = b
    BY <1>4 DEF n
  <2>4. Before(sizes, data, f, Len(data[f]), b)
    BY <1>6 DEF n
  <2>5. \A c \in Chapters : (c # f => data'[c] = data[c]) /\ (c > f => data[c] = <<>>)
    BY <1>4, <1>7
  <2>6. Chained(sizes, data) /\ Runs(sizes, data)
    BY DEF Written
  <2>7. f \in Chapters /\ b \in Byte /\ data' \in [Chapters -> Seq(Byte)]
    BY <1>1, <1>2, <1>4
  <2> QED  BY <1>3, <2>1, <2>2, <2>3, <2>4, <2>5, <2>6, <2>7, AppendInOrder
<1>9. Filled'
  <2>1. Before(sizes, data', f, n + 1, Upcoming')
    BY <1>2, <1>3, <1>4 DEF Before
  <2>2. \A c \in exists : c \in Chapters
    BY DEF SafeInv, TypeOK
  <2>3. ASSUME NEW c \in exists, c + 1 \in exists
        PROVE  Len(data'[c]) > CACHE_FILE_SIZE_LIMIT /\ \A i \in 1..Len(data'[c]) : data'[c][i] # Zero
    <3>1. data'[c] = data[c]
      BY <1>4, <1>5, <2>2, <2>3
    <3> QED  BY <1>5, <2>3, <3>1 DEF Written, Filled
  <2>4. ASSUME NEW c \in exists, c + 1 \notin exists
        PROVE  Before(sizes, data', c, Len(data'[c]), Upcoming')
    BY <1>4, <1>5, <2>1, <2>4
  <2>5. Len(data'[file'.chapter]) = file'.chapter_n_bytes
    <3>1. file'.chapter = f /\ file'.chapter_n_bytes = file.chapter_n_bytes + 1
      BY <1>1 DEF SafeInv, TypeOK, f
    <3>2. n = file.chapter_n_bytes
      BY <1>5 DEF Written, Filled, n, f
    <3> QED  BY <1>4, <3>1, <3>2
  <2>6. 0 \in exists
    BY <1>5 DEF Written, Filled
  <2>7. \A c \in exists' :
           IF c + 1 \in exists'
           THEN Len(data'[c]) > CACHE_FILE_SIZE_LIMIT /\ \A i \in 1..Len(data'[c]) : data'[c][i] # Zero
           ELSE ~crashed' => Before(sizes', data', c, Len(data'[c]), Upcoming')
    BY <1>1, <1>2, <2>3, <2>4
  <2> QED  BY <1>1, <2>5, <2>6, <2>7 DEF Filled
<1> QED  BY <1>2, <1>8, <1>9 DEF Written

(* A crash cuts the chapter that is open, which is the last.               *)
LEMMA CrashWritten ==
    ASSUME SafeInv, Consecutive, Written, Crash
    PROVE  Written'
<1> DEFINE f == file.fp
<1>1. /\ pc \in Writing /\ pc' = "load" /\ crashed' = TRUE /\ UNCHANGED <<exists, sizes>>
  BY DEF Crash, Writing, writerVars
<1>2. data \in [Chapters -> Seq(Byte)] /\ data' \in [Chapters -> Seq(Byte)]
  BY NonZero, CrashLeaves
<1>3. \A c \in Chapters : c # f => data'[c] = data[c]
  BY CrashLeaves
<1>4. Chained(sizes, data') /\ Runs(sizes, data')
  <2>1. CASE f = NULL
    <3>1. \A c \in Chapters : data'[c] = data[c]
      BY <1>3, <2>1, HandleIs DEF SafeInv
    <3>2. data' = data
      BY <1>2, <3>1
    <3> QED  BY <3>2 DEF Written
  <2>2. CASE f # NULL
    <3>1. f \in Chapters /\ f = file.chapter
      BY <2>2, CrashLeaves
    <3>2. PICK n \in 0..Len(data[f]) :
             /\ n <= Len(data'[f])
             /\ \A i \in 1..n : data'[f][i] = data[f][i]
             /\ \A i \in n + 1..Len(data'[f]) : data'[f][i] = Zero
      BY <2>2, CrashLeaves
    <3>3. \A c \in Chapters : c > f => data[c] = <<>>
      BY <1>1, <3>1 DEF SafeInv, NewChapters
    <3> HIDE DEF f
    <3>4. \A c \in Chapters : (c # f => data'[c] = data[c]) /\ (c > f => data[c] = <<>>)
      BY <1>3, <3>3
    <3>5. Chained(sizes, data) /\ Runs(sizes, data)
      BY DEF Written
    <3> QED  BY <1>2, <3>1, <3>2, <3>4, <3>5, CutInOrder
  <2> QED  BY <2>1, <2>2
<1>5. Filled'
  <2>1. 0 \in exists
    BY <1>1 DEF Written, Filled
  <2>2. ASSUME NEW c \in exists, c + 1 \in exists
        PROVE  Len(data'[c]) > CACHE_FILE_SIZE_LIMIT /\ \A i \in 1..Len(data'[c]) : data'[c][i] # Zero
    <3>1. file.chapter + 1 \notin exists
      BY <1>1, OpenIsLast
    <3>2. c # f
      BY <2>2, <3>1, CrashLeaves, HandleIs DEF SafeInv, TypeOK
    <3>3. data'[c] = data[c]
      BY <1>3, <3>2 DEF SafeInv, TypeOK
    <3> QED  BY <1>1, <2>2, <3>3 DEF Written, Filled
  <2> QED  BY <1>1, <2>1, <2>2 DEF Filled, Writing
<1> QED  BY <1>1, <1>4, <1>5 DEF Written

(* Every step keeps what was written in order.                             *)
LEMMA NextWritten ==
    ASSUME SafeInv, Consecutive, Written, Next, failures' = failures
    PROVE  Written'
<1> USE DEF fileVars, writerVars, readerVars, history
<1>1. failures \in Nat
  BY CacheAssumption DEF SafeInv, TypeOK
<1>2. CASE Syncer
  <2>1. UNCHANGED <<pc, file, exists, data, todo, sizes, crashed>>
    BY <1>2 DEF Syncer, SyncerAllocates, SyncerEnds
  <2> QED  BY <2>1, KeptWritten DEF Upcoming
<1>3. CASE CloseFull \/ CloseWorks \/ CloseLast \/ EndRecording
  <2>1. /\ UNCHANGED <<exists, data, todo, sizes, crashed>>
        /\ file'.chapter = file.chapter /\ file'.chapter_n_bytes = file.chapter_n_bytes
    BY <1>3 DEF CloseFull, CloseWorks, CloseLast, EndRecording, Close, SafeInv, TypeOK
  <2>2. /\ pc \in Writing /\ pc' \in Writing \cup {"load", "purge"}
        /\ pc \in InHand <=> pc' \in InHand
    BY <1>3 DEF CloseFull, CloseWorks, CloseLast, EndRecording, Go, At, Writing, InHand
  <2>3. Upcoming' = Upcoming
    BY <2>1, <2>2 DEF Upcoming
  <2> QED  BY <2>1, <2>2, <2>3, KeptWritten DEF Writing, Loading, Header, Frame
<1>4. CASE Load
  <2>1. UNCHANGED <<exists, data, todo, sizes, crashed>>
    BY <1>4 DEF Load, LoadCache, ReadChunk, NextChapter, EndOfCache, HeaderRead, BodyRead
  <2>2. pc \in {"load"} \cup Loading /\ pc' \notin Writing /\ pc' \notin InHand
    BY <1>4 DEF Load, LoadCache, ReadChunk, NextChapter, EndOfCache, HeaderRead, BodyRead, AfterCache,
       Go, At, Writing, InHand, Loading, Header, Frame
  <2>3. Upcoming' = Upcoming
    BY <2>1, <2>2 DEF Upcoming, InHand, Loading, Header, Frame
  <2> QED  BY <2>1, <2>2, <2>3, KeptWritten
<1>5. CASE Purge
  <2>1. UNCHANGED <<data, sizes>> /\ pc' \in {"purge", "done"}
    BY <1>5 DEF Purge, PurgeChapter, PurgeEnds, At
  <2> QED  BY <2>1, KeptWritten DEF Writing, Loading, Header, Frame
<1>6. CASE Finished
  <2>1. UNCHANGED <<pc, file, exists, data, todo, sizes, crashed>>
    BY <1>6 DEF Finished, vars
  <2> QED  BY <2>1, KeptWritten DEF Upcoming
<1>7. CASE CloseFails
  BY <1>1, <1>7 DEF CloseFails
<1> QED  BY <1>2, <1>3, <1>4, <1>5, <1>6, <1>7, PutWritten, OpenNextWritten, CrashWritten, StartFrameWritten
         DEF Next, Write
-----------------------------------------------------------------------------
(* What the loader finds in the chapter that it reads.                     *)
LEMMA ChapterIs ==
    ASSUME SafeInv, Written, pc \in Loading, file.chapter \in exists
    PROVE  LET c == file.chapter IN
           /\ c \in Chapters /\ Len(data[c]) \in Nat /\ Len(Content(c)) \in Nat
           /\ Len(data[c]) <= Len(Content(c)) /\ reading.at \in Nat
           /\ \A i \in 1..Len(data[c]) : Content(c)[i] = data[c][i]
           /\ \A i \in Len(data[c]) + 1..Len(Content(c)) : Content(c)[i] = Zero
           /\ c + 1 \in exists => /\ Len(Content(c)) = Len(data[c]) /\ Len(data[c]) > 0
                                  /\ \A i \in 1..Len(data[c]) : data[c][i] # Zero
           /\ c + 1 \notin exists /\ ~crashed =>
                 Before(sizes, data, c, Len(data[c]), <<Len(sizes) + 1, 0>>)
<1> DEFINE c == file.chapter
<1>1. c \in Chapters /\ reading.at \in Nat
  BY HandleIs, ReaderIs DEF SafeInv
<1>2. c + 1 \in exists => Len(data[c]) > CACHE_FILE_SIZE_LIMIT /\ \A i \in 1..Len(data[c]) : data[c][i] # Zero
  BY DEF Written, Filled
<1>3. c + 1 \notin exists /\ ~crashed => Before(sizes, data, c, Len(data[c]), <<Len(sizes) + 1, 0>>)
  <2>1. Upcoming = <<Len(sizes) + 1, 0>>
    BY DEF Upcoming, InHand, Loading, Header, Frame
  <2> QED  BY <2>1 DEF Written, Filled
<1> HIDE DEF c
<1>4. /\ Len(data[c]) \in Nat /\ Len(Content(c)) \in Nat /\ Len(data[c]) <= Len(Content(c))
      /\ \A i \in 1..Len(data[c]) : Content(c)[i] = data[c][i]
      /\ \A i \in Len(data[c]) + 1..Len(Content(c)) : Content(c)[i] = Zero
      /\ Len(data[c]) > CACHE_FILE_SIZE_LIMIT => Len(Content(c)) = Len(data[c])
  BY <1>1, ContentIs DEF SafeInv
<1>5. c + 1 \in exists => Len(data[c]) > 0
  BY <1>2, <1>4, CacheAssumption
<1> QED  BY <1>1, <1>2, <1>3, <1>4, <1>5 DEF c

(* A zero is followed by zeros up to the end of the cache, and is one of a *)
(* chapter that a crash has cut, or past what was written.                 *)
LEMMA ZerosAhead ==
    ASSUME SafeInv, Written, pc \in Loading, file.chapter \in exists,
           NEW i \in 1..Len(Content(file.chapter)), Content(file.chapter)[i] = Zero
    PROVE  /\ file.chapter + 1 \notin exists
           /\ i <= Len(data[file.chapter]) => crashed
           /\ \A j \in 1..Len(Content(file.chapter)) : j > i => Content(file.chapter)[j] = Zero
<1> DEFINE c == file.chapter
           l == Len(data[c])
           s == Content(c)
           m == Len(s)
<1>1. /\ c \in Chapters /\ l \in Nat /\ m \in Nat /\ l <= m
      /\ \A j \in 1..l : s[j] = data[c][j]
      /\ \A j \in l + 1..m : s[j] = Zero
      /\ c + 1 \in exists => m = l /\ \A j \in 1..l : data[c][j] # Zero
  BY ChapterIs
<1>2. i \in 1..m /\ s[i] = Zero
  OBVIOUS
<1>3. i <= l => i \in 1..l /\ data[c][i] = Zero
  <2> HIDE DEF l, m, s
  <2> QED  BY <1>1, <1>2
<1>4. i <= l => crashed
  BY <1>1, <1>3, NonZero
<1>5. c + 1 \notin exists
  <2> HIDE DEF l, m, s, c
  <2> QED  BY <1>1, <1>2, <1>3
<1>6. ASSUME NEW j \in 1..m, j > i
      PROVE  s[j] = Zero
  <2>1. CASE j <= l
    <3>1. i \in 1..l /\ j \in 1..l /\ data[c][i] = Zero
      <4> HIDE DEF l, m, s
      <4> QED  BY <1>1, <1>2, <1>3, <1>6, <2>1
    <3>2. data[c][j] = Zero
      BY <1>1, <1>6, <3>1 DEF Written, Runs
    <3> QED  BY <1>1, <3>1, <3>2
  <2>2. CASE ~(j <= l)
    <3> HIDE DEF l, m, s
    <3>1. j \in l + 1..m
      BY <1>1, <1>6, <2>2
    <3> QED  BY <1>1, <3>1
  <2> QED  BY <2>1, <2>2
<1> QED  BY <1>4, <1>5, <1>6

(* The byte it finds is the one it has come to ...                         *)
LEMMA NextByte ==
    ASSUME SafeInv, Written, pc \in Loading, file.chapter \in exists, NEW e, Comes(e),
           reading.at < Len(data[file.chapter]), data[file.chapter][reading.at + 1] # Zero
    PROVE  /\ data[file.chapter][reading.at + 1] = e /\ reading.at + 1 \in 1..Len(data[file.chapter])
           /\ e[1] \in DOMAIN sizes
<1> DEFINE c == file.chapter
           i == reading.at + 1
<1>1. c \in Chapters /\ reading.at \in Nat /\ Len(data[c]) \in Nat
  BY ChapterIs
<1>2. i \in 1..Len(data[c])
  BY <1>1
<1>3. Before(sizes, data, c, i - 1, data[c][i])
  BY <1>1, <1>2 DEF Written, Chained
<1>4. i - 1 = reading.at
  BY <1>1
<1>5. data[c][i] = e
  BY <1>3, <1>4 DEF Comes, Before
<1>6. data[c][i][1] \in 1..Len(sizes)
  BY <1>1, <1>2, NonZero
<1> QED  BY <1>2, <1>5, <1>6, SizesAre DEF SafeInv

(* ... which at the end of the cache is the header of no frame.            *)
LEMMA NoneIsLeft ==
    ASSUME SafeInv, Written, pc \in Loading, file.chapter \in exists, NEW e, Comes(e),
           reading.at = Len(data[file.chapter]), file.chapter + 1 \notin exists, ~crashed
    PROVE  e = <<Len(sizes) + 1, 0>>
  BY ChapterIs DEF Comes, Before

-----------------------------------------------------------------------------
LEMMA ContentStays ==
    ASSUME UNCHANGED <<compressed, allocated, data>>, file'.chapter = file.chapter
    PROVE  Content(file.chapter)' = Content(file.chapter)
  BY DEF Content

(* Zeros up to the end of the cache stay what they are.                    *)
LEMMA OnlyZerosStay ==
    ASSUME SafeInv, OnlyZeros, UNCHANGED <<compressed, allocated, data, exists, crashed>>,
           file'.chapter = file.chapter, reading'.at \in Nat, reading'.at >= reading.at
    PROVE  OnlyZeros'
<1>1. Content(file.chapter)' = Content(file.chapter)
  BY ContentStays
<1>2. reading.at \in Nat /\ Len(Content(file.chapter)) \in Nat
  BY ReaderIs, HandleIs, ContentIs DEF SafeInv
<1>3. \A i \in 1..Len(Content(file.chapter)) : i > reading'.at => Content(file.chapter)[i] = Zero
  BY <1>2 DEF OnlyZeros
<1> QED  BY <1>1, <1>3 DEF OnlyZeros

LEMMA GoodStays ==
    ASSUME Good, UNCHANGED <<loaded, sizes>>
    PROVE  Good'
  BY DEF Good, Body

(* The header that is read is that of the next frame, or there is none.    *)
LEMMA HeaderChunk ==
    ASSUME SafeInv, Written, Behind, ReadChunk, pc = "header"
    PROVE  Behind'
<1> DEFINE c == file.chapter
           at == reading.at
           n == IF Available < reading.len THEN Available ELSE reading.len
<1>1. /\ n \in Nat /\ n <= reading.len /\ at + n <= Len(Content(c))
      /\ reading'.at = at + n /\ reading'.len = reading.len - n
      /\ \A i \in 1..n : reading'.got[Len(reading.got) + i] = Content(c)[at + i]
  BY ChunkIs
<1>2. /\ UNCHANGED <<compressed, exists, data, allocated, sizes, loaded, crashed>>
      /\ reading.len > 0
      /\ \/ n = reading.len /\ pc' = "header" /\ file'.chapter = c
         \/ n # reading.len /\ pc' = "headerNext" /\ file'.chapter = c
  BY DEF ReadChunk, writerVars, history, At, SafeInv, TypeOK
<1>3. pc \in Loading /\ c \in exists
  BY DEF Behind, Loading, Header
<1>4. reading.len = 1 /\ Len(reading.got) = 0 /\ at \in Nat
  BY <1>2, ReaderIs DEF SafeInv, InCache, Header
<1>5. (Good /\ Comes(<<Nth, 0>>)) \/ OnlyZeros
  BY <1>4 DEF Behind, Loading, Header
<1>6. /\ c \in Chapters /\ Len(data[c]) \in Nat /\ Len(Content(c)) \in Nat
      /\ Len(data[c]) <= Len(Content(c))
      /\ \A i \in 1..Len(data[c]) : Content(c)[i] = data[c][i]
  BY <1>3, ChapterIs
<1>7. Nth' = Nth /\ (Good => Good')
  BY <1>2, GoodStays DEF Nth
<1>8. OnlyZeros => OnlyZeros'
  BY <1>1, <1>2, <1>4, OnlyZerosStay
<1> HIDE DEF n
<1>9. CASE n = 0
  <2>1. pc' = "headerNext" /\ reading'.at = at /\ reading'.len = 1 /\ file'.chapter = c
    BY <1>1, <1>2, <1>4, <1>9
  <2>2. Comes(<<Nth, 0>>) => Comes(<<Nth, 0>>)'
    BY <1>2, <1>7, <2>1 DEF Comes
  <2> QED  BY <1>2, <1>3, <1>5, <1>7, <1>8, <2>1, <2>2 DEF Behind, Header, Frame
<1>10. CASE n # 0
  <2>1. /\ n = 1 /\ pc' = "header" /\ reading'.at = at + 1 /\ reading'.len = 0 /\ file'.chapter = c
        /\ at + 1 \in 1..Len(Content(c)) /\ reading'.got[1] = Content(c)[at + 1]
    <3>1. n = 1
      BY <1>1, <1>4, <1>10
    <3>2. 1 \in 1..n /\ Len(reading.got) + 1 = 1
      BY <1>4, <3>1
    <3> QED  BY <1>1, <1>2, <1>4, <1>6, <3>1, <3>2
  <2>2. CASE Content(c)[at + 1] = Zero
    <3>1. ~crashed => Len(loaded) = Len(sizes)
      <4> SUFFICES ASSUME ~crashed
                   PROVE  Len(loaded) = Len(sizes)
        OBVIOUS
      <4>1. c + 1 \notin exists /\ ~(at + 1 <= Len(data[c]))
        BY <1>3, <2>1, <2>2, ZerosAhead
      <4>2. Comes(<<Nth, 0>>)
        BY <1>5 DEF OnlyZeros
      <4>3. at = Len(data[c])
        BY <1>4, <1>6, <4>1, <4>2 DEF Comes
      <4>4. <<Nth, 0>> = <<Len(sizes) + 1, 0>>
        <5>1. PICK k : k = Nth
          OBVIOUS
        <5>2. <<k, 0>> = <<Len(sizes) + 1, 0>>
          BY <1>3, <4>1, <4>2, <4>3, <5>1, NoneIsLeft
        <5> QED  BY <5>1, <5>2
      <4>5. Len(loaded) \in Nat /\ Len(sizes) \in Nat
        BY SizesAre, LenProperties DEF SafeInv, TypeOK
      <4> QED  BY <4>4, <4>5 DEF Nth
    <3> QED  BY <1>2, <1>3, <2>1, <2>2, <3>1 DEF Behind, Header, Frame
  <2>3. CASE Content(c)[at + 1] # Zero
    <3>1. Good /\ Comes(<<Nth, 0>>)
      BY <1>4, <1>5, <2>1, <2>3 DEF OnlyZeros
    <3>2. at < Len(data[c]) /\ data[c][at + 1] # Zero
      BY <1>3, <1>4, <1>6, <2>1, <2>3, ChapterIs
    <3> DEFINE b == data[c][at + 1]
    <3>3. b = <<Nth, 0>> /\ Nth \in DOMAIN sizes
      <4>1. PICK k : k = Nth
        OBVIOUS
      <4>2. b = <<k, 0>> /\ <<k, 0>>[1] \in DOMAIN sizes
        BY <1>3, <3>1, <3>2, <4>1, NextByte
      <4> QED  BY <4>1, <4>2
    <3>4. reading'.got[1] = <<Nth, 0>>
      BY <1>4, <1>6, <2>1, <3>2, <3>3
    <3>5. Before(sizes, data, c, at + 1, <<Nth, 1>>) /\ at + 1 <= Len(data[c])
      <4>1. 0 < sizes[Nth]
        BY <3>3, SizesAre DEF SafeInv
      <4>2. Follow(sizes, b) = <<Nth, 1>>
        BY <3>3, <4>1 DEF Follow
      <4>3. at + 1 > 0 /\ at + 1 <= Len(data[c])
        BY <1>4, <1>6, <3>2
      <4> QED  BY <3>2, <4>2, <4>3 DEF Before
    <3>6. Comes(<<Nth, 1>>)'
      BY <1>2, <1>7, <2>1, <3>5 DEF Comes
    <3> QED  BY <1>2, <1>3, <1>7, <2>1, <3>1, <3>3, <3>4, <3>6 DEF Behind, Header, Frame
  <2> QED  BY <2>2, <2>3
<1> QED  BY <1>9, <1>10
-----------------------------------------------------------------------------
(* The bytes of a frame's body, as far as they are there.                  *)
LEMMA BodyBytes ==
    ASSUME SafeInv, Written, pc \in Loading, file.chapter \in exists,
           NEW p, NEW g \in Nat, Comes(<<p, g + 1>>),
           NEW k \in Nat, k >= 1, g + k <= sizes[p],
           reading.at + k <= Len(data[file.chapter]), data[file.chapter][reading.at + k] # Zero
    PROVE  data[file.chapter][reading.at + k] = <<p, g + k>> /\ p \in DOMAIN sizes
<1> DEFINE c == file.chapter
           i == reading.at + 1
           j == reading.at + k
           b == <<p, g + 1>>
<1>1. c \in Chapters /\ reading.at \in Nat /\ Len(data[c]) \in Nat
  BY ChapterIs
<1>2. i \in 1..Len(data[c]) /\ j \in 1..Len(data[c]) /\ reading.at < Len(data[c])
  BY <1>1
<1>3. i = j \/ (i < j /\ data[c][i] # Zero /\ data[c][j] \in Ahead(sizes, data[c][i], j - i))
  <2>1. i = j \/ i < j
    BY <1>1
  <2> QED  BY <1>1, <1>2, <2>1 DEF Written, Runs
<1>4. data[c][i] = b /\ b[1] \in DOMAIN sizes
  <2>1. data[c][i] # Zero
    BY <1>3
  <2> QED  BY <1>2, <2>1, NextByte
<1>5. sizes[p] \in Nat
  BY <1>4, SizesAre DEF SafeInv
<1>6. CASE i = j
  <2>1. k = 1
    BY <1>1, <1>6
  <2> QED  BY <1>4, <1>6, <2>1
<1>7. CASE data[c][j] \in Ahead(sizes, b, j - i)
  <2>1. j - i = k - 1
    BY <1>1
  <2>2. b[1] = p /\ b[2] = g + 1
    OBVIOUS
  <2>3. b[2] + (k - 1) <= sizes[b[1]] /\ b[2] + (k - 1) = g + k
    BY <1>5, <2>2
  <2>4. Ahead(sizes, b, k - 1) = {<<p, g + k>>}
    BY <2>2, <2>3 DEF Ahead
  <2> QED  BY <1>4, <1>7, <2>1, <2>4
<1> QED  BY <1>3, <1>4, <1>6, <1>7

(* A zero among the bytes of a body is what a crash has left.              *)
LEMMA ZeroInBody ==
    ASSUME SafeInv, Written, pc \in Loading, file.chapter \in exists,
           NEW p, NEW g \in Nat, Comes(<<p, g + 1>>),
           NEW k \in Nat, k >= 1, g + k <= sizes[p],
           reading.at + k <= Len(Content(file.chapter)), Content(file.chapter)[reading.at + k] = Zero
    PROVE  crashed
<1> DEFINE c == file.chapter
           at == reading.at
           l == Len(data[c])
<1> SUFFICES ASSUME ~crashed
             PROVE  FALSE
  OBVIOUS
<1>1. /\ c \in Chapters /\ at \in Nat /\ l \in Nat /\ Len(Content(c)) \in Nat /\ at <= l
      /\ c + 1 \notin exists => Before(sizes, data, c, l, <<Len(sizes) + 1, 0>>)
  BY ChapterIs DEF Comes
<1>2. at + k \in 1..Len(Content(c))
  BY <1>1
<1>3. c + 1 \notin exists /\ ~(at + k <= l)
  BY <1>2, ZerosAhead
<1>4. CASE at = l
  <2>1. <<p, g + 1>> = <<Len(sizes) + 1, 0>>
    BY <1>3, <1>4, NoneIsLeft
  <2>2. g + 1 = 0
    BY <2>1
  <2> QED  BY <2>2
<1>5. CASE at # l
  <2> DEFINE j == l - at
  <2>1. j \in Nat /\ j >= 1 /\ j < k /\ at + j = l
    <3>1. at \in Nat /\ l \in Nat /\ at <= l /\ at # l /\ ~(at + k <= l)
      BY <1>1, <1>3, <1>5
    <3> HIDE DEF at, l
    <3> QED  BY <3>1
  <2>2. data[c][l] # Zero /\ l > 0
    <3>1. l \in 1..l
      BY <1>1, <1>5
    <3> QED  BY <1>1, <3>1, NonZero
  <2>3. g + j <= sizes[p] /\ g + j < sizes[p] /\ sizes[p] \in Nat
    <3>1. p \in DOMAIN sizes
      <4>1. at < l /\ data[c][at + 1] # Zero
        <5>1. at + 1 \in 1..l /\ at < l
          <6>1. at \in Nat /\ l \in Nat /\ at <= l /\ at # l
            BY <1>1, <1>5
          <6> HIDE DEF at, l
          <6> QED  BY <6>1
        <5> QED  BY <1>1, <5>1, NonZero
      <4>2. <<p, g + 1>>[1] \in DOMAIN sizes
        BY <4>1, NextByte
      <4> QED  BY <4>2
    <3>2. sizes[p] \in Nat
      BY <3>1, SizesAre DEF SafeInv
    <3> HIDE DEF j
    <3> QED  BY <2>1, <3>2
  <2>4. data[c][l] = <<p, g + j>>
    <3> HIDE DEF j
    <3>1. at + j <= l /\ data[c][at + j] # Zero
      BY <1>1, <2>1, <2>2
    <3>2. data[c][at + j] = <<p, g + j>>
      BY <2>1, <2>3, <3>1, BodyBytes
    <3> QED  BY <2>1, <3>2
  <2> HIDE DEF j
  <2>5. Follow(sizes, data[c][l]) = <<p, g + j + 1>>
    BY <2>3, <2>4 DEF Follow
  <2>6. Follow(sizes, data[c][l]) = <<Len(sizes) + 1, 0>>
    BY <1>1, <1>3, <2>2 DEF Before
  <2>7. g + j + 1 = 0
    BY <2>5, <2>6
  <2> QED  BY <2>1, <2>7
<1> QED  BY <1>4, <1>5

(* The bytes of a body are those of its frame, or torn.                    *)
LEMMA BodyChunk ==
    ASSUME SafeInv, Written, Behind, ReadChunk, pc = "body"
    PROVE  Behind'
<1> DEFINE c == file.chapter
           at == reading.at
           g == Len(reading.got)
           p == Nth
           n == IF Available < reading.len THEN Available ELSE reading.len
<1>1. /\ n \in Nat /\ n <= reading.len /\ at + n <= Len(Content(c))
      /\ reading'.frame = reading.frame
      /\ reading'.at = at + n /\ reading'.len = reading.len - n
      /\ Len(reading'.got) = g + n
      /\ \A i \in 1..g : reading'.got[i] = reading.got[i]
      /\ \A i \in 1..n : reading'.got[g + i] = Content(c)[at + i]
  BY ChunkIs
<1>2. /\ UNCHANGED <<compressed, exists, data, allocated, sizes, loaded, crashed>>
      /\ reading.len > 0 /\ file'.chapter = c /\ pc' \in Frame
  BY DEF ReadChunk, writerVars, history, At, SafeInv, TypeOK, Frame
<1>3. pc \in Loading /\ c \in exists /\ reading.frame = p /\ Good
  BY DEF Behind, Loading, Frame
<1>4. \/ (\A i \in 1..g : reading.got[i] = <<p, i>>) /\ Comes(<<p, g + 1>>)
      \/ OnlyZeros /\ \E i \in 1..g : reading.got[i] = Zero
  BY <1>2 DEF Behind, Loading, Frame
<1>5. /\ g \in Nat /\ at \in Nat /\ reading.len \in Nat /\ sizes[p] \in Nat
      /\ g + reading.len = sizes[p]
  BY <1>3, ReaderIs, SizesAre DEF SafeInv, InCache, Frame
<1>6. /\ c \in Chapters /\ Len(data[c]) \in Nat /\ Len(Content(c)) \in Nat
      /\ Len(data[c]) <= Len(Content(c))
      /\ \A i \in 1..Len(data[c]) : Content(c)[i] = data[c][i]
      /\ \A i \in Len(data[c]) + 1..Len(Content(c)) : Content(c)[i] = Zero
  BY <1>3, ChapterIs
<1>7. p = Nth' /\ Good'
  BY <1>2, <1>3, GoodStays DEF Nth
<1>8. OnlyZeros => OnlyZeros'
  BY <1>1, <1>2, <1>5, OnlyZerosStay
<1>9. pc' \in Loading /\ pc' \notin Header
  BY <1>2 DEF Loading, Header, Frame
<1> HIDE DEF n, p, g
<1>10. CASE OnlyZeros /\ \E i \in 1..g : reading.got[i] = Zero
  <2>1. PICK i \in 1..g : reading.got[i] = Zero
    BY <1>10
  <2>2. i \in 1..g + n /\ reading'.got[i] = Zero
    BY <1>1, <1>5, <2>1
  <2> QED  BY <1>1, <1>2, <1>3, <1>7, <1>8, <1>9, <1>10, <2>2 DEF Behind
<1>11. CASE /\ \A i \in 1..g : reading.got[i] = <<p, i>>
            /\ Comes(<<p, g + 1>>)
            /\ \E k \in 1..n : Content(c)[at + k] = Zero
  <2>1. PICK k \in 1..n : Content(c)[at + k] = Zero
    BY <1>11
  <2>2. k \in Nat /\ k >= 1 /\ g + k <= sizes[p] /\ at + k <= Len(Content(c)) /\ k <= n
        /\ at + k \in 1..Len(Content(c))
    <3> DEFINE size == sizes[p]
               len == reading.len
               end == Len(Content(c))
    <3>1. /\ k \in 1..n /\ n \in Nat /\ n <= len /\ at + n <= end
          /\ g \in Nat /\ at \in Nat /\ len \in Nat /\ size \in Nat /\ g + len = size /\ end \in Nat
      BY <1>1, <1>5, <1>6
    <3> HIDE DEF size, len, end, at
    <3>2. k \in Nat /\ k >= 1 /\ g + k <= size /\ at + k <= end /\ k <= n /\ at + k \in 1..end
      BY <3>1
    <3> QED  BY <3>2 DEF size, end
  <2>3. crashed
    BY <1>3, <1>5, <1>11, <2>1, <2>2, ZeroInBody
  <2>4. /\ c + 1 \notin exists
        /\ \A j \in 1..Len(Content(c)) : j > at + k => Content(c)[j] = Zero
    BY <1>3, <2>1, <2>2, ZerosAhead
  <2>5. OnlyZeros'
    <3>1. Content(file.chapter)' = Content(c)
      BY <1>2, ContentStays
    <3>2. \A j \in 1..Len(Content(c)) : j > at + n => Content(c)[j] = Zero
      BY <1>1, <1>5, <1>6, <2>2, <2>4
    <3> HIDE DEF c
    <3> QED  BY <1>1, <1>2, <2>3, <2>4, <3>1, <3>2 DEF OnlyZeros
  <2>6. g + k \in 1..g + n /\ reading'.got[g + k] = Zero
    <3>1. g + k \in 1..g + n
      <4>1. g \in Nat /\ n \in Nat
        BY <1>1, <1>5
      <4> QED  BY <4>1
    <3> QED  BY <1>1, <2>1, <3>1
  <2> QED  BY <1>1, <1>2, <1>3, <1>7, <1>9, <2>5, <2>6 DEF Behind
<1>12. CASE /\ \A i \in 1..g : reading.got[i] = <<p, i>>
            /\ Comes(<<p, g + 1>>)
            /\ \A k \in 1..n : Content(c)[at + k] # Zero
  <2>1. at <= Len(data[c])
    BY <1>12 DEF Comes
  <2>2. at + n <= Len(data[c])
    <3> SUFFICES ASSUME ~(at + n <= Len(data[c]))
                 PROVE  FALSE
      OBVIOUS
    <3>1. n \in 1..n /\ at + n \in Len(data[c]) + 1..Len(Content(c))
      <4> DEFINE l == Len(data[c])
                 m == Len(Content(c))
      <4>1. /\ n \in Nat /\ at \in Nat /\ l \in Nat /\ m \in Nat
            /\ at <= l /\ at + n <= m /\ ~(at + n <= l)
        BY <1>1, <1>5, <1>6, <2>1
      <4> HIDE DEF l, m, at
      <4>2. n \in 1..n /\ at + n \in l + 1..m
        BY <4>1
      <4> QED  BY <4>2 DEF l, m
    <3> QED  BY <1>6, <1>12, <3>1
  <2>3. ASSUME NEW k \in 1..n
        PROVE  data[c][at + k] = <<p, g + k>> /\ Content(c)[at + k] = <<p, g + k>> /\ <<p, g + k>> # Zero
    <3>1. k \in Nat /\ k >= 1 /\ g + k <= sizes[p] /\ at + k \in 1..Len(data[c]) /\ at + k <= Len(data[c])
      <4> DEFINE size == sizes[p]
                 len == reading.len
                 end == Len(data[c])
      <4>1. /\ n \in Nat /\ n <= len /\ at + n <= end
            /\ g \in Nat /\ at \in Nat /\ len \in Nat /\ size \in Nat /\ g + len = size /\ end \in Nat
        BY <1>1, <1>5, <1>6, <2>2
      <4> HIDE DEF size, len, end, at
      <4>2. k \in Nat /\ k >= 1 /\ g + k <= size /\ at + k \in 1..end /\ at + k <= end
        BY <4>1
      <4> QED  BY <4>2 DEF size, end
    <3>2. Content(c)[at + k] = data[c][at + k] /\ data[c][at + k] # Zero
      BY <1>6, <1>12, <3>1
    <3>3. data[c][at + k] = <<p, g + k>>
      BY <1>3, <1>5, <1>12, <3>1, <3>2, BodyBytes
    <3> QED  BY <3>2, <3>3
  <2>4. \A i \in 1..g + n : reading'.got[i] = <<p, i>>
    <3> SUFFICES ASSUME NEW i \in 1..g + n
                 PROVE  reading'.got[i] = <<p, i>>
      OBVIOUS
    <3>1. CASE i \in 1..g
      BY <1>1, <1>12, <3>1
    <3>2. CASE i \notin 1..g
      <4>1. i - g \in 1..n /\ g + (i - g) = i
        BY <1>1, <1>5, <3>2
      <4> QED  BY <1>1, <2>3, <4>1
    <3> QED  BY <3>1, <3>2
  <2> DEFINE e == IF reading.len - n > 0 THEN <<p, g + n + 1>> ELSE <<p + 1, 0>>
  <2>5. Before(sizes, data, c, at + n, e)
    <3>1. CASE n = 0
      <4>1. e = <<p, g + 1>> /\ at + n = at
        BY <1>2, <1>5, <3>1
      <4> QED  BY <1>12, <4>1 DEF Comes
    <3>2. CASE n # 0
      <4>1. n \in 1..n /\ at + n > 0
        BY <1>1, <1>5, <3>2
      <4>2. data[c][at + n] = <<p, g + n>> /\ data[c][at + n] # Zero
        BY <2>3, <4>1
      <4>3. reading.len - n > 0 <=> g + n < sizes[p]
        BY <1>1, <1>5
      <4>4. Follow(sizes, <<p, g + n>>) = e
        BY <4>3 DEF Follow
      <4> HIDE DEF e
      <4> QED  BY <4>1, <4>2, <4>4 DEF Before
    <3> QED  BY <3>1, <3>2
  <2>6. Comes(IF reading.len > 0 THEN <<Nth, Len(reading.got) + 1>> ELSE <<Nth + 1, 0>>)'
    <3>1. e = IF reading'.len > 0 THEN <<Nth', Len(reading'.got) + 1>> ELSE <<Nth' + 1, 0>>
      BY <1>1, <1>7
    <3> HIDE DEF e
    <3> QED  BY <1>1, <1>2, <2>2, <2>5, <3>1 DEF Comes
  <2>7. \A i \in 1..Len(reading'.got) : reading'.got[i] = <<Nth', i>>
    BY <1>1, <1>7, <2>4
  <2>8. reading'.frame = Nth' /\ file'.chapter \in exists'
    BY <1>1, <1>2, <1>3, <1>7
  <2> QED  BY <1>7, <1>9, <2>6, <2>7, <2>8 DEF Behind
<1> QED  BY <1>4, <1>10, <1>11, <1>12
-----------------------------------------------------------------------------
(* The loader begins with the first frame in the first chapter.            *)
LEMMA LoadCacheBehind ==
    ASSUME SafeInv, Written, LoadCache
    PROVE  Behind'
<1>1. /\ pc = "load" /\ pc' = "header" /\ file'.chapter = 0 /\ reading'.at = reading.at /\ reading'.len = 1
      /\ UNCHANGED <<exists, data, sizes, loaded>>
  BY ReadAsks DEF SafeInv, LoadCache, Go, Opened, writerVars
<1>2. reading.at = 0 /\ loaded = <<>> /\ Len(loaded) = 0 /\ 0 \in exists
  BY <1>1 DEF SafeInv, InCache, Written, Filled
<1>3. Good'
  BY <1>1, <1>2 DEF Good
<1>4. Comes(<<Nth, 0>>)'
  <2>1. Before(sizes, data, 0, 0, <<1, 0>>)
    BY DEF Before
  <2>2. 0 \in Chapters /\ 0 <= Len(data[0])
    <3>1. 0 \in Chapters
      BY <1>2 DEF SafeInv, TypeOK
    <3> QED  BY <3>1, NonZero, ChunksAre
  <2>3. Len(loaded') + 1 = 1
    BY <1>1, <1>2
  <2> QED  BY <1>1, <1>2, <2>1, <2>2, <2>3 DEF Comes, Nth
<1> QED  BY <1>1, <1>2, <1>3, <1>4 DEF Behind, Header, Frame

(* In the chapter that follows a full one it comes to the same byte.       *)
LEMMA NextChapterBehind ==
    ASSUME SafeInv, Written, Behind, NextChapter
    PROVE  Behind'
<1> DEFINE c == file.chapter
<1>1. /\ pc \in {"headerNext", "bodyNext"} /\ c + 1 \in exists
      /\ pc' = IF pc = "headerNext" THEN "header" ELSE "body"
      /\ file'.chapter = c + 1 /\ reading'.at = 0
      /\ reading'.frame = reading.frame /\ reading'.len = reading.len /\ reading'.got = reading.got
      /\ UNCHANGED <<exists, data, sizes, loaded>>
  BY ReaderIs DEF SafeInv, ReaderType, NextChapter, Opened, At, writerVars
<1>2. pc \in Loading /\ c \in exists
  BY <1>1 DEF Behind, Loading, Header, Frame
<1>3. /\ c \in Chapters /\ c \in Nat /\ Len(data[c]) \in Nat /\ Len(data[c]) > 0
      /\ Len(Content(c)) = Len(data[c])
  BY <1>1, <1>2, ChapterIs, ChaptersAre
<1>4. reading.at = Len(data[c]) /\ reading.len > 0
  BY <1>1, <1>3 DEF SafeInv, InCache
<1>5. ~OnlyZeros
  BY <1>1 DEF OnlyZeros
<1>6. 0 <= Len(data[c + 1])
  BY <1>1, NonZero, ChunksAre DEF SafeInv, TypeOK
<1>7. ASSUME NEW e, Comes(e)
      PROVE  Before(sizes, data, c + 1, 0, e)
  <2>1. Before(sizes, data, c, Len(data[c]), e)
    BY <1>4, <1>7 DEF Comes
  <2>2. c + 1 > 0 /\ c + 1 - 1 = c /\ data[c] # <<>>
    BY <1>3
  <2> HIDE DEF c
  <2> QED  BY <1>3, <2>1, <2>2 DEF Before
<1>8. Nth' = Nth /\ (Good => Good')
  BY <1>1, GoodStays DEF Nth
<1> HIDE DEF c
<1>9. CASE pc = "headerNext"
  <2>1. reading.len = 1
    BY <1>4, <1>9, ReaderIs DEF SafeInv, InCache, Header
  <2>2. Good /\ Comes(<<Nth, 0>>)
    BY <1>5, <1>9, <2>1 DEF Behind, Loading, Header
  <2>3. Before(sizes, data, c + 1, 0, <<Nth, 0>>)
    <3>1. PICK k : k = Nth
      OBVIOUS
    <3> QED  BY <1>7, <2>2, <3>1
  <2>4. Comes(<<Nth, 0>>)'
    BY <1>1, <1>6, <1>8, <2>3 DEF Comes
  <2> QED  BY <1>1, <1>8, <1>9, <2>1, <2>2, <2>4 DEF Behind, Header, Frame
<1>10. CASE pc = "bodyNext"
  <2>1. /\ reading.frame = Nth /\ Good
        /\ \A i \in 1..Len(reading.got) : reading.got[i] = <<Nth, i>>
        /\ Comes(<<Nth, Len(reading.got) + 1>>)
    BY <1>4, <1>5, <1>10 DEF Behind, Loading, Frame
  <2>2. Before(sizes, data, c + 1, 0, <<Nth, Len(reading.got) + 1>>)
    <3>1. PICK e : e = <<Nth, Len(reading.got) + 1>>
      OBVIOUS
    <3> QED  BY <1>7, <2>1, <3>1
  <2>3. Comes(IF reading.len > 0 THEN <<Nth, Len(reading.got) + 1>> ELSE <<Nth + 1, 0>>)'
    BY <1>1, <1>4, <1>6, <1>8, <2>2 DEF Comes
  <2> QED  BY <1>1, <1>8, <1>10, <2>1, <2>3 DEF Behind, Header, Frame
<1> QED  BY <1>1, <1>9, <1>10

(* After the header of a frame its body is read.                           *)
LEMMA HeaderReadBehind ==
    ASSUME SafeInv, Behind, HeaderRead
    PROVE  Behind'
<1> DEFINE b == reading.got[1]
<1>1. /\ pc = "header" /\ reading.len = 0
      /\ UNCHANGED <<file, exists, data, sizes, loaded, crashed>>
  BY DEF HeaderRead, At, fileVars, writerVars, history
<1>2. CASE ~IsHeader(b)
  <2>1. pc' \in {"done", "purge"}
    BY <1>2 DEF HeaderRead, AfterCache
  <2> QED  BY <2>1 DEF Behind, Loading, Header, Frame
<1>3. CASE IsHeader(b)
  <2>1. /\ pc' = "body"
        /\ reading'.frame = b[1] /\ reading'.len = sizes[b[1]] /\ reading'.got = <<>>
        /\ reading'.at = reading.at
    BY <1>3, ReaderIs DEF SafeInv, HeaderRead, ReaderType
  <2>2. /\ file.chapter \in exists /\ Good /\ b = <<Nth, 0>> /\ Nth \in DOMAIN sizes /\ Comes(<<Nth, 1>>)
    BY <1>1, <1>3 DEF Behind, Loading, Header, IsHeader
  <2>3. reading'.frame = Nth /\ reading'.len > 0
    BY <2>1, <2>2, SizesAre DEF SafeInv
  <2>4. Nth' = Nth /\ Good'
    BY <1>1, <2>2, GoodStays DEF Nth
  <2>5. Len(reading'.got) = 0 /\ 0 + 1 = 1
    BY <2>1
  <2>6. Comes(IF reading.len > 0 THEN <<Nth, Len(reading.got) + 1>> ELSE <<Nth + 1, 0>>)'
    BY <1>1, <2>1, <2>2, <2>3, <2>4, <2>5 DEF Comes
  <2> QED  BY <1>1, <2>1, <2>2, <2>3, <2>4, <2>5, <2>6 DEF Behind, Header, Frame
<1> QED  BY <1>2, <1>3

(* The frame that is complete is the next, or is torn and the last.        *)
LEMMA BodyReadBehind ==
    ASSUME SafeInv, Written, Behind, FramesLoaded, failures = 0, BodyRead
    PROVE  Behind' /\ FramesLoaded'
<1> DEFINE new == [frame |-> reading.frame, body |-> reading.got]
           m == Len(loaded)
<1>0. PICK p : p = Nth
  OBVIOUS
<1>1. /\ pc = "body" /\ pc' = "header" /\ reading.len = 0
      /\ loaded' = Append(loaded, new)
      /\ UNCHANGED <<compressed, file, exists, data, allocated, sizes, crashed>>
  BY DEF BodyRead, At, fileVars, writerVars, history
<1>2. reading'.at = reading.at /\ reading'.len = 1 /\ reading.at \in Nat
  BY ReadAsks, ReaderIs DEF SafeInv, BodyRead
<1>3. m \in Nat /\ p = m + 1 /\ Len(loaded') = p /\ loaded'[p] = new /\ \A i \in 1..m : loaded'[i] = loaded[i]
  <2>1. loaded \in Seq([frame : 1..MaxFrames, body : Seq(Byte)])
    BY DEF SafeInv, TypeOK
  <2> HIDE DEF new
  <2>2. m \in Nat /\ Len(Append(loaded, new)) = m + 1 /\ Append(loaded, new)[m + 1] = new
        /\ \A i \in 1..m : Append(loaded, new)[i] = loaded[i]
    BY <2>1, AppendProperties, LenProperties
  <2> QED  BY <1>0, <1>1, <2>2 DEF Nth
<1>4. /\ file.chapter \in exists /\ reading.frame = p /\ Good
      /\ \/ (\A i \in 1..Len(reading.got) : reading.got[i] = <<p, i>>) /\ Comes(<<p + 1, 0>>)
         \/ OnlyZeros /\ \E i \in 1..Len(reading.got) : reading.got[i] = Zero
  BY <1>0, <1>1 DEF Behind, Loading, Frame
<1>5. /\ reading.got \in Seq(Byte) /\ DOMAIN reading.got = 1..Len(reading.got)
      /\ Len(reading.got) = sizes[p]
  BY <1>1, <1>4, ReaderIs DEF SafeInv, InCache, Frame
<1>6. new.frame = p /\ new.body = reading.got
  BY <1>4
<1> HIDE DEF new, m
<1>7. \A i \in 1..m : loaded'[i].frame = i /\ loaded'[i].body = Body(i)'
  BY <1>1, <1>3, <1>4 DEF Good, Body, m
<1>8. \A i \in 1..p : i \in 1..m \/ i = p
  BY <1>3
<1>9. DOMAIN loaded' = 1..p
  <2>1. loaded' \in Seq([frame : 1..MaxFrames, body : Seq(Byte)])
    BY BodyReadSafe DEF SafeInv, TypeOK
  <2> QED  BY <1>3, <2>1, LenProperties
<1>10. CASE (\A i \in 1..Len(reading.got) : reading.got[i] = <<p, i>>) /\ Comes(<<p + 1, 0>>)
  <2>1. reading.got = [i \in 1..sizes[p] |-> <<p, i>>]
    <3>1. reading.got \in [1..sizes[p] -> Byte]
      BY <1>5, SeqDef
    <3>2. \A i \in 1..sizes[p] : reading.got[i] = <<p, i>>
      BY <1>5, <1>10
    <3> QED  BY <3>1, <3>2
  <2>2. loaded'[p].frame = p /\ loaded'[p].body = Body(p)'
    BY <1>1, <1>3, <1>6, <2>1 DEF Body
  <2>3. Good'
    BY <1>3, <1>7, <1>8, <2>2 DEF Good
  <2>4. Comes(<<Nth, 0>>)'
    <3>1. Len(loaded') + 1 = p + 1
      BY <1>3
    <3> QED  BY <1>1, <1>2, <1>10, <3>1 DEF Comes, Nth
  <2>5. Behind'
    BY <1>1, <1>2, <1>4, <2>3, <2>4 DEF Behind, Header, Frame
  <2>6. FramesLoaded'
    BY <1>7, <1>8, <1>9, <2>2 DEF FramesLoaded
  <2> QED  BY <2>5, <2>6
<1>11. CASE OnlyZeros /\ \E i \in 1..Len(reading.got) : reading.got[i] = Zero
  <2>1. OnlyZeros'
    BY <1>1, <1>2, <1>11, OnlyZerosStay
  <2>2. Behind'
    BY <1>1, <1>2, <1>4, <2>1 DEF Behind, Header, Frame
  <2>3. Zero \in ToSet(reading.got)
    BY <1>5, <1>11 DEF ToSet
  <2>4. loaded'[p].frame = p /\ Zero \in ToSet(loaded'[p].body) /\ p = Len(loaded') /\ crashed'
    BY <1>1, <1>3, <1>6, <1>11, <2>3 DEF OnlyZeros
  <2>5. FramesLoaded'
    BY <1>7, <1>8, <1>9, <2>4 DEF FramesLoaded
  <2> QED  BY <2>2, <2>5
<1> QED  BY <1>4, <1>10, <1>11

(* Whatever else is done, nothing is loaded and the loader does not move.  *)
LEMMA NextInOrder ==
    ASSUME SafeInv, Consecutive, Written, Behind, FramesLoaded, failures = 0, failures' = 0, Next
    PROVE  Written' /\ Behind' /\ FramesLoaded'
<1>1. Written'
  BY NextWritten
<1>2. CASE BodyRead
  BY <1>1, <1>2, BodyReadBehind
<1>3. CASE LoadCache \/ ReadChunk \/ NextChapter \/ EndOfCache \/ HeaderRead
  <2>1. UNCHANGED <<loaded, sizes, crashed>>
    BY <1>3 DEF LoadCache, ReadChunk, NextChapter, EndOfCache, HeaderRead, writerVars, readerVars, history
  <2>2. FramesLoaded'
    BY <2>1 DEF FramesLoaded, Body
  <2>3. CASE ReadChunk
    <3>1. pc \in {"header", "body"}
      BY <2>3 DEF ReadChunk
    <3> QED  BY <1>1, <2>2, <2>3, <3>1, HeaderChunk, BodyChunk
  <2>4. CASE EndOfCache
    <3>1. pc' \notin Loading
      BY <2>4 DEF EndOfCache, AfterCache, Loading, Header, Frame
    <3> QED  BY <1>1, <2>2, <3>1 DEF Behind
  <2> QED  BY <1>1, <1>3, <2>2, <2>3, <2>4, LoadCacheBehind, NextChapterBehind, HeaderReadBehind
<1>4. CASE Syncer \/ Write \/ EndRecording \/ Crash \/ \E n \in 1..MaxBody : StartFrame(n)
  <2>1. pc \in Writing /\ loaded' = loaded
    BY <1>4 DEF Syncer, SyncerAllocates, SyncerEnds, SafeInv, OneHandle, Write, CloseFull, CloseWorks,
       CloseFails, OpenNext, Put, CloseLast, EndRecording, Crash, StartFrame, NextWrite, Go, At,
       readerVars, Writing
  <2>2. pc' \notin Loading
    BY <1>4, <2>1 DEF Syncer, SyncerAllocates, SyncerEnds, Write, CloseFull, CloseWorks,
       CloseFails, OpenNext, Put, CloseLast, EndRecording, Crash, StartFrame, NextWrite, Go,
       Writing, Loading, Header, Frame
  <2>3. loaded' = <<>>
    BY <2>1 DEF SafeInv, InCache
  <2> QED  BY <1>1, <2>2, <2>3 DEF Behind, FramesLoaded
<1>5. CASE Purge
  <2>1. UNCHANGED <<loaded, sizes, crashed>> /\ pc' \in {"purge", "done"}
    BY <1>5 DEF Purge, PurgeChapter, PurgeEnds, At, writerVars, readerVars, history
  <2> QED  BY <1>1, <2>1 DEF Behind, FramesLoaded, Body, Loading, Header, Frame
<1>6. CASE Finished
  <2>1. UNCHANGED <<loaded, sizes, crashed>> /\ pc' = "done"
    BY <1>6 DEF Finished, At, vars, writerVars, readerVars, history
  <2> QED  BY <1>1, <2>1 DEF Behind, FramesLoaded, Body, Loading, Header, Frame
<1> QED  BY <1>2, <1>3, <1>4, <1>5, <1>6 DEF Next, Load
LEMMA InitInOrder ==
    ASSUME Init
    PROVE  InOrder
<1>1. /\ pc = "idle" /\ exists = {0} /\ sizes = <<>> /\ loaded = <<>>
      /\ data = [c \in Chapters |-> <<>>] /\ file.chapter = 0 /\ file.chapter_n_bytes = 0
  BY DEF Init, Opened
<1>2. 0 \in Chapters /\ data[0] = <<>> /\ \A c \in Chapters : Len(data[c]) = 0
  <2>1. 0 \in Chapters
    BY InitSafe, HandleIs, <1>1 DEF SafeInv
  <2> QED  BY <1>1, <2>1
<1>3. Chained(sizes, data) /\ Runs(sizes, data)
  BY <1>2 DEF Chained, Runs
<1>4. Filled
  <2>1. Upcoming = <<1, 0>>
    BY <1>1 DEF Upcoming, InHand
  <2>2. Before(sizes, data, 0, 0, <<1, 0>>)
    BY DEF Before
  <2>3. \A c \in exists : c = 0 /\ c + 1 \notin exists
    BY <1>1
  <2> QED  BY <1>1, <1>2, <2>1, <2>2, <2>3 DEF Filled
<1>5. Behind /\ FramesLoaded
  BY <1>1 DEF Behind, Loading, Header, Frame, FramesLoaded
<1> QED  BY <1>3, <1>4, <1>5 DEF InOrder, Written

LEMMA StepInOrder ==
    ASSUME SafeInv, Gapless, InOrder, [Next]_vars
    PROVE  InOrder'
<1> SUFFICES ASSUME failures' = 0
             PROVE  Written' /\ Behind' /\ FramesLoaded'
  BY DEF InOrder
<1>1. CASE Next
  <2>1. failures = 0 /\ Consecutive /\ Written /\ Behind /\ FramesLoaded
    BY <1>1, FailuresCount DEF Gapless, InOrder
  <2> QED  BY <1>1, <2>1, NextInOrder
<1>2. CASE UNCHANGED vars
  <2>1. UNCHANGED <<compressed, pc, file, exists, data, allocated, todo, sizes, reading, loaded, failures, crashed>>
    BY <1>2 DEF vars, fileVars, writerVars, readerVars, history
  <2>2. Written /\ Behind /\ FramesLoaded
    BY <2>1 DEF InOrder
  <2>3. Written'
    BY <2>1, <2>2, KeptWritten DEF Upcoming
  <2>4. Behind'
    <3>1. Content(file.chapter)' = Content(file.chapter)
      BY <2>1 DEF Content
    <3>2. Good' = Good
      BY <2>1 DEF Good, Body
    <3>3. OnlyZeros' = OnlyZeros
      BY <2>1, <3>1 DEF OnlyZeros
    <3>4. Nth' = Nth
      BY <2>1 DEF Nth
    <3>5. /\ Comes(<<Nth, 0>>)' = Comes(<<Nth, 0>>)
          /\ Comes(<<Nth, 1>>)' = Comes(<<Nth, 1>>)
          /\ Comes(IF reading.len > 0 THEN <<Nth, Len(reading.got) + 1>> ELSE <<Nth + 1, 0>>)' =
                 Comes(IF reading.len > 0 THEN <<Nth, Len(reading.got) + 1>> ELSE <<Nth + 1, 0>>)
      BY <2>1, <3>4 DEF Comes
    <3> QED  BY <2>1, <2>2, <3>2, <3>3, <3>4, <3>5 DEF Behind
  <2>5. FramesLoaded'
    BY <2>1, <2>2 DEF FramesLoaded, Body
  <2> QED  BY <2>3, <2>4, <2>5
<1> QED  BY <1>1, <1>2

(* The inductive invariant.                                                *)
LEMMA CacheInvariant == Spec => [](SafeInv /\ Gapless /\ InOrder)
<1>1. Init => SafeInv /\ Gapless /\ InOrder
  BY InitSafe, InitGapless, InitInOrder
<1>2. SafeInv /\ Gapless /\ InOrder /\ [Next]_vars => (SafeInv /\ Gapless /\ InOrder)'
  BY NextSafe, NextGapless, StepInOrder
<1> QED  BY <1>1, <1>2, PTL DEF Spec

(* THEOREM: while nothing fails, what is loaded are the frames cached, in  *)
(* their order and each with its own body; a crash can only tear the last. *)
THEOREM CacheComesBack == Spec => []FramesLoaded
<1>1. SafeInv /\ Gapless /\ InOrder => FramesLoaded
  BY DEF InOrder, FramesLoaded
<1> QED  BY <1>1, CacheInvariant, PTL

(* THEOREM: where the loader ends, without a crash or a failure, it has    *)
(* loaded every frame that was cached.                                     *)
THEOREM NoFrameIsMissing == Spec => AllLoaded
<1>1. ASSUME SafeInv, Gapless, InOrder, Next, failures = 0, pc' = "purge",
             pc \in {"header", "headerNext", "bodyNext"}
      PROVE  Len(loaded) = Len(sizes)
  <2>1. Written /\ Behind /\ pc \in Loading /\ file.chapter \in exists
    BY <1>1 DEF InOrder, Behind, Loading, Header, Frame
  <2>2. Len(loaded) \in Nat /\ Len(sizes) \in Nat
    BY <1>1, SizesAre, LenProperties DEF SafeInv, TypeOK
  <2>3. HeaderRead \/ EndOfCache
    BY <1>1 DEF Next, Syncer, SyncerAllocates, SyncerEnds, Write, CloseFull, CloseWorks, CloseFails,
       OpenNext, Put, NextWrite, CloseLast, Load, LoadCache, ReadChunk, NextChapter, BodyRead, Purge,
       PurgeChapter, PurgeEnds, EndRecording, Crash, StartFrame, Finished, At, Go
  <2>4. CASE HeaderRead
    <3>1. pc = "header" /\ reading.len = 0 /\ ~IsHeader(reading.got[1]) /\ ~crashed
      BY <1>1, <2>4 DEF HeaderRead, AfterCache, At
    <3>2. IsHeader(<<Nth, 0>>)
      BY <2>2 DEF IsHeader, Zero, Nth
    <3> QED  BY <2>1, <3>1, <3>2 DEF Behind, Header
  <2>5. CASE EndOfCache
    <3>1. pc \in {"headerNext", "bodyNext"} /\ file.chapter + 1 \notin exists /\ ~crashed
      BY <1>1, <2>5 DEF EndOfCache, AfterCache
    <3>2. reading.at = Len(Content(file.chapter)) /\ reading.len > 0
      BY <1>1, <3>1 DEF SafeInv, InCache
    <3>3. ASSUME NEW e, Comes(e)
          PROVE  e = <<Len(sizes) + 1, 0>>
      <4>1. reading.at = Len(data[file.chapter])
        BY <1>1, <2>1, <3>2, <3>3, ChapterIs DEF Comes
      <4> QED  BY <1>1, <2>1, <3>1, <3>3, <4>1, NoneIsLeft
    <3>4. CASE pc = "headerNext"
      <4>1. reading.len = 1
        BY <1>1, <3>2, <3>4, ReaderIs DEF SafeInv, InCache, Header
      <4>2. Comes(<<Nth, 0>>)
        BY <2>1, <3>1, <3>4, <4>1 DEF Behind, Header, OnlyZeros
      <4>3. Nth = Len(sizes) + 1
        <5>1. PICK e : e = <<Nth, 0>>
          OBVIOUS
        <5>2. <<Nth, 0>> = <<Len(sizes) + 1, 0>>
          BY <3>3, <4>2, <5>1
        <5> QED  BY <5>2
      <4> QED  BY <2>2, <4>3 DEF Nth
    <3>5. CASE pc = "bodyNext"
      <4>1. Comes(<<Nth, Len(reading.got) + 1>>)
        BY <2>1, <3>1, <3>2, <3>5 DEF Behind, Frame, OnlyZeros
      <4>2. Len(reading.got) + 1 = 0
        <5>1. PICK e : e = <<Nth, Len(reading.got) + 1>>
          OBVIOUS
        <5>2. <<Nth, Len(reading.got) + 1>> = <<Len(sizes) + 1, 0>>
          BY <3>3, <4>1, <5>1
        <5> QED  BY <5>2
      <4> QED  BY <1>1, <4>2, ReaderIs DEF SafeInv
    <3> QED  BY <3>1, <3>4, <3>5
  <2> QED  BY <2>3, <2>4, <2>5
<1>2. SafeInv /\ Gapless /\ InOrder /\ [Next]_vars =>
         [(At("header") \/ At("headerNext") \/ At("bodyNext")) /\ pc' = "purge" /\ failures = 0
              => Len(loaded) = Len(sizes)]_vars
  BY <1>1 DEF At
<1> QED  BY <1>2, CacheInvariant, PTL DEF Spec, AllLoaded
=============================================================================
