----------------------------- MODULE JackProofs -----------------------------
(***************************************************************************)
(* Sound from Jack, for any number of ports, periods of any length and a   *)
(* ring buffer of any size that holds one: what is heard is in order, and  *)
(* whole unless the ring buffer was full.                                  *)
(***************************************************************************)
EXTENDS Jack, SequenceTheorems, TLAPS

(* Who has the mutex, and where a period is written.                       *)
Guarded ==
    /\ callback = "ports" => holder = "callback"
    /\ callback # "ports" => port = 0
    /\ callback # "idle" => server = "up" /\ sent < MaxPeriods
    /\ consumer \in {"check", "space", "take", "read"} => holder = "consumer" \/ server = "down"

(* The callback records only once main lets it, and the reader reads; what *)
(* is recorded is over when the ring buffer is freed.                      *)
Started ==
    /\ callback # "idle" => capture_started
    /\ capture_started => Recording \/ Ended
    /\ main \in {"open", "ports", "threads"} => consumer = "new"
    /\ main = "free" \/ freed => ~running

(* The reader reads a period that is there.                                *)
PeriodThere ==
    consumer = "read" \/ (consumer = "take" /\ running) => Len(sound_buffer) >= PeriodSize

(* A period that was read is used while the recording goes on.             *)
InUse == consumer = "use" /\ running

(* What is heard comes before the period in use, that before what is in    *)
(* the ring buffer, and all before what is still to be written.            *)
Ascending(s) == \A i, j \in DOMAIN s : i < j => s[i] < s[j]
Before(s, t) == \A i \in DOMAIN s, j \in DOMAIN t : s[i] < t[j]
Below(s, n) == \A i \in DOMAIN s : s[i] < n
InOrder ==
    /\ Ascending(heard) /\ Ascending(sound_buffer) /\ Before(heard, sound_buffer)
    /\ Below(heard, NextByte) /\ Below(sound_buffer, NextByte)
    /\ InUse => /\ Ascending(buffer) /\ Below(buffer, NextByte)
                /\ Before(heard, buffer) /\ Before(buffer, sound_buffer)

(* Unless the ring buffer was full, none is missing between them, and they *)
(* are whole periods but for the ports already written of the next one.    *)
From(s, first) == \A i \in DOMAIN s : s[i] = first + i - 1
Multiple(n) == \E k \in Nat : n = k * PeriodSize
Position == Len(heard) + (IF InUse THEN PeriodSize ELSE 0)
Whole ==
    ~overrun =>
        /\ From(heard, 0) /\ Multiple(Len(heard))
        /\ Len(sound_buffer) >= port * nframes /\ Multiple(Len(sound_buffer) - port * nframes)
        /\ InUse => Len(buffer) = PeriodSize /\ From(buffer, Len(heard))
        /\ running => From(sound_buffer, Position) /\ Position + Len(sound_buffer) = NextByte

IInv == TypeOK /\ Guarded /\ Started /\ PeriodThere /\ InOrder /\ Whole
-----------------------------------------------------------------------------
(* The ports of a period, one after the other.                             *)
LEMMA Sizes ==
    /\ nports \in Nat /\ nports > 0 /\ nframes \in Nat /\ nframes > 0
    /\ PeriodSize \in Nat /\ PeriodSize > 0 /\ nports * nframes = PeriodSize
    /\ RingSize \in Nat /\ RingSize >= PeriodSize /\ MaxPeriods \in Nat /\ MaxPauses \in Nat
<1>1. nports \in Nat /\ nports > 0 /\ nframes \in Nat /\ nframes > 0
  BY JackAssumption
<1>2. nports * nframes \in Nat /\ nports * nframes > 0
  BY <1>1
<1> QED  BY <1>1, <1>2, JackAssumption DEF PeriodSize

(* A product grows with its factor.                                        *)
LEMMA Ordered ==
    ASSUME NEW a \in Nat, NEW b \in Nat, NEW c \in Nat, a <= b
    PROVE  a * c \in Nat /\ b * c \in Nat /\ a * c <= b * c
<1>1. PICK d \in Nat : b = a + d
  BY b - a \in Nat
<1>2. b * c = a * c + d * c
  BY <1>1
<1>3. a * c \in Nat /\ d * c \in Nat
  BY <1>1
<1> QED  BY <1>2, <1>3

(* One more of a factor.                                                   *)
LEMMA OneMore ==
    ASSUME NEW a \in Nat, NEW c \in Nat
    PROVE  a * c \in Nat /\ (a + 1) * c = a * c + c
OBVIOUS

(* A port's bytes are among those of its period, and a period's among      *)
(* those there are.                                                        *)
LEMMA PortOfPeriod ==
    ASSUME NEW p \in 0..nports
    PROVE  /\ p * nframes \in Nat
           /\ p < nports => p * nframes + nframes <= PeriodSize
<1>1. p \in Nat /\ nports \in Nat /\ nframes \in Nat
  BY Sizes
<1>2. p * nframes \in Nat /\ (p + 1) * nframes = p * nframes + nframes
  BY <1>1, OneMore
<1>3. p < nports => (p + 1) * nframes <= nports * nframes
  BY <1>1, Ordered
<1> QED  BY <1>2, <1>3, Sizes

LEMMA PeriodOfAll ==
    ASSUME NEW k \in 0..MaxPeriods
    PROVE  /\ k * PeriodSize \in Nat /\ MaxPeriods * PeriodSize \in Nat
           /\ (k + 1) * PeriodSize = k * PeriodSize + PeriodSize
           /\ k < MaxPeriods => k * PeriodSize + PeriodSize <= MaxPeriods * PeriodSize
<1>1. k \in Nat /\ MaxPeriods \in Nat /\ PeriodSize \in Nat
  BY Sizes
<1>2. k * PeriodSize \in Nat /\ (k + 1) * PeriodSize = k * PeriodSize + PeriodSize
  BY <1>1, OneMore
<1>3. MaxPeriods * PeriodSize \in Nat
  BY <1>1, OneMore
<1>4. k < MaxPeriods => (k + 1) * PeriodSize <= MaxPeriods * PeriodSize
  BY <1>1, Ordered
<1> QED  BY <1>2, <1>3, <1>4

(* A port's next bytes are among those there are.                          *)
LEMMA NextIs ==
    ASSUME sent \in 0..MaxPeriods, port \in 0..nports
    PROVE  /\ NextByte \in Nat
           /\ port < nports /\ sent < MaxPeriods => NextByte + nframes <= MaxPeriods * PeriodSize
<1>1. port * nframes \in Nat /\ (port < nports => port * nframes + nframes <= PeriodSize)
  BY PortOfPeriod
<1>2. /\ sent * PeriodSize \in Nat /\ MaxPeriods * PeriodSize \in Nat
      /\ sent < MaxPeriods => sent * PeriodSize + PeriodSize <= MaxPeriods * PeriodSize
  BY PeriodOfAll
<1>3. NextByte = sent * PeriodSize + port * nframes
  BY DEF NextByte
<1> QED  BY <1>1, <1>2, <1>3, Sizes

(* The remainder of a multiple.                                            *)
LEMMA MultipleIs ==
    ASSUME NEW n \in Nat, Multiple(n)
    PROVE  n % PeriodSize = 0
<1>1. PICK k \in Nat : n = k * PeriodSize
  BY DEF Multiple
<1>2. PeriodSize \in Nat /\ PeriodSize > 0
  BY Sizes
<1>3. DEFINE q == n \div PeriodSize
             r == n % PeriodSize
<1>4. q \in Nat /\ r \in Nat /\ r < PeriodSize /\ n = PeriodSize * q + r
  BY <1>2
<1> HIDE DEF q, r
<1>5. q * PeriodSize = PeriodSize * q
  BY <1>2, <1>4
<1>6. ~ q >= k + 1
  <2>1. ASSUME q >= k + 1
        PROVE  FALSE
    <3>1. (k + 1) * PeriodSize <= q * PeriodSize
      BY <1>1, <1>2, <1>4, <2>1, Ordered
    <3>2. (k + 1) * PeriodSize = k * PeriodSize + PeriodSize /\ k * PeriodSize \in Nat
      BY <1>1, <1>2, OneMore
    <3>3. q * PeriodSize \in Nat
      BY <1>2, <1>4, OneMore
    <3> QED  BY <1>1, <1>2, <1>4, <1>5, <3>1, <3>2, <3>3
  <2> QED  BY <2>1
<1>7. ~ k >= q + 1
  <2>1. ASSUME k >= q + 1
        PROVE  FALSE
    <3>1. (q + 1) * PeriodSize <= k * PeriodSize
      BY <1>1, <1>2, <1>4, <2>1, Ordered
    <3>2. (q + 1) * PeriodSize = q * PeriodSize + PeriodSize /\ q * PeriodSize \in Nat
      BY <1>2, <1>4, OneMore
    <3> QED  BY <1>1, <1>2, <1>4, <1>5, <3>1, <3>2
  <2> QED  BY <2>1
<1>8. k = q
  BY <1>1, <1>4, <1>6, <1>7
<1>9. r = 0
  <2>1. k * PeriodSize \in Nat
    BY <1>1, <1>2, OneMore
  <2> QED  BY <1>1, <1>4, <1>5, <1>8, <2>1
<1> QED  BY <1>9 DEF r
-----------------------------------------------------------------------------
(* The sequences of bytes, and their types.                                *)
Value == 0 .. MaxPeriods * PeriodSize - 1

(* The types of a sequence of bytes.                                       *)
LEMMA AnyBytes ==
    ASSUME NEW s \in Bytes
    PROVE  /\ s \in Seq(Value) /\ Len(s) \in Nat /\ DOMAIN s = 1..Len(s)
           /\ \A i \in DOMAIN s : s[i] \in Value /\ s[i] \in Nat
<1>1. s \in Seq(Value)
  BY DEF Bytes, Value
<1>2. Len(s) \in Nat /\ DOMAIN s = 1..Len(s) /\ s \in [1..Len(s) -> Value]
  BY <1>1, LenProperties
<1>3. Value \subseteq Nat
  BY DEF Value
<1> QED  BY <1>1, <1>2, <1>3

(* Those of the variables.                                                 *)
LEMMA BytesAre ==
    ASSUME TypeOK
    PROVE  /\ sound_buffer \in Bytes /\ buffer \in Bytes /\ heard \in Bytes
           /\ sent \in 0..MaxPeriods /\ port \in 0..nports /\ overrun \in BOOLEAN
           /\ Len(sound_buffer) <= RingSize /\ Len(buffer) <= PeriodSize
BY DEF TypeOK

(* A sequence that is one after another, and what of it holds for both.    *)
Joined(u, s, t) ==
    /\ Len(u) = Len(s) + Len(t)
    /\ \A i \in 1..Len(s) : u[i] = s[i]
    /\ \A i \in 1..Len(t) : u[Len(s) + i] = t[i]

(* A concatenation is one.                                                 *)
LEMMA ConcatJoins ==
    ASSUME NEW s \in Bytes, NEW t \in Bytes
    PROVE  s \o t \in Bytes /\ Joined(s \o t, s, t)
<1>1. s \in Seq(Value) /\ t \in Seq(Value) /\ Len(s) \in Nat /\ Len(t) \in Nat
  BY AnyBytes
<1>2. PICK u : u = s \o t
  OBVIOUS
<1>3. /\ u \in Seq(Value) /\ Len(u) = Len(s) + Len(t)
      /\ \A i \in 1 .. Len(s) + Len(t) : u[i] = IF i <= Len(s) THEN s[i] ELSE t[i - Len(s)]
  BY <1>1, <1>2, ConcatProperties
<1>4. \A i \in 1..Len(s) : u[i] = s[i]
  BY <1>1, <1>3
<1>5. ASSUME NEW i \in 1..Len(t)
      PROVE  u[Len(s) + i] = t[i]
  <2>1. PICK n \in Nat : n = Len(s) + i
    BY <1>1
  <2>2. n \in 1 .. Len(s) + Len(t) /\ ~ n <= Len(s) /\ n - Len(s) = i
    BY <1>1, <2>1
  <2>3. u[n] = t[n - Len(s)]
    BY <1>3, <2>2
  <2> QED  BY <2>1, <2>2, <2>3
<1> QED  BY <1>2, <1>3, <1>4, <1>5 DEF Joined, Bytes, Value

(* Order, bounds and numbers of the whole are those of the parts.          *)
LEMMA JoinedParts ==
    ASSUME NEW u \in Bytes, NEW s \in Bytes, NEW t \in Bytes, Joined(u, s, t)
    PROVE  /\ Ascending(u) <=> Ascending(s) /\ Ascending(t) /\ Before(s, t)
           /\ \A v \in Bytes : Before(v, u) <=> Before(v, s) /\ Before(v, t)
           /\ \A v \in Bytes : Before(u, v) <=> Before(s, v) /\ Before(t, v)
           /\ \A n : Below(u, n) <=> Below(s, n) /\ Below(t, n)
           /\ \A n \in Nat : From(u, n) <=> From(s, n) /\ From(t, n + Len(s))
<1>1. PICK a \in Nat, b \in Nat : a = Len(s) /\ b = Len(t)
  BY AnyBytes
<1>2. DOMAIN s = 1..a /\ DOMAIN t = 1..b /\ DOMAIN u = 1 .. a + b
  BY <1>1, AnyBytes DEF Joined
<1>3. /\ \A i \in 1..a : i \in 1 .. a + b /\ u[i] = s[i]
      /\ \A i \in 1..b : a + i \in 1 .. a + b /\ u[a + i] = t[i]
  BY <1>1 DEF Joined
<1>4. ASSUME NEW i \in 1 .. a + b
      PROVE  i \in 1..a \/ \E k \in 1..b : i = a + k
  <2>1. CASE i > a
    <3>1. i - a \in 1..b /\ i = a + (i - a)
      BY <2>1
    <3> QED  BY <3>1
  <2> QED  BY <2>1
<1>5. ASSUME NEW v \in Bytes
      PROVE  Before(v, u) <=> Before(v, s) /\ Before(v, t)
  <2>1. ASSUME Before(v, u)
        PROVE  Before(v, s) /\ Before(v, t)
    BY <1>2, <1>3, <2>1 DEF Before
  <2>2. ASSUME Before(v, s), Before(v, t), NEW i \in DOMAIN v, NEW j \in 1 .. a + b
        PROVE  v[i] < u[j]
    BY <1>2, <1>3, <1>4, <2>2 DEF Before
  <2> QED  BY <1>2, <2>1, <2>2 DEF Before
<1>6. ASSUME NEW v \in Bytes
      PROVE  Before(u, v) <=> Before(s, v) /\ Before(t, v)
  <2>1. ASSUME Before(u, v)
        PROVE  Before(s, v) /\ Before(t, v)
    <3>1. \A i \in 1 .. a + b : \A j \in DOMAIN v : u[i] < v[j]
      BY <1>2, <2>1 DEF Before
    <3>2. \A i \in 1..a : \A j \in DOMAIN v : s[i] < v[j]
      BY <1>3, <3>1
    <3>3. ASSUME NEW i \in 1..b, NEW j \in DOMAIN v
          PROVE  t[i] < v[j]
      BY <1>3, <3>1
    <3> QED  BY <1>2, <3>2, <3>3 DEF Before
  <2>2. ASSUME Before(s, v), Before(t, v), NEW i \in 1 .. a + b, NEW j \in DOMAIN v
        PROVE  u[i] < v[j]
    <3>1. CASE i \in 1..a
      BY <1>2, <1>3, <2>2, <3>1 DEF Before
    <3>2. ASSUME NEW k \in 1..b, i = a + k
          PROVE  u[i] < v[j]
      BY <1>2, <1>3, <2>2, <3>2 DEF Before
    <3> QED  BY <1>4, <3>1, <3>2
  <2> QED  BY <1>2, <2>1, <2>2 DEF Before
<1>7. ASSUME NEW n
      PROVE  Below(u, n) <=> Below(s, n) /\ Below(t, n)
  <2>1. ASSUME Below(u, n)
        PROVE  Below(s, n) /\ Below(t, n)
    BY <1>2, <1>3, <2>1 DEF Below
  <2>2. ASSUME Below(s, n), Below(t, n), NEW i \in 1 .. a + b
        PROVE  u[i] < n
    BY <1>2, <1>3, <1>4, <2>2 DEF Below
  <2> QED  BY <1>2, <2>1, <2>2 DEF Below
<1>8. ASSUME NEW n \in Nat
      PROVE  From(u, n) <=> From(s, n) /\ From(t, n + Len(s))
  <2>1. ASSUME From(u, n)
        PROVE  From(s, n) /\ From(t, n + Len(s))
    <3>1. \A i \in 1..a : s[i] = n + i - 1
      BY <1>2, <1>3, <2>1 DEF From
    <3>2. ASSUME NEW i \in 1..b
          PROVE  t[i] = (n + a) + i - 1
      <4>1. u[a + i] = n + (a + i) - 1 /\ u[a + i] = t[i]
        BY <1>2, <1>3, <2>1 DEF From
      <4> QED  BY <4>1
    <3> QED  BY <1>1, <1>2, <3>1, <3>2 DEF From
  <2>2. ASSUME From(s, n), From(t, n + Len(s))
        PROVE  From(u, n)
    <3>1. ASSUME NEW i \in 1 .. a + b
          PROVE  u[i] = n + i - 1
      <4>1. CASE i \in 1..a
        BY <1>2, <1>3, <2>2, <4>1 DEF From
      <4>2. ASSUME NEW k \in 1..b, i = a + k
            PROVE  u[i] = n + i - 1
        <5>1. t[k] = (n + a) + k - 1
          BY <1>1, <1>2, <2>2 DEF From
        <5>2. u[a + k] = t[k]
          BY <1>3
        <5> QED  BY <4>2, <5>1, <5>2
      <4> QED  BY <1>4, <4>1, <4>2
    <3> QED  BY <1>2, <3>1 DEF From
  <2> QED  BY <2>1, <2>2
<1>9. Ascending(u) <=> Ascending(s) /\ Ascending(t) /\ Before(s, t)
  <2>1. ASSUME Ascending(u)
        PROVE  Ascending(s) /\ Ascending(t) /\ Before(s, t)
    <3>1. Ascending(s)
      BY <1>2, <1>3, <2>1 DEF Ascending
    <3>2. ASSUME NEW i \in 1..b, NEW j \in 1..b, i < j
          PROVE  t[i] < t[j]
      <4>1. a + i < a + j
        BY <3>2
      <4> QED  BY <1>2, <1>3, <2>1, <4>1 DEF Ascending
    <3>3. ASSUME NEW i \in 1..a, NEW j \in 1..b
          PROVE  s[i] < t[j]
      <4>1. i < a + j
        OBVIOUS
      <4> QED  BY <1>2, <1>3, <2>1, <4>1 DEF Ascending
    <3> QED  BY <1>2, <3>1, <3>2, <3>3 DEF Ascending, Before
  <2>2. ASSUME Ascending(s), Ascending(t), Before(s, t)
        PROVE  Ascending(u)
    <3>1. ASSUME NEW i \in 1 .. a + b, NEW j \in 1 .. a + b, i < j
          PROVE  u[i] < u[j]
      <4>1. CASE j \in 1..a
        <5>1. i \in 1..a
          BY <3>1, <4>1
        <5> QED  BY <1>2, <1>3, <2>2, <3>1, <4>1, <5>1 DEF Ascending
      <4>2. ASSUME NEW l \in 1..b, j = a + l
            PROVE  u[i] < u[j]
        <5>1. u[j] = t[l]
          BY <1>3, <4>2
        <5>2. CASE i \in 1..a
          BY <1>2, <1>3, <2>2, <5>1, <5>2 DEF Before
        <5>3. ASSUME NEW k \in 1..b, i = a + k
              PROVE  u[i] < u[j]
          <6>1. k < l /\ u[i] = t[k]
            BY <1>3, <3>1, <4>2, <5>3
          <6> QED  BY <1>2, <2>2, <5>1, <6>1 DEF Ascending
        <5> QED  BY <1>4, <5>2, <5>3
      <4> QED  BY <1>4, <4>1, <4>2
    <3> QED  BY <1>2, <3>1 DEF Ascending
  <2> QED  BY <2>1, <2>2
<1> QED  BY <1>5, <1>6, <1>7, <1>8, <1>9

(* What a write of a port adds.                                            *)
Count == IF Room < nframes THEN Room ELSE nframes
Added == [i \in 1..Count |-> NextByte + i - 1]

(* The ring buffer after it.                                               *)
LEMMA FillIs ==
    ASSUME TypeOK, port < nports, sent < MaxPeriods
    PROVE  /\ Fill \in Bytes
           /\ Added \in Bytes /\ Joined(Fill, sound_buffer, Added)
           /\ Len(Added) \in 0..nframes /\ Len(sound_buffer) + Len(Added) <= RingSize
           /\ Room >= nframes => Len(Added) = nframes
           /\ \A i \in 1..Len(Added) : Added[i] = NextByte + i - 1
<1>1. /\ sound_buffer \in Seq(Value) /\ Len(sound_buffer) \in Nat /\ Len(sound_buffer) <= RingSize
      /\ sent \in 0..MaxPeriods /\ port \in 0..nports
  BY BytesAre, AnyBytes
<1>2. Count \in 0..nframes /\ Len(sound_buffer) + Count <= RingSize
      /\ (Room >= nframes => Count = nframes)
  BY <1>1, Sizes DEF Count, Room
<1>3. NextByte \in Nat /\ NextByte + nframes <= MaxPeriods * PeriodSize
  BY <1>1, NextIs
<1>4. MaxPeriods * PeriodSize \in Nat
  BY Sizes, PeriodOfAll
<1>5. Count \in Nat /\ \A i \in 1..Count : NextByte + i - 1 \in Value
  <2> DEFINE all == MaxPeriods * PeriodSize
  <2>1. all \in Nat /\ NextByte + nframes <= all /\ Value = 0 .. all - 1
    BY <1>3, <1>4 DEF Value
  <2> HIDE DEF all
  <2> QED  BY <1>2, <1>3, <2>1, Sizes
<1>6. Added \in Seq(Value) /\ Len(Added) = Count /\ \A i \in 1..Count : Added[i] = NextByte + i - 1
  BY <1>5 DEF Added
<1>7. Fill = sound_buffer \o Added
  BY DEF Fill, Added, Count
<1>8. sound_buffer \in Bytes /\ Added \in Bytes
  BY <1>6, BytesAre DEF Bytes, Value
<1>9. Fill \in Bytes /\ Joined(Fill, sound_buffer, Added)
  BY <1>7, <1>8, ConcatJoins
<1> QED  BY <1>2, <1>6, <1>8, <1>9

(* What a read takes while the ring buffer is there, and what it leaves.   *)
Rest == SubSeq(sound_buffer, PeriodSize + 1, Len(sound_buffer))
Period == SubSeq(sound_buffer, 1, PeriodSize)

(* The ring buffer before it.                                              *)
LEMMA ReadIs ==
    ASSUME TypeOK, Len(sound_buffer) >= PeriodSize
    PROVE  /\ Period \in Bytes /\ Rest \in Bytes
           /\ Len(Period) = PeriodSize /\ Len(Rest) = Len(sound_buffer) - PeriodSize
           /\ Joined(sound_buffer, Period, Rest)
<1>1. /\ sound_buffer \in Seq(Value) /\ Len(sound_buffer) \in Nat
      /\ \A i \in 1..Len(sound_buffer) : sound_buffer[i] \in Value
  BY BytesAre, AnyBytes
<1>2. PeriodSize \in Nat /\ PeriodSize > 0
  BY Sizes
<1>3. /\ Period \in Seq(Value) /\ Len(Period) = PeriodSize
      /\ \A i \in 1..PeriodSize : Period[i] = sound_buffer[i]
  <2>1. \A i \in 1..PeriodSize : sound_buffer[i] \in Value
    BY <1>1, <1>2
  <2>2. /\ Period \in Seq(Value)
        /\ Len(Period) = IF 1 <= PeriodSize THEN PeriodSize - 1 + 1 ELSE 0
        /\ \A i \in 1 .. PeriodSize - 1 + 1 : Period[i] = sound_buffer[1 + i - 1]
    BY <1>2, <2>1, SubSeqProperties DEF Period
  <2> QED  BY <1>2, <2>2
<1>4. /\ Rest \in Seq(Value) /\ Len(Rest) = Len(sound_buffer) - PeriodSize
      /\ \A i \in 1 .. Len(sound_buffer) - PeriodSize : Rest[i] = sound_buffer[PeriodSize + i]
  <2>1. PICK n \in Nat : n = Len(sound_buffer) /\ n >= PeriodSize
    BY <1>1
  <2>2. PICK m \in Nat : m = PeriodSize + 1
    BY <1>2
  <2>3. /\ \A i \in m .. n : sound_buffer[i] \in Value
        /\ Rest = SubSeq(sound_buffer, m, n)
    BY <1>1, <1>2, <2>1, <2>2 DEF Rest
  <2>4. /\ Rest \in Seq(Value)
        /\ Len(Rest) = IF m <= n THEN n - m + 1 ELSE 0
        /\ \A i \in 1 .. n - m + 1 : Rest[i] = sound_buffer[m + i - 1]
    BY <2>3, SubSeqProperties
  <2>5. Len(Rest) = n - PeriodSize
    BY <1>2, <2>1, <2>2, <2>4
  <2>6. ASSUME NEW i \in 1 .. n - PeriodSize
        PROVE  Rest[i] = sound_buffer[PeriodSize + i]
    <3>1. i \in 1 .. n - m + 1 /\ m + i - 1 = PeriodSize + i
      BY <1>2, <2>1, <2>2
    <3> QED  BY <2>4, <3>1
  <2> QED  BY <2>1, <2>4, <2>5, <2>6
<1>5. Len(sound_buffer) = PeriodSize + (Len(sound_buffer) - PeriodSize)
  BY <1>1, <1>2
<1> QED  BY <1>3, <1>4, <1>5 DEF Bytes, Value, Joined

(* The types of what is read once it is freed.                             *)
LEMMA JunkIs ==
    ASSUME TypeOK, Len(sound_buffer) >= PeriodSize
    PROVE  Junk \in Bytes /\ Len(Junk) = PeriodSize
<1>1. PeriodSize \in Nat /\ PeriodSize > 0 /\ MaxPeriods * PeriodSize \in Nat
  BY Sizes, PeriodOfAll
<1>2. sound_buffer[1] \in Value
  BY <1>1, BytesAre, AnyBytes
<1>3. 0 \in Value
  BY <1>1, <1>2 DEF Value
<1> QED  BY <1>1, <1>3 DEF Junk, Bytes, Value
-----------------------------------------------------------------------------
(* Every step keeps the types.                                             *)
FlagTypes ==
    /\ encOnTheFly \in BOOLEAN /\ running \in BOOLEAN /\ paused \in BOOLEAN
    /\ capture_started \in BOOLEAN /\ freed \in BOOLEAN
    /\ v_encoding_clean \in BOOLEAN /\ overrun \in BOOLEAN
ControlTypes ==
    /\ pauses \in 0..MaxPauses /\ sent \in 0..MaxPeriods
    /\ server \in {"up", "down"} /\ client \in {"none", "active", "closed"}
    /\ holder \in {"none", "callback", "consumer", "shutdown"}
    /\ callback \in {"idle", "write", "ports"} /\ port \in 0..nports
    /\ shutdown \in {"idle", "stop", "signal", "lock", "done"}
    /\ consumer \in {"new", "start", "top", "pause", "relock", "check", "space", "wait",
                     "take", "read", "use", "finish", "done"}
    /\ main \in {"open", "ports", "threads", "record", "free", "close", "vorbis", "join",
                 "done", "failed", "crashed"}
DataTypes ==
    /\ {sound_buffer, buffer, heard} \subseteq Bytes
    /\ Len(sound_buffer) <= RingSize /\ Len(buffer) <= PeriodSize

(* They hold at the start.                                                 *)
LEMMA InitTypes == Init => TypeOK
<1> SUFFICES ASSUME Init
             PROVE  TypeOK
  OBVIOUS
<1>1. <<>> \in Bytes /\ Len(<<>>) = 0
  BY DEF Bytes
<1>2. DataTypes
  BY <1>1, Sizes DEF Init, DataTypes
<1>3. ControlTypes
  BY Sizes DEF Init, ControlTypes
<1>4. FlagTypes
  BY Zenon DEF Init, FlagTypes
<1> QED  BY <1>2, <1>3, <1>4 DEF TypeOK, ControlTypes, DataTypes, FlagTypes

(* Where everyone is.                                                      *)
LEMMA NextControlTypes ==
    ASSUME TypeOK, Guarded, Next
    PROVE  ControlTypes'
<1> USE DEF flags, ring, call, history, consumerFrame, mainFrame
<1>0. ControlTypes
  BY DEF TypeOK, ControlTypes
<1>1. CASE Activate
  BY <1>0, <1>1 DEF ControlTypes, Activate
<1>2. CASE rmdSetupPorts
  BY <1>0, <1>2 DEF ControlTypes, rmdSetupPorts
<1>3. CASE Threads
  BY <1>0, <1>3 DEF ControlTypes, Threads
<1>4. CASE Stop
  BY <1>0, <1>4 DEF ControlTypes, Stop, Recording
<1>5. CASE Pause
  BY <1>0, <1>5, Sizes DEF ControlTypes, Pause, Recording
<1>6. CASE CaptureIdle
  BY <1>0, <1>6 DEF ControlTypes, CaptureIdle, Called, Woken, Idle
<1>7. CASE CaptureBegin
  BY <1>0, <1>7 DEF ControlTypes, CaptureBegin, Called, Idle
<1>8. CASE CaptureLock
  BY <1>0, <1>8, Sizes DEF ControlTypes, CaptureLock
<1>9. CASE CaptureWrite
  BY <1>0, <1>9, Sizes DEF ControlTypes, CaptureWrite, Used
<1>10. CASE CaptureEnd
  BY <1>0, <1>10, Sizes DEF ControlTypes, CaptureEnd, Woken, Guarded
<1>11. CASE ShutdownUnlock
  BY <1>0, <1>11 DEF ControlTypes, ShutdownUnlock
<1>12. CASE ShutdownStop
  BY <1>0, <1>12 DEF ControlTypes, ShutdownStop
<1>13. CASE ShutdownSignal
  BY <1>0, <1>13 DEF ControlTypes, ShutdownSignal, Woken
<1>14. CASE ShutdownLock
  BY <1>0, <1>14 DEF ControlTypes, ShutdownLock
<1>15. CASE Start
  BY <1>0, <1>15 DEF ControlTypes, Start
<1>16. CASE Loop
  BY <1>0, <1>16 DEF ControlTypes, Loop
<1>17. CASE Lock
  BY <1>0, <1>17 DEF ControlTypes, Lock
<1>18. CASE Check
  BY <1>0, <1>18 DEF ControlTypes, Check
<1>19. CASE Space
  BY <1>0, <1>19 DEF ControlTypes, Space, Used, Unlocked
<1>20. CASE Take
  BY <1>0, <1>20 DEF ControlTypes, Take, Unlocked
<1>21. CASE Read
  BY <1>0, <1>21 DEF ControlTypes, Read, Used, Unlocked
<1>22. CASE Use
  BY <1>0, <1>22 DEF ControlTypes, Use
<1>23. CASE Finish
  BY <1>0, <1>23 DEF ControlTypes, Finish
<1>24. CASE JoinCapture
  BY <1>0, <1>24 DEF ControlTypes, JoinCapture
<1>25. CASE FreeRing
  BY <1>0, <1>25 DEF ControlTypes, FreeRing
<1>26. CASE CloseClient
  BY <1>0, <1>26 DEF ControlTypes, CloseClient
<1>27. CASE WakeConsumer
  BY <1>0, <1>27 DEF ControlTypes, WakeConsumer, Woken
<1>28. CASE EncoderClean
  BY <1>0, <1>28 DEF ControlTypes, EncoderClean
<1>29. CASE JoinConsumer
  BY <1>0, <1>29 DEF ControlTypes, JoinConsumer
<1> QED
  BY <1>1, <1>2, <1>3, <1>4, <1>5, <1>6, <1>7, <1>8, <1>9, <1>10, <1>11, <1>12, <1>13, <1>14, <1>15,
       <1>16, <1>17, <1>18, <1>19, <1>20, <1>21, <1>22, <1>23, <1>24, <1>25, <1>26, <1>27, <1>28,
       <1>29
  DEF Next, Callback, Shutdown, Consumer, Main

(* The flags.                                                              *)
LEMMA NextFlagTypes ==
    ASSUME TypeOK, Next
    PROVE  FlagTypes'
<1> USE DEF flags, ring, call, history, consumerFrame, mainFrame
<1>0. FlagTypes
  BY DEF TypeOK, FlagTypes
<1>1. CASE Threads
  BY <1>0, <1>1, Zenon DEF FlagTypes, Threads
<1>2. CASE Stop
  BY <1>0, <1>2, Zenon DEF FlagTypes, Stop
<1>3. CASE Pause
  BY <1>0, <1>3, Zenon DEF FlagTypes, Pause
<1>4. CASE CaptureWrite
  BY <1>0, <1>4, Zenon DEF FlagTypes, CaptureWrite
<1>5. CASE ShutdownStop
  BY <1>0, <1>5, Zenon DEF FlagTypes, ShutdownStop
<1>6. CASE Start
  BY <1>0, <1>6, Zenon DEF FlagTypes, Start
<1>7. CASE Finish
  BY <1>0, <1>7, Zenon DEF FlagTypes, Finish
<1>8. CASE JoinCapture
  BY <1>0, <1>8, Zenon DEF FlagTypes, JoinCapture
<1>9. CASE FreeRing
  BY <1>0, <1>9, Zenon DEF FlagTypes, FreeRing
<1>10. CASE UNCHANGED <<encOnTheFly, running, paused, capture_started, freed, v_encoding_clean, overrun>>
  BY <1>0, <1>10 DEF FlagTypes
<1> QED
  BY <1>1, <1>2, <1>3, <1>4, <1>5, <1>6, <1>7, <1>8, <1>9, <1>10
  DEF Next, Callback, Shutdown, Consumer, Main,
      Activate, rmdSetupPorts, CaptureIdle, CaptureBegin, CaptureLock, CaptureEnd, ShutdownUnlock,
       ShutdownSignal, ShutdownLock, Loop, Lock, Check, Space, Take, Read, Use, CloseClient,
       WakeConsumer, EncoderClean, JoinConsumer

(* The bytes.                                                              *)
LEMMA NextDataTypes ==
    ASSUME TypeOK, Guarded, PeriodThere, Next
    PROVE  DataTypes'
<1> USE DEF flags, ring, call, history, consumerFrame, mainFrame
<1>0. DataTypes
  BY DEF TypeOK, DataTypes
<1>1. CASE CaptureWrite
  <2>1. port < nports /\ sent < MaxPeriods /\ sound_buffer' = Fill /\ UNCHANGED <<buffer, heard>>
    BY <1>1 DEF CaptureWrite, Guarded
  <2>2. Fill \in Bytes /\ Len(Fill) <= RingSize
    BY <2>1, FillIs DEF Joined
  <2> QED  BY <1>0, <2>1, <2>2 DEF DataTypes
<1>2. CASE Read
  <2>1. /\ Len(sound_buffer) >= PeriodSize /\ buffer' \in {Period, Junk} /\ sound_buffer' = Rest
        /\ UNCHANGED heard
    BY <1>2 DEF Read, PeriodThere, Period, Rest
  <2>2. /\ Period \in Bytes /\ Rest \in Bytes
        /\ Len(Period) = PeriodSize /\ Len(Rest) = Len(sound_buffer) - PeriodSize
    BY <2>1, ReadIs
  <2>3. Len(Rest) <= RingSize /\ Len(Period) <= PeriodSize
    BY <2>2, BytesAre, AnyBytes, Sizes
  <2>4. Junk \in Bytes /\ Len(Junk) = PeriodSize
    BY <2>1, JunkIs
  <2> QED  BY <1>0, <2>1, <2>2, <2>3, <2>4, Sizes DEF DataTypes
<1>3. CASE Use
  <2>1. heard \o buffer \in Bytes
    BY BytesAre, AnyBytes, ConcatProperties DEF Bytes, Value
  <2> QED  BY <1>0, <1>3, <2>1 DEF DataTypes, Use
<1>4. CASE UNCHANGED <<sound_buffer, buffer, heard>>
  BY <1>0, <1>4 DEF DataTypes
<1> QED
  BY <1>1, <1>2, <1>3, <1>4
  DEF Next, Callback, Shutdown, Consumer, Main,
       Activate, rmdSetupPorts, Threads, Stop, Pause, CaptureIdle, CaptureBegin, CaptureLock,
       CaptureEnd, ShutdownUnlock, ShutdownStop, ShutdownSignal, ShutdownLock, Start, Loop, Lock,
       Check, Space, Take, Finish, JoinCapture, FreeRing, CloseClient, WakeConsumer, EncoderClean,
       JoinConsumer

(* All of them.                                                            *)
LEMMA NextTypes ==
    ASSUME TypeOK, Guarded, PeriodThere, Next
    PROVE  TypeOK'
BY NextFlagTypes, NextControlTypes, NextDataTypes DEF TypeOK, FlagTypes, ControlTypes, DataTypes
-----------------------------------------------------------------------------
(* The mutex, the server and main: every step keeps who does what.         *)
LEMMA NextGuarded ==
    ASSUME TypeOK, Guarded, Next
    PROVE  Guarded'
<1> USE DEF Guarded, flags, ring, call, history, consumerFrame, mainFrame
<1>1. CASE Activate
  BY <1>1 DEF Activate
<1>2. CASE rmdSetupPorts
  BY <1>2 DEF rmdSetupPorts
<1>3. CASE Threads
  BY <1>3 DEF Threads
<1>4. CASE Stop
  BY <1>4 DEF Stop, Recording
<1>5. CASE Pause
  BY <1>5 DEF Pause, Recording
<1>6. CASE CaptureIdle
  BY <1>6 DEF CaptureIdle, Called, Woken, Idle
<1>7. CASE CaptureBegin
  BY <1>7 DEF CaptureBegin, Called, Idle
<1>8. CASE CaptureLock
  BY <1>8 DEF CaptureLock
<1>9. CASE CaptureWrite
  BY <1>9, Sizes DEF CaptureWrite, Used
<1>10. CASE CaptureEnd
  BY <1>10 DEF CaptureEnd, Woken
<1>11. CASE ShutdownUnlock
  BY <1>11 DEF ShutdownUnlock
<1>12. CASE ShutdownStop
  BY <1>12 DEF ShutdownStop
<1>13. CASE ShutdownSignal
  BY <1>13 DEF ShutdownSignal, Woken
<1>14. CASE ShutdownLock
  BY <1>14 DEF ShutdownLock
<1>15. CASE Start
  BY <1>15 DEF Start
<1>16. CASE Loop
  BY <1>16 DEF Loop
<1>17. CASE Lock
  BY <1>17 DEF Lock
<1>18. CASE Check
  BY <1>18 DEF Check
<1>19. CASE Space
  BY <1>19 DEF Space, Used, Unlocked
<1>20. CASE Take
  BY <1>20 DEF Take, Unlocked
<1>21. CASE Read
  BY <1>21 DEF Read, Used, Unlocked
<1>22. CASE Use
  BY <1>22 DEF Use
<1>23. CASE Finish
  BY <1>23 DEF Finish
<1>24. CASE JoinCapture
  BY <1>24 DEF JoinCapture
<1>25. CASE FreeRing
  BY <1>25 DEF FreeRing
<1>26. CASE CloseClient
  BY <1>26 DEF CloseClient
<1>27. CASE WakeConsumer
  BY <1>27 DEF WakeConsumer, Woken
<1>28. CASE EncoderClean
  BY <1>28 DEF EncoderClean
<1>29. CASE JoinConsumer
  BY <1>29 DEF JoinConsumer
<1> QED
  BY <1>1, <1>2, <1>3, <1>4, <1>5, <1>6, <1>7, <1>8, <1>9, <1>10, <1>11, <1>12, <1>13, <1>14, <1>15,
       <1>16, <1>17, <1>18, <1>19, <1>20, <1>21, <1>22, <1>23, <1>24, <1>25, <1>26, <1>27, <1>28,
       <1>29
  DEF Next, Callback, Shutdown, Consumer, Main

(* So does main's start.                                                   *)
LEMMA NextStarted ==
    ASSUME TypeOK, Started, Next
    PROVE  Started'
<1> USE DEF Started, Recording, Ended, Alive, flags, ring, call, history, consumerFrame, mainFrame
<1>0. Alive
  BY DEF Next, Callback, Shutdown, Consumer, Main
<1>1. CASE Activate
  BY <1>0, <1>1 DEF Activate
<1>2. CASE rmdSetupPorts
  BY <1>0, <1>2 DEF rmdSetupPorts
<1>3. CASE Threads
  BY <1>0, <1>3 DEF Threads
<1>4. CASE Stop
  BY <1>0, <1>4 DEF Stop
<1>5. CASE Pause
  BY <1>0, <1>5 DEF Pause
<1>6. CASE CaptureIdle
  BY <1>0, <1>6 DEF CaptureIdle, Called, Woken, Idle
<1>7. CASE CaptureBegin
  BY <1>0, <1>7 DEF CaptureBegin, Called, Idle
<1>8. CASE CaptureLock
  BY <1>0, <1>8 DEF CaptureLock
<1>9. CASE CaptureWrite
  BY <1>0, <1>9 DEF CaptureWrite, Used
<1>10. CASE CaptureEnd
  BY <1>0, <1>10 DEF CaptureEnd, Woken
<1>11. CASE ShutdownUnlock
  BY <1>0, <1>11 DEF ShutdownUnlock
<1>12. CASE ShutdownStop
  BY <1>0, <1>12 DEF ShutdownStop
<1>13. CASE ShutdownSignal
  BY <1>0, <1>13 DEF ShutdownSignal, Woken
<1>14. CASE ShutdownLock
  BY <1>0, <1>14 DEF ShutdownLock
<1>15. CASE Start
  BY <1>0, <1>15 DEF Start
<1>16. CASE Loop
  BY <1>0, <1>16 DEF Loop
<1>17. CASE Lock
  BY <1>0, <1>17 DEF Lock
<1>18. CASE Check
  BY <1>0, <1>18 DEF Check
<1>19. CASE Space
  BY <1>0, <1>19 DEF Space, Used, Unlocked
<1>20. CASE Take
  BY <1>0, <1>20 DEF Take, Unlocked
<1>21. CASE Read
  BY <1>0, <1>21 DEF Read, Used, Unlocked
<1>22. CASE Use
  BY <1>0, <1>22 DEF Use
<1>23. CASE Finish
  BY <1>0, <1>23 DEF Finish
<1>24. CASE JoinCapture
  BY <1>0, <1>24 DEF JoinCapture
<1>25. CASE FreeRing
  BY <1>0, <1>25 DEF FreeRing
<1>26. CASE CloseClient
  BY <1>0, <1>26 DEF CloseClient
<1>27. CASE WakeConsumer
  BY <1>0, <1>27 DEF WakeConsumer, Woken
<1>28. CASE EncoderClean
  BY <1>0, <1>28 DEF EncoderClean
<1>29. CASE JoinConsumer
  BY <1>0, <1>29 DEF JoinConsumer
<1> QED
  BY <1>1, <1>2, <1>3, <1>4, <1>5, <1>6, <1>7, <1>8, <1>9, <1>10, <1>11, <1>12, <1>13, <1>14, <1>15,
       <1>16, <1>17, <1>18, <1>19, <1>20, <1>21, <1>22, <1>23, <1>24, <1>25, <1>26, <1>27, <1>28,
       <1>29
  DEF Next, Callback, Shutdown, Consumer, Main

(* A period that is there stays until it is read, as it alone takes from   *)
(* the ring buffer.                                                        *)
LEMMA NextPeriodThere ==
    ASSUME TypeOK, PeriodThere, Guarded, Started, Next
    PROVE  PeriodThere'
<1> USE DEF PeriodThere, flags, ring, call, history, consumerFrame, mainFrame
<1>1. CASE Activate
  BY <1>1 DEF Activate
<1>2. CASE rmdSetupPorts
  BY <1>2 DEF rmdSetupPorts
<1>3. CASE Threads
  BY <1>3 DEF Threads
<1>4. CASE Stop
  BY <1>4 DEF Stop, Recording
<1>5. CASE Pause
  BY <1>5 DEF Pause, Recording
<1>6. CASE CaptureIdle
  BY <1>6 DEF CaptureIdle, Called, Woken, Idle
<1>7. CASE CaptureBegin
  BY <1>7 DEF CaptureBegin, Called, Idle
<1>8. CASE CaptureLock
  BY <1>8 DEF CaptureLock
<1>9. CASE CaptureWrite
  <2>1. port < nports /\ sent < MaxPeriods /\ sound_buffer' = Fill /\ UNCHANGED <<consumer, running>>
    BY <1>9 DEF CaptureWrite, Guarded
  <2>2. Len(Fill) >= Len(sound_buffer) /\ Len(Fill) \in Nat /\ Len(sound_buffer) \in Nat
    BY <2>1, FillIs, BytesAre, AnyBytes, Sizes DEF Joined
  <2> QED  BY <2>1, <2>2, Sizes
<1>10. CASE CaptureEnd
  BY <1>10 DEF CaptureEnd, Woken
<1>11. CASE ShutdownUnlock
  BY <1>11 DEF ShutdownUnlock
<1>12. CASE ShutdownStop
  BY <1>12 DEF ShutdownStop
<1>13. CASE ShutdownSignal
  BY <1>13 DEF ShutdownSignal, Woken
<1>14. CASE ShutdownLock
  BY <1>14 DEF ShutdownLock
<1>15. CASE Start
  BY <1>15 DEF Start
<1>16. CASE Loop
  BY <1>16 DEF Loop
<1>17. CASE Lock
  BY <1>17 DEF Lock
<1>18. CASE Check
  BY <1>18 DEF Check
<1>19. CASE Space
  BY <1>19, BytesAre, AnyBytes, Sizes DEF Space, Started
<1>20. CASE Take
  BY <1>20 DEF Take, Unlocked
<1>21. CASE Read
  BY <1>21 DEF Read, Used, Unlocked
<1>22. CASE Use
  BY <1>22 DEF Use
<1>23. CASE Finish
  BY <1>23 DEF Finish
<1>24. CASE JoinCapture
  BY <1>24 DEF JoinCapture
<1>25. CASE FreeRing
  BY <1>25 DEF FreeRing
<1>26. CASE CloseClient
  BY <1>26 DEF CloseClient
<1>27. CASE WakeConsumer
  BY <1>27 DEF WakeConsumer, Woken
<1>28. CASE EncoderClean
  BY <1>28 DEF EncoderClean
<1>29. CASE JoinConsumer
  BY <1>29 DEF JoinConsumer
<1> QED
  BY <1>1, <1>2, <1>3, <1>4, <1>5, <1>6, <1>7, <1>8, <1>9, <1>10, <1>11, <1>12, <1>13, <1>14, <1>15,
       <1>16, <1>17, <1>18, <1>19, <1>20, <1>21, <1>22, <1>23, <1>24, <1>25, <1>26, <1>27, <1>28,
       <1>29
  DEF Next, Callback, Shutdown, Consumer, Main
-----------------------------------------------------------------------------
(* Steps that take no bytes and read none leave their order as it is.      *)
Frame ==
    /\ UNCHANGED <<heard, sound_buffer, buffer, overrun, sent, port>>
    /\ InUse' => InUse
    /\ running' => running /\ (InUse => InUse')

(* The order then stays.                                                   *)
LEMMA FrameKeepsOrder ==
    ASSUME TypeOK, InOrder, Frame
    PROVE  InOrder'
<1>1. NextByte' = NextByte
  BY DEF Frame, NextByte
<1> QED  BY <1>1 DEF InOrder, Frame, Ascending, Before, Below

(* And so do the whole periods.                                            *)
LEMMA FrameKeepsWhole ==
    ASSUME TypeOK, Whole, Frame
    PROVE  Whole'
<1>1. NextByte' = NextByte
  BY DEF Frame, NextByte
<1>2. UNCHANGED <<heard, sound_buffer, buffer, overrun, port>>
  BY DEF Frame
<1> SUFFICES ASSUME ~overrun
             PROVE  Whole'
  BY <1>2 DEF Whole
<1>3. From(heard, 0)' /\ Multiple(Len(heard))'
  BY <1>2 DEF Whole, From, Multiple
<1>4. (Len(sound_buffer) >= port * nframes)' /\ Multiple(Len(sound_buffer) - port * nframes)'
  BY <1>2 DEF Whole, Multiple
<1>5. InUse' => (Len(buffer) = PeriodSize)' /\ From(buffer, Len(heard))'
  BY <1>2 DEF Whole, From, Frame
<1>6. ASSUME running'
      PROVE  From(sound_buffer, Position)' /\ (Position + Len(sound_buffer) = NextByte)'
  <2>1. running /\ InUse' = InUse
    BY <1>6 DEF Frame, InUse
  <2>2. Position' = Position
    BY <1>2, <2>1 DEF Position
  <2> QED  BY <1>1, <1>2, <2>1, <2>2 DEF Whole, From
<1> QED  BY <1>3, <1>4, <1>5, <1>6 DEF Whole

(* A port is written behind all that is there.                             *)
LEMMA WriteKeepsOrder ==
    ASSUME TypeOK, Guarded, InOrder, CaptureWrite
    PROVE  InOrder'
<1>1. /\ port < nports /\ sent < MaxPeriods /\ sound_buffer' = Fill /\ port' = port + 1
      /\ UNCHANGED <<heard, buffer, consumer, running, sent>>
  BY DEF CaptureWrite, Guarded, flags
<1>2. /\ sound_buffer \in Bytes /\ buffer \in Bytes /\ heard \in Bytes
      /\ sent \in 0..MaxPeriods /\ port \in 0..nports /\ nframes \in Nat /\ nports \in Nat
  BY BytesAre, Sizes
<1>3. /\ Fill \in Bytes /\ Added \in Bytes /\ Joined(Fill, sound_buffer, Added)
      /\ Len(Added) \in 0..nframes
      /\ \A i \in 1..Len(Added) : Added[i] = NextByte + i - 1
  BY <1>1, FillIs
<1>4. NextByte \in Nat /\ NextByte' = NextByte + nframes
  <2>1. port \in Nat /\ sent \in Nat /\ sent * PeriodSize \in Nat
    BY <1>2, PeriodOfAll
  <2>2. port * nframes \in Nat /\ (port + 1) * nframes = port * nframes + nframes
    BY <1>2, <2>1, OneMore
  <2>3. NextByte' = sent * PeriodSize + (port + 1) * nframes
    BY <1>1 DEF NextByte, PeriodSize
  <2> QED  BY <1>2, <2>1, <2>2, <2>3 DEF NextByte
<1> DEFINE next == NextByte
<1> HIDE DEF Added, Fill, NextByte
<1>5. Ascending(Added) /\ Below(Added, NextByte + nframes)
  <2>1. DOMAIN Added = 1..Len(Added)
    BY <1>3, AnyBytes
  <2> QED  BY <1>2, <1>3, <1>4, <2>1 DEF Ascending, Below
<1>6. ASSUME NEW s \in Bytes, Below(s, NextByte)
      PROVE  Before(s, Added) /\ Below(s, NextByte + nframes)
  <2>1. DOMAIN Added = 1..Len(Added) /\ \A i \in DOMAIN s : s[i] \in Nat
    BY <1>3, AnyBytes
  <2>2. \A i \in DOMAIN s : s[i] < NextByte
    BY <1>6 DEF Below
  <2>3. \A i \in 1..Len(Added) : Added[i] >= NextByte /\ Added[i] \in Nat
    BY <1>2, <1>3, <1>4
  <2> QED  BY <1>2, <1>4, <2>1, <2>2, <2>3 DEF Before, Below
<1>7. Ascending(heard) /\ Ascending(Fill) /\ Before(heard, Fill)
  BY <1>2, <1>3, <1>5, <1>6, JoinedParts DEF InOrder
<1>8. Below(heard, NextByte + nframes) /\ Below(Fill, NextByte + nframes)
  BY <1>2, <1>3, <1>5, <1>6, JoinedParts DEF InOrder
<1>9. InUse => /\ Ascending(buffer) /\ Below(buffer, NextByte + nframes)
               /\ Before(heard, buffer) /\ Before(buffer, Fill)
  BY <1>2, <1>3, <1>5, <1>6, JoinedParts DEF InOrder
<1> QED  BY <1>1, <1>4, <1>7, <1>8, <1>9 DEF InOrder, InUse, Ascending, Before, Below

(* With room for a port none of its bytes is left out.                     *)
LEMMA WriteKeepsWhole ==
    ASSUME TypeOK, Guarded, Whole, CaptureWrite
    PROVE  Whole'
<1>1. /\ port < nports /\ sent < MaxPeriods /\ sound_buffer' = Fill /\ port' = port + 1
      /\ UNCHANGED <<heard, buffer, consumer, running, sent>>
      /\ overrun' = (overrun \/ Room < nframes)
  BY DEF CaptureWrite, Guarded, flags
<1>2. /\ sound_buffer \in Bytes /\ buffer \in Bytes /\ heard \in Bytes
      /\ sent \in 0..MaxPeriods /\ port \in 0..nports /\ nframes \in Nat /\ nports \in Nat
      /\ Len(sound_buffer) \in Nat /\ Len(heard) \in Nat /\ PeriodSize \in Nat /\ RingSize \in Nat
  BY BytesAre, Sizes, AnyBytes
<1> SUFFICES ASSUME ~overrun'
             PROVE  Whole'
  BY DEF Whole
<1>3. ~overrun /\ ~ Room < nframes
  BY <1>1
<1>4. /\ Fill \in Bytes /\ Added \in Bytes /\ Joined(Fill, sound_buffer, Added)
      /\ Len(Added) = nframes
      /\ \A i \in 1..Len(Added) : Added[i] = NextByte + i - 1
  <2>1. Room \in Int
    BY <1>2 DEF Room
  <2> QED  BY <1>1, <1>2, <1>3, <2>1, FillIs
<1>5. /\ NextByte \in Nat /\ NextByte' = NextByte + nframes
      /\ port * nframes \in Nat /\ (port + 1) * nframes = port * nframes + nframes
  <2>1. port \in Nat /\ sent \in Nat /\ sent * PeriodSize \in Nat
    BY <1>2, PeriodOfAll
  <2>2. port * nframes \in Nat /\ (port + 1) * nframes = port * nframes + nframes
    BY <1>2, <2>1, OneMore
  <2>3. NextByte' = sent * PeriodSize + (port + 1) * nframes
    BY <1>1 DEF NextByte, PeriodSize
  <2> QED  BY <1>2, <2>1, <2>2, <2>3 DEF NextByte
<1> HIDE DEF Added, Fill, NextByte
<1>6. Len(Fill) = Len(sound_buffer) + nframes
  BY <1>4 DEF Joined
<1>7. From(heard, 0)' /\ Multiple(Len(heard))'
  BY <1>1, <1>3 DEF Whole, From, Multiple
<1>8. (Len(sound_buffer) >= port * nframes)' /\ Multiple(Len(sound_buffer) - port * nframes)'
  <2>1. PICK m \in Nat : m = port * nframes
    BY <1>5
  <2>2. Len(sound_buffer) >= m /\ Multiple(Len(sound_buffer) - m)
    BY <1>3, <2>1 DEF Whole
  <2>3. Len(Fill) >= m + nframes /\ Len(Fill) - (m + nframes) = Len(sound_buffer) - m
    BY <1>2, <1>6, <2>1, <2>2
  <2>4. (port * nframes)' = m + nframes
    BY <1>1, <1>5, <2>1
  <2> QED  BY <1>1, <2>2, <2>3, <2>4 DEF Multiple
<1>9. InUse' => (Len(buffer) = PeriodSize)' /\ From(buffer, Len(heard))'
  BY <1>1, <1>3 DEF Whole, From, InUse
<1>10. ASSUME running'
       PROVE  From(sound_buffer, Position)' /\ (Position + Len(sound_buffer) = NextByte)'
  <2>1. From(sound_buffer, Position) /\ Position + Len(sound_buffer) = NextByte
    BY <1>1, <1>3, <1>10 DEF Whole
  <2>2. Position \in Nat /\ Position' = Position
    BY <1>1, <1>2 DEF Position, InUse
  <2>3. From(Added, NextByte)
    <3>1. DOMAIN Added = 1..Len(Added)
      BY <1>4, AnyBytes
    <3> QED  BY <1>4, <3>1 DEF From
  <2>4. From(Fill, Position)
    BY <1>2, <1>4, <2>1, <2>2, <2>3, JoinedParts
  <2>5. Position + Len(Fill) = NextByte + nframes
    BY <1>2, <1>6, <2>1, <2>2
  <2> QED  BY <1>1, <1>5, <2>2, <2>4, <2>5 DEF From
<1> QED  BY <1>7, <1>8, <1>9, <1>10 DEF Whole

(* With its last port a period is whole.                                   *)
LEMMA EndIs ==
    ASSUME TypeOK, CaptureEnd
    PROVE  /\ UNCHANGED <<heard, sound_buffer, buffer, overrun, running>>
           /\ port * nframes = PeriodSize /\ port' = 0 /\ (port * nframes)' = 0
           /\ NextByte' = NextByte /\ InUse' = InUse
<1>1. /\ port = nports /\ port' = 0 /\ sent' = sent + 1 /\ consumer' = Woken
      /\ UNCHANGED <<heard, sound_buffer, buffer, overrun, running>>
  BY DEF CaptureEnd, flags, ring, history
<1>2. sent \in Nat /\ sent * PeriodSize \in Nat /\ (sent + 1) * PeriodSize = sent * PeriodSize + PeriodSize
  BY BytesAre, Sizes, PeriodOfAll
<1>3. port * nframes = PeriodSize /\ (port * nframes)' = 0
  BY <1>1, Sizes
<1>4. NextByte = sent * PeriodSize + PeriodSize
  BY <1>3 DEF NextByte
<1>5. NextByte' = (sent + 1) * PeriodSize + 0
  BY <1>1, <1>3 DEF NextByte, PeriodSize
<1>6. InUse' = InUse
  BY <1>1 DEF InUse, Woken
<1> QED  BY <1>1, <1>2, <1>3, <1>4, <1>5, <1>6, Sizes

(* Nothing is moved.                                                       *)
LEMMA EndKeepsOrder ==
    ASSUME TypeOK, InOrder, CaptureEnd
    PROVE  InOrder'
BY EndIs DEF InOrder, Ascending, Before, Below

(* What it adds to the ring buffer is one more period.                     *)
LEMMA EndKeepsWhole ==
    ASSUME TypeOK, Whole, CaptureEnd
    PROVE  Whole'
<1>1. /\ UNCHANGED <<heard, sound_buffer, buffer, overrun, running>>
      /\ port * nframes = PeriodSize /\ (port * nframes)' = 0
      /\ NextByte' = NextByte /\ InUse' = InUse
  BY EndIs
<1>2. PeriodSize \in Nat /\ Len(sound_buffer) \in Nat
  BY BytesAre, AnyBytes, Sizes
<1> SUFFICES ASSUME ~overrun
             PROVE  Whole'
  BY <1>1 DEF Whole
<1>3. From(heard, 0)' /\ Multiple(Len(heard))'
  BY <1>1 DEF Whole, From, Multiple
<1>4. (Len(sound_buffer) >= port * nframes)' /\ Multiple(Len(sound_buffer) - port * nframes)'
  <2>1. Len(sound_buffer) >= PeriodSize /\ Multiple(Len(sound_buffer) - PeriodSize)
    BY <1>1 DEF Whole
  <2>2. PICK k \in Nat : Len(sound_buffer) - PeriodSize = k * PeriodSize
    BY <2>1 DEF Multiple
  <2>3. k * PeriodSize \in Nat /\ (k + 1) * PeriodSize = k * PeriodSize + PeriodSize
    BY <1>2, OneMore
  <2>4. Len(sound_buffer) = (k + 1) * PeriodSize
    BY <1>2, <2>2, <2>3
  <2>5. Multiple(Len(sound_buffer))
    BY <2>4 DEF Multiple
  <2> QED  BY <1>1, <1>2, <2>5 DEF Multiple
<1>5. InUse' => (Len(buffer) = PeriodSize)' /\ From(buffer, Len(heard))'
  BY <1>1 DEF Whole, From
<1>6. ASSUME running'
      PROVE  From(sound_buffer, Position)' /\ (Position + Len(sound_buffer) = NextByte)'
  BY <1>1, <1>6 DEF Whole, From, Position
<1> QED  BY <1>3, <1>4, <1>5, <1>6 DEF Whole
-----------------------------------------------------------------------------
(* A read takes the first period of the ring buffer, whatever it gets.     *)
LEMMA ReadStep ==
    ASSUME TypeOK, Guarded, Started, PeriodThere, Read
    PROVE  /\ Period \in Bytes /\ Rest \in Bytes /\ Joined(sound_buffer, Period, Rest)
           /\ running => buffer' = Period
           /\ sound_buffer' = Rest
           /\ Len(Period) = PeriodSize /\ Len(Rest) = Len(sound_buffer) - PeriodSize
           /\ UNCHANGED <<heard, overrun, running, sent, port>>
           /\ port = 0 /\ NextByte' = NextByte
           /\ ~InUse /\ InUse' = running
<1>1. /\ consumer = "read" /\ consumer' = "use" /\ sound_buffer' = Rest
      /\ running => buffer' = Period
      /\ UNCHANGED <<heard, overrun, running, sent, port>>
  BY DEF Read, Started, Period, Rest, consumerFrame, flags, call
<1>2. port = 0
  BY <1>1 DEF Guarded
<1>3. Len(sound_buffer) >= PeriodSize
  BY <1>1 DEF PeriodThere
<1>4. /\ Period \in Bytes /\ Rest \in Bytes /\ Joined(sound_buffer, Period, Rest)
      /\ Len(Period) = PeriodSize /\ Len(Rest) = Len(sound_buffer) - PeriodSize
  BY <1>3, ReadIs
<1>5. NextByte' = NextByte
  BY <1>1 DEF NextByte
<1>6. running \in BOOLEAN
  BY DEF TypeOK
<1>7. ~InUse /\ InUse' = running
  BY <1>1, <1>6 DEF InUse
<1> QED  BY <1>1, <1>2, <1>4, <1>5, <1>7

(* The order is that of the ring buffer.                                   *)
LEMMA ReadKeepsOrder ==
    ASSUME TypeOK, Guarded, Started, PeriodThere, InOrder, Read
    PROVE  InOrder'
<1>1. /\ Period \in Bytes /\ Rest \in Bytes /\ Joined(sound_buffer, Period, Rest)
      /\ running => buffer' = Period
      /\ sound_buffer' = Rest /\ heard' = heard /\ NextByte' = NextByte /\ InUse' = running
  BY ReadStep
<1>2. sound_buffer \in Bytes /\ heard \in Bytes
  BY BytesAre
<1>3. /\ Ascending(heard) /\ Ascending(sound_buffer) /\ Before(heard, sound_buffer)
      /\ Below(heard, NextByte) /\ Below(sound_buffer, NextByte)
  BY DEF InOrder
<1> HIDE DEF Period, Rest
<1>4. /\ Ascending(Period) /\ Ascending(Rest) /\ Before(Period, Rest)
      /\ Before(heard, Period) /\ Before(heard, Rest)
      /\ Below(Period, NextByte) /\ Below(Rest, NextByte)
  BY <1>1, <1>2, <1>3, JoinedParts
<1> QED  BY <1>1, <1>3, <1>4 DEF InOrder, Ascending, Before, Below

(* One period less is there, the next one of the sound.                    *)
LEMMA ReadKeepsWhole ==
    ASSUME TypeOK, Guarded, Started, PeriodThere, Whole, Read
    PROVE  Whole'
<1>1. /\ Period \in Bytes /\ Rest \in Bytes /\ Joined(sound_buffer, Period, Rest)
      /\ running => buffer' = Period
      /\ sound_buffer' = Rest
      /\ Len(Period) = PeriodSize /\ Len(Rest) = Len(sound_buffer) - PeriodSize
      /\ UNCHANGED <<heard, overrun, running, sent, port>>
      /\ port = 0 /\ NextByte' = NextByte
      /\ ~InUse /\ InUse' = running
  BY ReadStep
<1> HIDE DEF Period, Rest
<1>2. /\ sound_buffer \in Bytes /\ heard \in Bytes /\ Len(heard) \in Nat /\ Len(Rest) \in Nat
      /\ Len(sound_buffer) \in Nat /\ PeriodSize \in Nat /\ PeriodSize > 0
      /\ nframes \in Nat /\ port * nframes = 0 /\ (port * nframes)' = 0
  BY <1>1, BytesAre, AnyBytes, Sizes
<1> SUFFICES ASSUME ~overrun
             PROVE  Whole'
  BY <1>1 DEF Whole
<1>3. From(heard, 0)' /\ Multiple(Len(heard))'
  BY <1>1 DEF Whole, From, Multiple
<1>4. (Len(sound_buffer) >= port * nframes)' /\ Multiple(Len(sound_buffer) - port * nframes)'
  <2>1. Multiple(Len(sound_buffer))
    BY <1>2 DEF Whole
  <2>2. PICK k \in Nat : Len(sound_buffer) = k * PeriodSize
    BY <2>1 DEF Multiple
  <2>3. k # 0
    BY <1>1, <1>2, <2>2
  <2>4. PICK l \in Nat : k = l + 1
    BY <2>3, k - 1 \in Nat
  <2>5. l * PeriodSize \in Nat /\ k * PeriodSize = l * PeriodSize + PeriodSize
    BY <1>2, <2>4, OneMore
  <2>6. Len(Rest) = l * PeriodSize
    BY <1>1, <1>2, <2>2, <2>5
  <2>7. Multiple(Len(Rest)) /\ Len(Rest) - 0 = Len(Rest) /\ Len(Rest) >= 0
    BY <1>2, <2>6 DEF Multiple
  <2> QED  BY <1>1, <1>2, <2>7 DEF Multiple
<1>5. ASSUME running
      PROVE  /\ From(Period, Len(heard)) /\ From(Rest, Len(heard) + PeriodSize)
             /\ Len(heard) + PeriodSize + Len(Rest) = NextByte
  <2>1. Position = Len(heard)
    BY <1>1, <1>2 DEF Position
  <2>2. From(sound_buffer, Len(heard)) /\ Len(heard) + Len(sound_buffer) = NextByte
    BY <1>5, <2>1 DEF Whole
  <2>3. From(Period, Len(heard)) /\ From(Rest, Len(heard) + Len(Period))
    BY <1>1, <1>2, <2>2, JoinedParts
  <2>4. Len(heard) + PeriodSize + Len(Rest) = NextByte
    BY <1>1, <1>2, <2>2
  <2> QED  BY <1>1, <2>3, <2>4
<1>6. InUse' => (Len(buffer) = PeriodSize)' /\ From(buffer, Len(heard))'
  BY <1>1, <1>5 DEF From, PeriodSize
<1>7. running' => From(sound_buffer, Position)' /\ (Position + Len(sound_buffer) = NextByte)'
  <2>1. ASSUME running'
        PROVE  Position' = Len(heard) + PeriodSize
    BY <1>1, <2>1 DEF Position, PeriodSize
  <2> QED  BY <1>1, <1>5, <2>1 DEF From
<1> QED  BY <1>3, <1>4, <1>6, <1>7 DEF Whole

(* The period in use is heard.                                             *)
LEMMA UseStep ==
    ASSUME TypeOK, Use, running
    PROVE  /\ heard \in Bytes /\ buffer \in Bytes /\ sound_buffer \in Bytes
           /\ heard' = heard \o buffer /\ heard \o buffer \in Bytes
           /\ Joined(heard \o buffer, heard, buffer)
           /\ UNCHANGED <<sound_buffer, overrun, running, sent, port>>
           /\ NextByte' = NextByte
           /\ InUse /\ ~InUse'
<1>1. /\ consumer = "use" /\ consumer' = "top" /\ heard' = heard \o buffer
      /\ UNCHANGED <<sound_buffer, overrun, running, sent, port>>
  BY DEF Use, consumerFrame, flags, call, ring
<1>2. heard \in Bytes /\ buffer \in Bytes /\ sound_buffer \in Bytes
  BY BytesAre
<1>3. heard \o buffer \in Bytes /\ Joined(heard \o buffer, heard, buffer)
  BY <1>2, ConcatJoins
<1>4. NextByte' = NextByte
  BY <1>1 DEF NextByte
<1> QED  BY <1>1, <1>2, <1>3, <1>4 DEF InUse

(* It was between what is heard and the ring buffer.                       *)
LEMMA UseKeepsOrder ==
    ASSUME TypeOK, InOrder, Use, running
    PROVE  InOrder'
<1>1. PICK all \in Bytes : /\ all = heard \o buffer /\ heard' = all /\ Joined(all, heard, buffer)
  BY UseStep
<1>2. /\ heard \in Bytes /\ buffer \in Bytes /\ sound_buffer \in Bytes
      /\ sound_buffer' = sound_buffer /\ NextByte' = NextByte /\ InUse /\ ~InUse'
  BY UseStep
<1>3. /\ Ascending(heard) /\ Ascending(sound_buffer) /\ Before(heard, sound_buffer)
      /\ Below(heard, NextByte) /\ Below(sound_buffer, NextByte)
      /\ Ascending(buffer) /\ Below(buffer, NextByte)
      /\ Before(heard, buffer) /\ Before(buffer, sound_buffer)
  BY <1>2 DEF InOrder
<1>4. Ascending(all) /\ Before(all, sound_buffer) /\ Below(all, NextByte)
  BY <1>1, <1>2, <1>3, JoinedParts
<1> QED  BY <1>1, <1>2, <1>3, <1>4 DEF InOrder, Ascending, Before, Below

(* One more period is heard.                                               *)
LEMMA UseKeepsWhole ==
    ASSUME TypeOK, Whole, Use, running
    PROVE  Whole'
<1>1. PICK all \in Bytes : /\ all = heard \o buffer /\ heard' = all /\ Joined(all, heard, buffer)
  BY UseStep
<1>2. /\ heard \in Bytes /\ buffer \in Bytes /\ sound_buffer \in Bytes
      /\ UNCHANGED <<sound_buffer, overrun, running, port>>
      /\ NextByte' = NextByte /\ InUse /\ ~InUse'
      /\ Len(heard) \in Nat /\ Len(sound_buffer) \in Nat /\ PeriodSize \in Nat
  BY UseStep, AnyBytes, Sizes
<1> SUFFICES ASSUME ~overrun
             PROVE  Whole'
  BY <1>2 DEF Whole
<1>3. /\ From(heard, 0) /\ Multiple(Len(heard))
      /\ Len(buffer) = PeriodSize /\ From(buffer, Len(heard))
      /\ Position = Len(heard) + PeriodSize
      /\ From(sound_buffer, Position) /\ Position + Len(sound_buffer) = NextByte
  BY <1>2 DEF Whole, Position
<1>4. Len(all) = Len(heard) + PeriodSize
  BY <1>1, <1>3 DEF Joined
<1>5. From(all, 0)
  <2>1. 0 + Len(heard) = Len(heard)
    BY <1>2
  <2> QED  BY <1>1, <1>2, <1>3, <2>1, JoinedParts
<1>6. Multiple(Len(all))
  <2>1. PICK k \in Nat : Len(heard) = k * PeriodSize
    BY <1>3 DEF Multiple
  <2>2. (k + 1) * PeriodSize = k * PeriodSize + PeriodSize
    BY <1>2, OneMore
  <2> QED  BY <1>4, <2>1, <2>2 DEF Multiple
<1>7. (Len(sound_buffer) >= port * nframes)' /\ Multiple(Len(sound_buffer) - port * nframes)'
  BY <1>2 DEF Whole, Multiple
<1>8. Position' = Position
  <2>1. Position' = Len(all) + 0
    BY <1>1, <1>2 DEF Position
  <2> QED  BY <1>2, <1>3, <1>4, <2>1
<1>9. From(sound_buffer, Position)' /\ (Position + Len(sound_buffer) = NextByte)'
  BY <1>2, <1>3, <1>8 DEF From
<1>10. From(heard, 0)' /\ Multiple(Len(heard))'
  BY <1>1, <1>5, <1>6 DEF From, Multiple
<1> QED  BY <1>2, <1>7, <1>9, <1>10 DEF Whole
-----------------------------------------------------------------------------
(* All other steps leave the bytes where they are.                         *)
LEMMA OtherSteps ==
    ASSUME TypeOK, Guarded, Started, Next
    PROVE  CaptureWrite \/ CaptureEnd \/ Read \/ (Use /\ running) \/ Frame
<1> USE DEF flags, ring, call, history, consumerFrame, mainFrame, Frame, InUse
<1>1. CASE Activate
  BY <1>1 DEF Activate
<1>2. CASE rmdSetupPorts
  BY <1>2 DEF rmdSetupPorts
<1>3. CASE Threads
  BY <1>3 DEF Threads, Started
<1>4. CASE Stop
  BY <1>4 DEF Stop
<1>5. CASE Pause
  BY <1>5 DEF Pause
<1>6. CASE CaptureIdle
  BY <1>6 DEF CaptureIdle, Woken
<1>7. CASE CaptureBegin
  BY <1>7 DEF CaptureBegin
<1>8. CASE CaptureLock
  BY <1>8 DEF CaptureLock, Guarded
<1>9. CASE CaptureWrite
  BY <1>9
<1>10. CASE CaptureEnd
  BY <1>10
<1>11. CASE ShutdownUnlock
  BY <1>11 DEF ShutdownUnlock
<1>12. CASE ShutdownStop
  BY <1>12 DEF ShutdownStop
<1>13. CASE ShutdownSignal
  BY <1>13 DEF ShutdownSignal, Woken
<1>14. CASE ShutdownLock
  BY <1>14 DEF ShutdownLock
<1>15. CASE Start
  BY <1>15 DEF Start
<1>16. CASE Loop
  BY <1>16 DEF Loop
<1>17. CASE Lock
  BY <1>17 DEF Lock
<1>18. CASE Check
  BY <1>18 DEF Check
<1>19. CASE Space
  BY <1>19 DEF Space, Used, Unlocked
<1>20. CASE Take
  BY <1>20 DEF Take, Unlocked
<1>21. CASE Read
  BY <1>21
<1>22. CASE Use
  BY <1>22 DEF Use
<1>23. CASE Finish
  BY <1>23 DEF Finish
<1>24. CASE JoinCapture
  BY <1>24 DEF JoinCapture
<1>25. CASE FreeRing
  BY <1>25 DEF FreeRing
<1>26. CASE CloseClient
  BY <1>26 DEF CloseClient
<1>27. CASE WakeConsumer
  BY <1>27 DEF WakeConsumer, Woken
<1>28. CASE EncoderClean
  BY <1>28 DEF EncoderClean
<1>29. CASE JoinConsumer
  BY <1>29 DEF JoinConsumer
<1> QED
  BY <1>1, <1>2, <1>3, <1>4, <1>5, <1>6, <1>7, <1>8, <1>9, <1>10, <1>11, <1>12, <1>13, <1>14, <1>15,
       <1>16, <1>17, <1>18, <1>19, <1>20, <1>21, <1>22, <1>23, <1>24, <1>25, <1>26, <1>27, <1>28,
       <1>29
  DEF Next, Callback, Shutdown, Consumer, Main

(* It holds at the start.                                                  *)
LEMMA InitInv == Init => IInv
<1> SUFFICES ASSUME Init
             PROVE  IInv
  OBVIOUS
<1>1. TypeOK
  BY InitTypes
<1>2. Guarded /\ Started /\ PeriodThere
  BY DEF Init, Guarded, Started, PeriodThere
<1>3. heard = <<>> /\ sound_buffer = <<>> /\ buffer = <<>> /\ sent = 0 /\ port = 0 /\ consumer = "new"
  BY DEF Init
<1>4. DOMAIN heard = {} /\ DOMAIN sound_buffer = {} /\ Len(heard) = 0 /\ Len(sound_buffer) = 0
  <2>1. DOMAIN heard = 1..Len(heard) /\ DOMAIN sound_buffer = 1..Len(sound_buffer)
    BY <1>1, BytesAre, AnyBytes
  <2> QED  BY <1>3, <2>1
<1>5. InOrder
  BY <1>3, <1>4 DEF InOrder, InUse, Ascending, Before, Below
<1>6. port * nframes = 0 /\ sent * PeriodSize = 0 /\ 0 * PeriodSize = 0 /\ NextByte = 0
  <2>1. port * nframes = 0 /\ sent * PeriodSize = 0 /\ 0 * PeriodSize = 0
    BY <1>3, Sizes
  <2> QED  BY <2>1 DEF NextByte
<1>7. Multiple(0)
  BY <1>6 DEF Multiple
<1>8. Whole
  <2>1. Position = 0
    BY <1>3, <1>4 DEF Position, InUse
  <2> QED  BY <1>3, <1>4, <1>6, <1>7, <2>1 DEF Whole, From, InUse
<1> QED  BY <1>1, <1>2, <1>5, <1>8 DEF IInv

(* Every step keeps it.                                                    *)
LEMMA NextInv == IInv /\ [Next]_vars => IInv'
<1> SUFFICES ASSUME IInv, [Next]_vars
             PROVE  IInv'
  OBVIOUS
<1> USE DEF IInv
<1>1. CASE Next
  <2>1. TypeOK' /\ Guarded' /\ Started' /\ PeriodThere'
    BY <1>1, NextTypes, NextGuarded, NextStarted, NextPeriodThere
  <2>2. InOrder'
    BY <1>1, OtherSteps, FrameKeepsOrder, WriteKeepsOrder, EndKeepsOrder, ReadKeepsOrder, UseKeepsOrder
  <2>3. Whole'
    BY <1>1, OtherSteps, FrameKeepsWhole, WriteKeepsWhole, EndKeepsWhole, ReadKeepsWhole, UseKeepsWhole
  <2> QED  BY <2>1, <2>2, <2>3
<1>2. CASE UNCHANGED vars
  <2> USE <1>2 DEF vars, flags, ring, call, history
  <2>1. TypeOK' /\ Guarded' /\ Started' /\ PeriodThere'
    BY DEF TypeOK, Guarded, Started, PeriodThere, Recording, Ended
  <2>2. Frame
    BY DEF Frame, InUse
  <2> QED  BY <2>1, <2>2, FrameKeepsOrder, FrameKeepsWhole
<1> QED  BY <1>1, <1>2

(* The inductive invariant.                                                *)
LEMMA JackInvariant == Spec => []IInv
BY InitInv, NextInv, PTL DEF Spec

(* THEOREM: for any number of ports and any size of the ring buffer, what  *)
(* is heard are the bytes in their order, whole periods unless the ring    *)
(* buffer was full, and no port is written before main has set it up.      *)
THEOREM SoundStaysRight == Spec => []SoundRight
<1>1. ASSUME IInv
      PROVE  SoundRight
  <2> USE <1>1 DEF IInv
  <2>1. PortsReady
    BY DEF Started, PortsReady
  <2>2. \A i, j \in DOMAIN heard : i < j => heard[i] < heard[j]
    BY DEF InOrder, Ascending
  <2>3. ASSUME ~overrun
        PROVE  /\ \A i \in DOMAIN heard : heard[i] = i - 1
               /\ Len(heard) % PeriodSize = 0
               /\ callback # "ports" => Len(sound_buffer) % PeriodSize = 0
    <3>1. Len(heard) \in Nat /\ Len(sound_buffer) \in Nat /\ DOMAIN heard = 1..Len(heard)
      BY BytesAre, AnyBytes
    <3>2. \A i \in DOMAIN heard : heard[i] = i - 1
      BY <2>3, <3>1 DEF Whole, From
    <3>3. Len(heard) % PeriodSize = 0
      BY <2>3, <3>1, MultipleIs DEF Whole
    <3>4. ASSUME callback # "ports"
          PROVE  Len(sound_buffer) % PeriodSize = 0
      <4>1. port * nframes = 0
        BY <3>4, Sizes DEF Guarded
      <4>2. Multiple(Len(sound_buffer))
        BY <2>3, <3>1, <4>1 DEF Whole
      <4> QED  BY <3>1, <4>2, MultipleIs
    <3> QED  BY <3>2, <3>3, <3>4
  <2>4. SoundWhole
    BY <2>2, <2>3 DEF SoundWhole
  <2> QED  BY <2>1, <2>4 DEF SoundRight
<1> QED  BY <1>1, JackInvariant, PTL
-----------------------------------------------------------------------------
(***************************************************************************)
(* The reader's sleep.  What it misses while it sleeps is being written by *)
(* a callback that signals afterwards.  At the end main leaves its signals *)
(* only when the reader has not started, or is done: one that starts then  *)
(* finds that running is FALSE and does not come to wait.                  *)
(***************************************************************************)
Signalled ==
    consumer = "wait" /\ ~freed /\ Len(sound_buffer) >= PeriodSize =>
        callback = "ports" \/ server = "down"

EndInv ==
    /\ main \in {"free", "close", "vorbis", "join", "done"} => ~running
    /\ main \in {"record", "free", "close", "vorbis", "join", "done"} => consumer # "new"
    /\ encOnTheFly =>
           /\ v_encoding_clean => consumer \in {"new", "start", "done"}
           /\ main \in {"join", "done"} => consumer \in {"start", "top", "finish", "done"}

(* Only CaptureWrite fills the ring buffer, and the end of its period      *)
(* wakes the reader.                                                       *)
LEMMA NextSignalled ==
    ASSUME TypeOK, Guarded, Signalled, Next
    PROVE  Signalled'
<1> USE DEF Signalled, flags, ring, call, history, consumerFrame, mainFrame
<1>1. CASE Activate
  BY <1>1 DEF Activate
<1>2. CASE rmdSetupPorts
  BY <1>2 DEF rmdSetupPorts
<1>3. CASE Threads
  BY <1>3 DEF Threads
<1>4. CASE Stop
  BY <1>4 DEF Stop
<1>5. CASE Pause
  BY <1>5 DEF Pause
<1>6. CASE CaptureIdle
  BY <1>6 DEF CaptureIdle, Woken
<1>7. CASE CaptureBegin
  BY <1>7 DEF CaptureBegin, Called
<1>8. CASE CaptureLock
  BY <1>8 DEF CaptureLock
<1>9. CASE CaptureWrite
  BY <1>9 DEF CaptureWrite
<1>10. CASE CaptureEnd
  BY <1>10 DEF CaptureEnd, Woken
<1>11. CASE ShutdownUnlock
  BY <1>11 DEF ShutdownUnlock
<1>12. CASE ShutdownStop
  BY <1>12 DEF ShutdownStop
<1>13. CASE ShutdownSignal
  BY <1>13 DEF ShutdownSignal, Woken
<1>14. CASE ShutdownLock
  BY <1>14 DEF ShutdownLock
<1>15. CASE Start
  BY <1>15 DEF Start
<1>16. CASE Loop
  BY <1>16 DEF Loop
<1>17. CASE Lock
  BY <1>17 DEF Lock
<1>18. CASE Check
  BY <1>18 DEF Check
<1>19. CASE Space
  BY <1>19, BytesAre, AnyBytes, Sizes DEF Space
<1>20. CASE Take
  BY <1>20 DEF Take
<1>21. CASE Read
  BY <1>21 DEF Read
<1>22. CASE Use
  BY <1>22 DEF Use
<1>23. CASE Finish
  BY <1>23 DEF Finish
<1>24. CASE JoinCapture
  BY <1>24 DEF JoinCapture
<1>25. CASE FreeRing
  BY <1>25 DEF FreeRing
<1>26. CASE CloseClient
  BY <1>26 DEF CloseClient
<1>27. CASE WakeConsumer
  BY <1>27 DEF WakeConsumer, Woken
<1>28. CASE EncoderClean
  BY <1>28 DEF EncoderClean
<1>29. CASE JoinConsumer
  BY <1>29 DEF JoinConsumer
<1> QED
  BY <1>1, <1>2, <1>3, <1>4, <1>5, <1>6, <1>7, <1>8, <1>9, <1>10, <1>11, <1>12, <1>13, <1>14,
       <1>15, <1>16, <1>17, <1>18, <1>19, <1>20, <1>21, <1>22, <1>23, <1>24, <1>25, <1>26, <1>27,
       <1>28, <1>29
  DEF Next, Callback, Shutdown, Consumer, Main

(* So does every step what main knows of the reader.                       *)
LEMMA NextEnd ==
    ASSUME TypeOK, Started, EndInv, Next
    PROVE  EndInv'
<1> USE DEF Started, EndInv, Recording, Ended, Alive, flags, ring, call, history, consumerFrame,
            mainFrame
<1>0. Alive
  BY DEF Next, Callback, Shutdown, Consumer, Main
<1>1. CASE Activate
  BY <1>0, <1>1 DEF Activate
<1>2. CASE rmdSetupPorts
  BY <1>0, <1>2 DEF rmdSetupPorts
<1>3. CASE Threads
  BY <1>0, <1>3 DEF Threads
<1>4. CASE Stop
  BY <1>0, <1>4 DEF Stop
<1>5. CASE Pause
  BY <1>0, <1>5 DEF Pause
<1>6. CASE CaptureIdle
  BY <1>0, <1>6 DEF CaptureIdle, Woken
<1>7. CASE CaptureBegin
  BY <1>0, <1>7 DEF CaptureBegin
<1>8. CASE CaptureLock
  BY <1>0, <1>8 DEF CaptureLock
<1>9. CASE CaptureWrite
  BY <1>0, <1>9 DEF CaptureWrite, Used
<1>10. CASE CaptureEnd
  BY <1>0, <1>10 DEF CaptureEnd, Woken
<1>11. CASE ShutdownUnlock
  BY <1>0, <1>11 DEF ShutdownUnlock
<1>12. CASE ShutdownStop
  BY <1>0, <1>12 DEF ShutdownStop
<1>13. CASE ShutdownSignal
  BY <1>0, <1>13 DEF ShutdownSignal, Woken
<1>14. CASE ShutdownLock
  BY <1>0, <1>14 DEF ShutdownLock
<1>15. CASE Start
  BY <1>0, <1>15 DEF Start
<1>16. CASE Loop
  BY <1>0, <1>16 DEF Loop
<1>17. CASE Lock
  BY <1>0, <1>17 DEF Lock
<1>18. CASE Check
  BY <1>0, <1>18 DEF Check
<1>19. CASE Space
  BY <1>0, <1>19 DEF Space, Used
<1>20. CASE Take
  BY <1>0, <1>20 DEF Take
<1>21. CASE Read
  BY <1>0, <1>21 DEF Read, Used
<1>22. CASE Use
  BY <1>0, <1>22 DEF Use
<1>23. CASE Finish
  BY <1>0, <1>23 DEF Finish
<1>24. CASE JoinCapture
  BY <1>0, <1>24 DEF JoinCapture
<1>25. CASE FreeRing
  BY <1>0, <1>25 DEF FreeRing
<1>26. CASE CloseClient
  BY <1>0, <1>26 DEF CloseClient
<1>27. CASE WakeConsumer
  BY <1>0, <1>27 DEF WakeConsumer, Woken
<1>28. CASE EncoderClean
  BY <1>0, <1>28 DEF EncoderClean
<1>29. CASE JoinConsumer
  BY <1>0, <1>29 DEF JoinConsumer
<1> QED
  BY <1>1, <1>2, <1>3, <1>4, <1>5, <1>6, <1>7, <1>8, <1>9, <1>10, <1>11, <1>12, <1>13, <1>14,
       <1>15, <1>16, <1>17, <1>18, <1>19, <1>20, <1>21, <1>22, <1>23, <1>24, <1>25, <1>26, <1>27,
       <1>28, <1>29
  DEF Next, Callback, Shutdown, Consumer, Main

(* The reader's sleep in every state.                                      *)
LEMMA SleepInvariant == Spec => [](Signalled /\ EndInv)
<1>1. Init => Signalled /\ EndInv
  BY DEF Init, Signalled, EndInv
<1>2. ASSUME IInv, Signalled, EndInv, [Next]_vars
      PROVE  Signalled' /\ EndInv'
  <2>1. CASE Next
    BY <1>2, <2>1, NextSignalled, NextEnd DEF IInv
  <2>2. CASE UNCHANGED vars
    BY <1>2, <2>2 DEF vars, flags, ring, call, history, Signalled, EndInv
  <2> QED  BY <1>2, <2>1, <2>2
<1> QED  BY <1>1, <1>2, JackInvariant, PTL DEF Spec

(* THEOREM: the reader never sleeps over a whole period unless its signal  *)
(* is still to come or the server is gone, and on the fly main never joins *)
(* a reader that sleeps.                                                   *)
THEOREM ReaderStaysAwake == Spec => []ReaderAwake
<1>1. Signalled /\ EndInv => ReaderAwake
  BY DEF Signalled, EndInv, ReaderAwake
<1> QED  BY <1>1, SleepInvariant, PTL

=============================================================================
