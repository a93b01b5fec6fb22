--------------------------- MODULE PictureProofs ---------------------------
(***************************************************************************)
(* Proofs, for a row and a screen of any width, any pointer and any        *)
(* colours that the marks keep apart, that a turn leaves the picture as it *)
(* was looked at, with the pointer drawn once and no trail of an older     *)
(* one, and that the frames cached give it back.                           *)
(***************************************************************************)
EXTENDS Picture, TLAPS
-----------------------------------------------------------------------------

On(p, places, n) == IF p \in places THEN n ELSE 0

(* A pixel of the pointer blends in over its sample where its column is    *)
(* odd.                                                                    *)
OddColumn(m, p) == Odd(p - m.x + m.offset)
SampleAt(m, p)  == m.x \div 2 + (p - m.x) \div 2
SamplesIn(m, places) == { SampleAt(m, p) : p \in { q \in places : OddColumn(m, q) } }

IsMouse(m) ==
    /\ m \in [x : Nat, width : Nat, offset : Nat]
    /\ PlaceOf(m) \subseteq Pixels
    /\ args.cursor = "none" => PlaceOf(m) = {}

(* What lies below the pointer that was drawn over some pixels.            *)
Under(planes, p, places) == planes.y[p] - On(p, places, Shade)
UnderSample(planes, c, samples) == planes.u[c] - On(c, samples, Shade)
Fresh(value, p) == value = screen[temp_brwin + p] \/ temp_brwin + p \in changed

(* The picture has the pointer at m, over colours.                         *)
PlanesWith(planes, m, places) ==
    /\ \A p \in Pixels : Under(planes, p, places) \in Colours
    /\ args.no_quick_subsample \/ args.cursor = "none" =>
           \A c \in Samples :
               UnderSample(planes, c, SamplesIn(m, places))
                   = IF args.no_quick_subsample THEN Under(planes, 2*c, places) + Under(planes, 2*c + 1, places)
                                                ELSE Under(planes, 2*c, places)

Types == TypeOK /\ IsMouse(mouse) /\ (pc # "draw" => undrawn = {})

(* XDamage: a pixel is up to date, changed since, or on the list.          *)
Places == IF pc = "draw" THEN PlaceOf(mouse) \ undrawn ELSE PlaceOf(mouse)
DamageRight ==
    ~args.full_shots =>
        /\ temp_brwin = brwin /\ pc # "update"
        /\ pc = "fetch" => PlaceOf(mouse) \subseteq list
        /\ \A p \in Pixels : (pc \in {"pointer", "fetch"} /\ p \in list)
                           \/ (Under(yuv, p, Places) \in Colours /\ Fresh(Under(yuv, p, Places), p))

(* Full shots: the last one has what lies below the pointer, with a mark.  *)
ShotHas(planes, shot, places, marked) ==
    \A p \in Pixels : shot[p] = Under(planes, p, places) + On(p, marked, 1)
LastTurn ==
    /\ PlanesWith(yuv, mouse, PlaceOf(mouse))
    /\ ShotHas(yuv, shots[IF pc = "pointer" THEN Back ELSE img_sel], PlaceOf(mouse), PlaceOf(mouse))
ToCompare(m) ==
    /\ IsMouse(m) /\ PlanesWith(yuv, m, PlaceOf(m))
    /\ \A p \in Pixels : shots[Back][p] = Under(yuv, p, PlaceOf(m)) + On(p, PlaceOf(m), 1)
                                            + On(p, PlaceOf(mouse), 1)
ShotsRight ==
    args.full_shots /\ ~args.noshared =>
        /\ pc \in {"events", "pointer", "advance"} => LastTurn
        /\ pc \in {"events", "advance"} => \A p \in Pixels : Fresh(Under(yuv, p, PlaceOf(mouse)), p)
        /\ pc \in {"fetch", "update"} => \E m \in [x : Nat, width : Nat, offset : Nat] : ToCompare(m)
        /\ pc \in {"update", "draw"} =>
               \A p \in Pixels : shots[img_sel][p] \in Colours /\ Fresh(shots[img_sel][p], p)
        /\ pc = "draw" => /\ PlanesWith(yuv, mouse, Places)
                          /\ ShotHas(yuv, shots[img_sel], Places, {})

(* The cache has what its next frame will not bring, but for the pointer.  *)
CacheRight ==
    ~firstrun =>
        /\ \A p \in Pixels : \/ p \div Y_UNIT_WIDTH \in blocks.y
                             \/ loaded.y[p] = yuv.y[p] \/ yuv.y[p] >= Shade
        /\ \A c \in Samples : \/ (2*c) \div Y_UNIT_WIDTH \in blocks.u
                              \/ loaded.u[c] = yuv.u[c] \/ yuv.u[c] >= Shade

PictureInv == Types /\ DamageRight /\ ShotsRight /\ CacheRight

-----------------------------------------------------------------------------
LEMMA SamplePixels ==
    \A c \in Samples : c \in Nat /\ 2*c \in Pixels /\ 2*c + 1 \in Pixels
<1>1. PICK h \in Nat : Width = 2*h
  <2>1. Width = 2*(Width \div 2) /\ Width \div 2 \in Nat
    BY PictureAssumption
  <2> QED  BY <2>1
<1>2. Width \div 2 = h
  BY <1>1
<1> QED  BY <1>1, <1>2 DEF Samples, Pixels

LEMMA ColoursAre ==
    /\ Shade \in Nat /\ Colours \subseteq Nat
    /\ \A a \in Colours : a + 4 < Shade
    /\ \A a, b \in Colours : a + b < Shade
    /\ \A a, b \in Colours, n \in 0..2 : b = a + n => n = 0
<1>1. /\ Colours \subseteq Nat /\ Shade \in Nat
      /\ \A a, b \in Colours : a < b => a + 2 < b
      /\ \A a, b \in Colours : a + b + 4 < Shade
  BY PictureAssumption
<1>2. ASSUME NEW a \in Colours, NEW b \in Colours, NEW n \in 0..2, b = a + n
      PROVE  n = 0
  BY <1>1, <1>2
<1>3. ASSUME NEW a \in Colours
      PROVE  a + 4 < Shade /\ \A b \in Colours : a + b < Shade
  <2>1. a + a + 4 < Shade
    BY <1>1
  <2> QED  BY <1>1, <2>1
<1> QED  BY <1>1, <1>2, <1>3

LEMMA BlendRight ==
    ASSUME NEW v \in Nat
    PROVE  /\ Blend(v) \in Nat /\ Blend(v) >= Shade
           /\ v < 2*Shade => Blend(v) = v + Shade
  BY ColoursAre DEF Blend

(* The part of the screen that a shot shows.                               *)
LEMMA ShotRight ==
    ASSUME screen \in [0..ScreenWidth-1 -> Colours], NEW x \in 0..ScreenWidth-Width
    PROVE  /\ Shot(x) \in [Pixels -> Colours] /\ Shot(x) \in [Pixels -> Nat]
           /\ \A p \in Pixels : /\ x + p \in 0..ScreenWidth-1
                                /\ Shot(x)[p] = screen[x + p] /\ screen[x + p] \in Colours
<1>1. \A p \in Pixels : x + p \in 0..ScreenWidth-1
  BY PictureAssumption DEF Pixels
<1> QED  BY <1>1, ColoursAre DEF Shot

LEMMA MarkedRight ==
    ASSUME NEW row \in [Pixels -> Nat], NEW m
    PROVE  /\ Marked(row, m) \in [Pixels -> Nat]
           /\ \A p \in Pixels : Marked(row, m)[p] = row[p] + On(p, PlaceOf(m), 1)
  BY DEF Marked, On

(* Where a pixel of the pointer is blended into the chroma planes.         *)
LEMMA SampleAtRight ==
    ASSUME NEW m, IsMouse(m), NEW p \in PlaceOf(m)
    PROVE  /\ SampleAt(m, p) \in Samples
           /\ 2*SampleAt(m, p) \in PlaceOf(m) \/ 2*SampleAt(m, p) + 1 \in PlaceOf(m)
<1>1. PICK h \in Nat : Width = 2*h
  <2>1. Width = 2*(Width \div 2) /\ Width \div 2 \in Nat
    BY PictureAssumption
  <2> QED  BY <2>1
<1>2. Width \div 2 = h
  BY <1>1
<1>3. m.x \in Nat /\ m.width \in Nat /\ p \in m.x .. m.x + m.width - 1 /\ p \in 0 .. 2*h - 1
  BY <1>1 DEF IsMouse, PlaceOf, Pixels
<1> DEFINE i == m.x \div 2
           j == (p - m.x) \div 2
<1>4. /\ i \in Nat /\ j \in Nat
      /\ m.x = 2*i \/ m.x = 2*i + 1
      /\ p - m.x = 2*j \/ p - m.x = 2*j + 1
  BY <1>3
<1>5. SampleAt(m, p) = i + j /\ Samples = 0 .. h - 1
  BY <1>2 DEF SampleAt, Samples
<1> HIDE DEF i, j
<1>6. i + j \in 0 .. h - 1
  BY <1>3, <1>4
<1>7. 2*(i + j) \in m.x .. m.x + m.width - 1 \/ 2*(i + j) + 1 \in m.x .. m.x + m.width - 1
  BY <1>3, <1>4
<1> QED  BY <1>5, <1>6, <1>7 DEF PlaceOf

LEMMA SamplesApart ==
    ASSUME NEW m, IsMouse(m), NEW p \in PlaceOf(m), NEW q \in PlaceOf(m),
           OddColumn(m, p), OddColumn(m, q), SampleAt(m, p) = SampleAt(m, q)
    PROVE  p = q
<1>1. /\ m.x \in Nat /\ m.width \in Nat /\ m.offset \in Nat
      /\ p \in m.x .. m.x + m.width - 1 /\ q \in m.x .. m.x + m.width - 1
  BY DEF IsMouse, PlaceOf
<1> DEFINE a == p - m.x
           b == q - m.x
<1>2. a \in Nat /\ b \in Nat /\ p = m.x + a /\ q = m.x + b
  BY <1>1
<1>3. Odd(a + m.offset) /\ Odd(b + m.offset)
  BY DEF OddColumn
<1>4. m.x \div 2 + a \div 2 = m.x \div 2 + b \div 2
  BY DEF SampleAt
<1> HIDE DEF a, b
<1>5. a \div 2 = b \div 2
  BY <1>1, <1>2, <1>4
<1>6. a = b
  BY <1>1, <1>2, <1>3, <1>5 DEF Odd
<1> QED  BY <1>2, <1>6

LEMMA SamplesOfAre ==
    ASSUME NEW m, IsMouse(m)
    PROVE  SamplesOf(m) = SamplesIn(m, PlaceOf(m))
<1>1. m.x \in Nat /\ m.width \in Nat /\ m.offset \in Nat
  BY DEF IsMouse
<1>2. ASSUME NEW p \in PlaceOf(m), OddColumn(m, p)
      PROVE  SampleAt(m, p) \in SamplesOf(m)
  <2> DEFINE i == p - m.x + m.offset
  <2>1. i \in m.offset .. m.offset + m.width - 1 /\ Odd(i) /\ i - m.offset = p - m.x
    BY <1>1, <1>2 DEF PlaceOf, OddColumn
  <2> HIDE DEF i
  <2> QED  BY <2>1 DEF SamplesOf, SampleAt
<1>3. ASSUME NEW i \in m.offset .. m.offset + m.width - 1, Odd(i)
      PROVE  m.x \div 2 + (i - m.offset) \div 2 \in SamplesIn(m, PlaceOf(m))
  <2> DEFINE p == i - m.offset + m.x
  <2>1. p \in PlaceOf(m) /\ p - m.x + m.offset = i /\ p - m.x = i - m.offset
    BY <1>1 DEF PlaceOf
  <2> HIDE DEF p
  <2>2. OddColumn(m, p) /\ SampleAt(m, p) = m.x \div 2 + (i - m.offset) \div 2
    BY <1>3, <2>1 DEF OddColumn, SampleAt
  <2> QED  BY <2>1, <2>2 DEF SamplesIn
<1> QED  BY <1>2, <1>3 DEF SamplesOf, SamplesIn

-----------------------------------------------------------------------------
(* The variables keep to their values.                                     *)
LEMMA PlanesTypes ==
    ASSUME NEW row \in [Pixels -> Nat]
    PROVE  /\ \A c \in Samples : Sample(row, c) \in Nat
           /\ Planes(row) \in [y : [Pixels -> Nat], u : [Samples -> Nat]]
<1>1. ASSUME NEW c \in Samples
      PROVE  Sample(row, c) \in Nat
  <2>1. row[2*c] \in Nat /\ row[2*c + 1] \in Nat
    BY SamplePixels
  <2> QED  BY <2>1 DEF Sample
<1> QED  BY <1>1 DEF Planes

LEMMA NowhereRight ==
    /\ PlaceOf(Nowhere) = {}
    /\ IsMouse(Nowhere)
  BY DEF Nowhere, PlaceOf, IsMouse

(* The pointer is clipped to the area, or nowhere.                         *)
LEMMA ClipRight ==
    ASSUME temp_brwin \in 0..ScreenWidth-Width, NEW x \in Int
    PROVE  /\ ClipPointer(x) \in [x : Nat, width : Nat, offset : Nat]
           /\ PlaceOf(ClipPointer(x)) \subseteq Pixels
<1>1. Width \in Nat /\ CursorWidth \in Nat /\ ScreenWidth \in Nat /\ temp_brwin \in Nat
  BY PictureAssumption
<1> DEFINE left == IF x < temp_brwin THEN temp_brwin ELSE x
           right == IF x + CursorWidth < temp_brwin + Width THEN x + CursorWidth ELSE temp_brwin + Width
<1>2. left \in Int /\ right \in Int /\ left >= temp_brwin /\ left >= x /\ right <= temp_brwin + Width
  BY <1>1
<1>3. ClipPointer(x) = IF right <= left THEN Nowhere
                       ELSE [x |-> left - temp_brwin, width |-> right - left, offset |-> left - x]
  BY DEF ClipPointer
<1> HIDE DEF left, right
<1>4. CASE right <= left
  BY <1>3, <1>4, NowhereRight DEF Nowhere
<1>5. CASE ~(right <= left)
  <2>1. left - temp_brwin \in Nat /\ right - left \in Nat /\ left - x \in Nat
    BY <1>1, <1>2, <1>5
  <2>2. (left - temp_brwin) .. (left - temp_brwin) + (right - left) - 1 \subseteq Pixels
    BY <1>1, <1>2, <1>5 DEF Pixels
  <2>3. ClipPointer(x) = [x |-> left - temp_brwin, width |-> right - left, offset |-> left - x]
    BY <1>3, <1>5
  <2> QED  BY <2>1, <2>2, <2>3 DEF PlaceOf
<1> QED  BY <1>4, <1>5

LEMMA MoveRight ==
    ASSUME NEW cursor_x \in Int
    PROVE  rmdMoveCaptureArea(cursor_x) \in 0..ScreenWidth-Width
<1>1. Width \in Nat /\ ScreenWidth \in Nat /\ ScreenWidth >= Width
  BY PictureAssumption
<1>2. Width \div 2 \in Int
  BY <1>1
<1> DEFINE t_x == cursor_x - Width \div 2
<1>3. t_x \in Int
  BY <1>2
<1>4. rmdMoveCaptureArea(cursor_x)
        = IF t_x < 0 THEN 0 ELSE IF t_x + Width > ScreenWidth THEN ScreenWidth - Width ELSE t_x
  BY DEF rmdMoveCaptureArea
<1> HIDE DEF t_x
<1> QED  BY <1>1, <1>3, <1>4

LEMMA TypesFirst == Init => Types
<1> SUFFICES ASSUME Init PROVE Types
  OBVIOUS
<1>1. screen \in [0..ScreenWidth-1 -> Colours] /\ brwin \in 0..ScreenWidth-Width
  BY PictureAssumption DEF Init
<1>2. Shot(brwin) \in [Pixels -> Nat]
  BY <1>1, ShotRight
<1>3. Planes(Shot(brwin)) \in [y : [Pixels -> Nat], u : [Samples -> Nat]]
  BY <1>2, PlanesTypes
<1>4. shots \in [{0, 1} -> [Pixels -> Nat]]
  <2>1. PICK c \in Colours :
          shots = [i \in {0, 1} |-> IF i = 0 /\ args.full_shots THEN [p \in Pixels |-> c] ELSE Shot(brwin)]
    BY DEF Init
  <2>2. [p \in Pixels |-> c] \in [Pixels -> Nat]
    BY ColoursAre
  <2> HIDE DEF Shot
  <2> QED  BY <1>2, <2>1, <2>2
<1>5. mouse = Nowhere /\ undrawn = {}
  BY DEF Init
<1>6. IsMouse(mouse)
  BY <1>5, NowhereRight
<1>7. PlaceOf(mouse) \subseteq Pixels /\ undrawn \subseteq PlaceOf(mouse)
  BY <1>5, NowhereRight
<1>8. {yuv, loaded} \subseteq [y : [Pixels -> Nat], u : [Samples -> Nat]]
  BY <1>3 DEF Init
<1>9. paints \in 0..MaxPaints /\ temp_brwin \in 0..ScreenWidth-Width /\ list \subseteq Pixels
      /\ img_sel \in {0, 1} /\ changed \subseteq 0..ScreenWidth-1
  BY <1>1, PictureAssumption DEF Init
<1>10. blocks \in [y : SUBSET AllBlocks, u : SUBSET AllBlocks] /\ ready \in BOOLEAN /\ firstrun \in BOOLEAN
       /\ args \in Settings /\ pc = "events"
  BY DEF Init
<1> QED  BY <1>1, <1>4, <1>5, <1>6, <1>7, <1>8, <1>9, <1>10 DEF Types, TypeOK

(* What an action leaves alone it leaves right.                            *)
LEMMA ListTypes == BlocksOf(Pixels) = AllBlocks /\ \A s \in SUBSET Pixels : BlocksOf(s) \subseteq AllBlocks
  BY DEF BlocksOf, AllBlocks

LEMMA TypesKept ==
    ASSUME Types, [Next]_vars
    PROVE  Types'
<1>1. /\ args \in Settings
      /\ screen \in [0..ScreenWidth-1 -> Colours]
      /\ changed \subseteq 0..ScreenWidth-1 /\ paints \in 0..MaxPaints
      /\ pc \in {"events", "pointer", "fetch", "update", "draw", "advance"}
      /\ brwin \in 0..ScreenWidth-Width /\ temp_brwin \in 0..ScreenWidth-Width
      /\ list \subseteq Pixels /\ undrawn \subseteq PlaceOf(mouse) /\ PlaceOf(mouse) \subseteq Pixels
      /\ shots \in [{0, 1} -> [Pixels -> Nat]] /\ img_sel \in {0, 1}
      /\ yuv \in [y : [Pixels -> Nat], u : [Samples -> Nat]]
      /\ loaded \in [y : [Pixels -> Nat], u : [Samples -> Nat]]
      /\ blocks \in [y : SUBSET AllBlocks, u : SUBSET AllBlocks]
      /\ ready \in BOOLEAN /\ firstrun \in BOOLEAN
      /\ IsMouse(mouse) /\ (pc # "draw" => undrawn = {})
  BY DEF Types, TypeOK
<1>2. Back \in {0, 1} /\ img_sel \in {0, 1}
  BY <1>1 DEF Back
<1>3. args' = args
  BY DEF Next, Paint, Events, Skip, Pointer, Fetch, UpdateImage, rmdUpdateYuvBuffer, DrawPixel, Drawn,
         Advance, CacheFrame, vars
<1>4. IsMouse(mouse)' <=> /\ mouse' \in [x : Nat, width : Nat, offset : Nat]
                          /\ PlaceOf(mouse') \subseteq Pixels
                          /\ args.cursor = "none" => PlaceOf(mouse') = {}
  BY <1>3 DEF IsMouse, PlaceOf, Pixels
<1>5. PlaceOf(mouse)' = PlaceOf(mouse')
  BY DEF PlaceOf
<1>6. mouse' = mouse => IsMouse(mouse)' /\ PlaceOf(mouse') \subseteq Pixels
  BY <1>1, <1>4 DEF IsMouse
<1> DEFINE Kept ==
          /\ screen' \in [0..ScreenWidth-1 -> Colours]
          /\ changed' \subseteq 0..ScreenWidth-1 /\ paints' \in 0..MaxPaints
          /\ pc' \in {"events", "pointer", "fetch", "update", "draw", "advance"}
          /\ brwin' \in 0..ScreenWidth-Width /\ temp_brwin' \in 0..ScreenWidth-Width
          /\ list' \subseteq Pixels /\ undrawn' \subseteq PlaceOf(mouse')
          /\ shots' \in [{0, 1} -> [Pixels -> Nat]] /\ img_sel' \in {0, 1}
          /\ yuv' \in [y : [Pixels -> Nat], u : [Samples -> Nat]]
          /\ loaded' \in [y : [Pixels -> Nat], u : [Samples -> Nat]]
          /\ blocks' \in [y : SUBSET AllBlocks, u : SUBSET AllBlocks]
          /\ ready' \in BOOLEAN /\ firstrun' \in BOOLEAN
          /\ IsMouse(mouse)' /\ (pc' # "draw" => undrawn' = {})
<1>7. Kept => Types'
  <2>1. IsMouse(mouse)' => PlaceOf(mouse)' \subseteq Pixels
    BY <1>4, <1>5
  <2>2. args' \in Settings
    BY <1>1, <1>3
  <2>3. AllBlocks' = AllBlocks /\ Pixels' = Pixels /\ Samples' = Samples
    BY DEF AllBlocks, BlocksOf, Pixels, Samples
  <2> QED  BY <1>5, <2>1, <2>2, <2>3 DEF Types, TypeOK
<1>8. CASE vars' = vars
  <2>1. /\ screen' = screen /\ changed' = changed /\ paints' = paints /\ pc' = pc
        /\ brwin' = brwin /\ temp_brwin' = temp_brwin /\ list' = list /\ mouse' = mouse
        /\ undrawn' = undrawn /\ shots' = shots /\ img_sel' = img_sel /\ yuv' = yuv
        /\ blocks' = blocks /\ ready' = ready /\ firstrun' = firstrun /\ loaded' = loaded
    BY <1>8 DEF vars, screenVars, grabVars, cacheVars
  <2> QED  BY <1>1, <1>6, <1>7, <2>1
<1>9. ASSUME NEW s \in 0..ScreenWidth-1, NEW colour \in Colours, Paint(s, colour)
      PROVE  Types'
  <2>1. paints' \in 0..MaxPaints
    BY <1>1, <1>9, PictureAssumption DEF Paint
  <2>2. screen' \in [0..ScreenWidth-1 -> Colours] /\ changed' \subseteq 0..ScreenWidth-1
    BY <1>1, <1>9 DEF Paint
  <2> QED  BY <1>1, <1>6, <1>7, <1>9, <2>1, <2>2 DEF Paint, grabVars, cacheVars
<1>10. CASE Events
  <2>1. img_sel' \in {0, 1} /\ undrawn' = {} /\ pc' = "pointer"
    BY <1>1, <1>2, <1>10 DEF Events
  <2>2. changed' \subseteq 0..ScreenWidth-1 /\ list' \subseteq Pixels /\ temp_brwin' = brwin
    BY <1>1, <1>10 DEF Events
  <2>3. UNCHANGED <<screen, paints, brwin, mouse, shots, yuv, blocks, ready, firstrun, loaded>>
    BY <1>10 DEF Events, cacheVars
  <2> QED  BY <1>1, <1>6, <1>7, <2>1, <2>2, <2>3
<1>11. CASE Skip
  <2>1. undrawn' = {} /\ pc' = "advance"
    BY <1>1, <1>11 DEF Skip
  <2>2. UNCHANGED <<screen, changed, paints, brwin, temp_brwin, list, mouse, shots, img_sel, yuv, blocks,
                    ready, firstrun, loaded>>
    BY <1>11 DEF Skip, screenVars, cacheVars
  <2> QED  BY <1>1, <1>6, <1>7, <2>1, <2>2
<1>12. ASSUME NEW cursor_x \in PointerAt, Pointer(cursor_x)
       PROVE  Types'
  <2>1. cursor_x \in Int /\ cursor_x - xhot \in Int
    BY PictureAssumption
  <2>2. /\ mouse' \in [x : Nat, width : Nat, offset : Nat]
        /\ PlaceOf(mouse') \subseteq Pixels
        /\ args.cursor = "none" => PlaceOf(mouse') = {}
    <3>1. CASE args.cursor = "xfixes"
      BY <1>1, <1>12, <2>1, <3>1, ClipRight DEF Pointer
    <3>2. CASE args.cursor # "xfixes"
      BY <1>12, <3>2, NowhereRight DEF Pointer, IsMouse
    <3> QED  BY <3>1, <3>2
  <2>3. IsMouse(mouse)'
    BY <1>4, <2>2
  <2>4. list' \subseteq Pixels
    <3>1. Dirty(mouse, mouse') \subseteq Pixels
      BY <1>1, <2>2 DEF Dirty
    <3> QED  BY <1>1, <1>12, <3>1 DEF Pointer
  <2>5. shots' \in [{0, 1} -> [Pixels -> Nat]]
    <3>1. shots[Back] \in [Pixels -> Nat]
      BY <1>1, <1>2
    <3>2. Marked(shots[Back], mouse') \in [Pixels -> Nat]
      BY <3>1, MarkedRight
    <3> QED  BY <1>1, <1>2, <1>12, <3>2 DEF Pointer
  <2>6. brwin' \in 0..ScreenWidth-Width
    BY <1>1, <1>12, <2>1, MoveRight DEF Pointer
  <2>7. undrawn' = {}
    BY <1>1, <1>12 DEF Pointer
  <2> QED  BY <1>1, <1>7, <1>12, <2>3, <2>4, <2>5, <2>6, <2>7 DEF Pointer, screenVars, cacheVars
<1>13. CASE Fetch
  <2>1. Shot(temp_brwin) \in [Pixels -> Nat]
    BY <1>1, ShotRight
  <2>2. shots' \in [{0, 1} -> [Pixels -> Nat]]
    BY <1>1, <1>13, <2>1 DEF Fetch
  <2> QED  BY <1>1, <1>6, <1>7, <1>13, <2>2 DEF Fetch, cacheVars
<1>14. CASE UpdateImage
  <2>1. Shot(temp_brwin) \in [Pixels -> Nat]
    BY <1>1, ShotRight
  <2> HIDE DEF Shot
  <2>2. yuv' \in [y : [Pixels -> Nat], u : [Samples -> Nat]]
    BY <1>1, <1>14, <2>1 DEF UpdateImage
  <2>3. blocks' \in [y : SUBSET AllBlocks, u : SUBSET AllBlocks]
    BY <1>1, <1>14, ListTypes DEF UpdateImage
  <2> QED  BY <1>1, <1>6, <1>7, <1>14, <2>2, <2>3 DEF UpdateImage, screenVars, cacheVars
<1>15. CASE rmdUpdateYuvBuffer
  <2>1. shots[img_sel] \in [Pixels -> Nat]
    BY <1>1
  <2>2. yuv' \in [y : [Pixels -> Nat], u : [Samples -> Nat]]
    <3>1. \A c \in Samples : Sample(shots[img_sel], c) \in Nat
      BY <2>1, PlanesTypes
    <3> QED  BY <1>1, <1>15, <2>1, <3>1 DEF rmdUpdateYuvBuffer
  <2>3. blocks' \in [y : SUBSET AllBlocks, u : SUBSET AllBlocks]
    <3>1. { p \in Pixels : Differ(p) } \subseteq Pixels /\ { 2*c : c \in MarkedSamples } \subseteq Pixels
      BY SamplePixels DEF MarkedSamples
    <3> QED  BY <1>1, <1>15, <3>1, ListTypes DEF rmdUpdateYuvBuffer
  <2> QED  BY <1>1, <1>6, <1>7, <1>15, <2>2, <2>3 DEF rmdUpdateYuvBuffer, screenVars, cacheVars
<1>16. ASSUME NEW p \in Pixels, DrawPixel(p)
       PROVE  Types'
  <2>1. \A v \in Nat : Blend(v) \in Nat
    BY BlendRight
  <2>2. yuv' \in [y : [Pixels -> Nat], u : [Samples -> Nat]]
    BY <1>1, <1>16, <2>1 DEF DrawPixel
  <2> QED  BY <1>1, <1>6, <1>7, <1>16, <2>2 DEF DrawPixel, screenVars, cacheVars
<1>17. CASE Drawn
  <2>1. Marked(shots[img_sel], mouse) \in [Pixels -> Nat]
    BY <1>1, MarkedRight
  <2>2. shots' \in [{0, 1} -> [Pixels -> Nat]]
    BY <1>1, <1>17, <2>1 DEF Drawn
  <2> QED  BY <1>1, <1>6, <1>7, <1>17, <2>2 DEF Drawn, screenVars, cacheVars
<1>18. CASE Advance
  BY <1>1, <1>6, <1>7, <1>18 DEF Advance, screenVars
<1>19. CASE CacheFrame
  <2>1. loaded' \in [y : [Pixels -> Nat], u : [Samples -> Nat]]
    BY <1>1, <1>19 DEF CacheFrame, rmdLoadFrame
  <2> QED  BY <1>1, <1>6, <1>7, <1>19, <2>1 DEF CacheFrame, screenVars, grabVars
<1> QED  BY <1>7, <1>8, <1>9, <1>10, <1>11, <1>12, <1>13, <1>14, <1>15, <1>16, <1>17, <1>18, <1>19 DEF Next
-----------------------------------------------------------------------------
(* The cache.  Only a block that is marked, or a value under the pointer,  *)
(* may differ from what the frames give back: an update marks the block of *)
(* all that it writes, and drawing makes its values Shade or more.         *)
LEMMA CacheFirst == Init => CacheRight
  BY DEF Init, CacheRight

LEMMA CacheKept ==
    ASSUME Types, CacheRight, [Next]_vars
    PROVE  CacheRight'
<1> USE DEF Pixels, Samples
<1>1. /\ yuv \in [y : [Pixels -> Nat], u : [Samples -> Nat]]
      /\ loaded \in [y : [Pixels -> Nat], u : [Samples -> Nat]]
      /\ blocks \in [y : SUBSET AllBlocks, u : SUBSET AllBlocks]
      /\ firstrun \in BOOLEAN
  BY DEF Types, TypeOK
<1> HIDE DEF Pixels, Samples
<1>2. CacheRight' <=>
        (~firstrun' =>
           /\ \A p \in Pixels : \/ p \div Y_UNIT_WIDTH \in blocks'.y
                                \/ loaded'.y[p] = yuv'.y[p] \/ yuv'.y[p] >= Shade
           /\ \A c \in Samples : \/ (2*c) \div Y_UNIT_WIDTH \in blocks'.u
                                 \/ loaded'.u[c] = yuv'.u[c] \/ yuv'.u[c] >= Shade)
  BY DEF CacheRight, Pixels, Samples
<1>3. CASE UNCHANGED <<yuv, blocks, loaded, firstrun>>
  BY <1>2, <1>3 DEF CacheRight
<1>4. CASE UpdateImage
  <2>1. firstrun' = firstrun /\ loaded' = loaded
    BY <1>4 DEF UpdateImage, cacheVars
  <2>2. \A p \in Pixels : p \notin list => yuv'.y[p] = yuv.y[p]
    BY <1>1, <1>4 DEF UpdateImage
  <2>3. yuv'.u = yuv.u
    BY <1>1, <1>4 DEF UpdateImage
  <2>4. /\ blocks.y \subseteq blocks'.y /\ blocks.u \subseteq blocks'.u
        /\ \A p \in list : p \div Y_UNIT_WIDTH \in blocks'.y
    BY <1>4 DEF UpdateImage, BlocksOf
  <2> QED  BY <1>2, <2>1, <2>2, <2>3, <2>4 DEF CacheRight
<1>5. CASE rmdUpdateYuvBuffer
  <2>1. firstrun' = firstrun /\ loaded' = loaded
    BY <1>5 DEF rmdUpdateYuvBuffer, cacheVars
  <2>2. \A p \in Pixels : ~Differ(p) => yuv'.y[p] = yuv.y[p]
    BY <1>5 DEF rmdUpdateYuvBuffer
  <2>3. \A c \in Samples : ~SampleDiffers(c) => yuv'.u[c] = yuv.u[c]
    BY <1>5 DEF rmdUpdateYuvBuffer
  <2>4. /\ blocks.y \subseteq blocks'.y /\ blocks.u \subseteq blocks'.u
        /\ \A p \in Pixels : Differ(p) => p \div Y_UNIT_WIDTH \in blocks'.y
        /\ \A c \in Samples : SampleDiffers(c) => (2*c) \div Y_UNIT_WIDTH \in blocks'.u
    BY <1>5 DEF rmdUpdateYuvBuffer, BlocksOf, MarkedSamples
  <2> QED  BY <1>2, <2>1, <2>2, <2>3, <2>4 DEF CacheRight
<1>6. ASSUME NEW q \in Pixels, DrawPixel(q)
      PROVE  CacheRight'
  <2>1. firstrun' = firstrun /\ loaded' = loaded /\ blocks' = blocks
    BY <1>6 DEF DrawPixel, cacheVars
  <2>2. \A v \in Nat : Blend(v) >= Shade
    BY BlendRight
  <2>3. \A p \in Pixels : yuv'.y[p] = yuv.y[p] \/ yuv'.y[p] >= Shade
    BY <1>1, <1>6, <2>2 DEF DrawPixel
  <2>4. \A c \in Samples : yuv'.u[c] = yuv.u[c] \/ yuv'.u[c] >= Shade
    BY <1>1, <1>6, <2>2 DEF DrawPixel
  <2> QED  BY <1>2, <2>1, <2>3, <2>4 DEF CacheRight
<1>7. CASE CacheFrame
  <2>1. yuv' = yuv /\ loaded' = rmdLoadFrame(loaded, Written)
    BY <1>7 DEF CacheFrame
  <2>2. \A p \in Pixels : loaded'.y[p] = yuv'.y[p] \/ yuv'.y[p] >= Shade
    <3> SUFFICES ASSUME NEW p \in Pixels, p \div Y_UNIT_WIDTH \notin Written.y
                 PROVE  loaded.y[p] = yuv.y[p] \/ yuv.y[p] >= Shade
      BY <2>1 DEF rmdLoadFrame
    <3>1. p \div Y_UNIT_WIDTH \in AllBlocks
      BY DEF AllBlocks, BlocksOf
    <3>2. ~firstrun /\ p \div Y_UNIT_WIDTH \notin blocks.y
      BY <3>1 DEF Written
    <3> QED  BY <3>2 DEF CacheRight
  <2>3. \A c \in Samples : loaded'.u[c] = yuv'.u[c] \/ yuv'.u[c] >= Shade
    <3> SUFFICES ASSUME NEW c \in Samples, (2*c) \div Y_UNIT_WIDTH \notin Written.u
                 PROVE  loaded.u[c] = yuv.u[c] \/ yuv.u[c] >= Shade
      BY <2>1 DEF rmdLoadFrame
    <3>1. (2*c) \div Y_UNIT_WIDTH \in AllBlocks
      BY SamplePixels DEF AllBlocks, BlocksOf
    <3>2. ~firstrun /\ (2*c) \div Y_UNIT_WIDTH \notin blocks.u
      BY <3>1 DEF Written
    <3> QED  BY <3>2 DEF CacheRight
  <2> QED  BY <1>2, <2>2, <2>3
<1>8. CASE \/ \E s \in 0..ScreenWidth-1, colour \in Colours : Paint(s, colour)
           \/ Events \/ Skip
           \/ \E cursor_x \in PointerAt : Pointer(cursor_x)
           \/ Fetch \/ Drawn \/ Advance \/ vars' = vars
  <2>1. UNCHANGED <<yuv, blocks, loaded, firstrun>>
    BY <1>8 DEF Paint, Events, Skip, Pointer, Fetch, Drawn, Advance, vars, cacheVars
  <2> QED  BY <1>3, <2>1
<1> QED  BY <1>4, <1>5, <1>6, <1>7, <1>8 DEF Next
-----------------------------------------------------------------------------
(* XDamage.  What an event lists is looked at again; the list holds the    *)
(* pointer's old and its new place before it is drawn.                     *)
LEMMA ArgsStay == [Next]_vars => args' = args
  BY DEF Next, Paint, Events, Skip, Pointer, Fetch, UpdateImage, rmdUpdateYuvBuffer, DrawPixel, Drawn,
         Advance, CacheFrame, vars

LEMMA PaintKeeps ==
    ASSUME NEW s \in 0..ScreenWidth-1, NEW colour \in Colours, Paint(s, colour),
           screen \in [0..ScreenWidth-1 -> Colours], temp_brwin \in 0..ScreenWidth-Width
    PROVE  \A p \in Pixels : \A v : v = screen[temp_brwin + p] \/ temp_brwin + p \in changed
                => v = screen'[temp_brwin' + p] \/ temp_brwin' + p \in changed'
<1>1. temp_brwin' = temp_brwin
  BY DEF Paint, grabVars
<1>2. \A p \in Pixels : temp_brwin + p \in 0..ScreenWidth-1
  BY ShotRight
<1> QED  BY <1>1, <1>2 DEF Paint

LEMMA UpdateRight ==
    ASSUME Types, UpdateImage
    PROVE  \A p \in Pixels : /\ p \in list => yuv'.y[p] = screen[temp_brwin + p] /\ yuv'.y[p] \in Colours
                             /\ p \notin list => yuv'.y[p] = yuv.y[p]
<1>1. /\ yuv \in [y : [Pixels -> Nat], u : [Samples -> Nat]]
      /\ screen \in [0..ScreenWidth-1 -> Colours] /\ temp_brwin \in 0..ScreenWidth-Width
  BY DEF Types, TypeOK
<1>2. \A p \in Pixels : Shot(temp_brwin)[p] = screen[temp_brwin + p] /\ screen[temp_brwin + p] \in Colours
  BY <1>1, ShotRight
<1> HIDE DEF Shot
<1>3. yuv'.y = [p \in Pixels |-> IF p \in list THEN Shot(temp_brwin)[p] ELSE yuv.y[p]]
  BY <1>1 DEF UpdateImage
<1> QED  BY <1>2, <1>3

(* A pixel of the pointer is drawn over the colour that is there.          *)
LEMMA DrawnRight ==
    ASSUME Types, NEW q \in Pixels, DrawPixel(q)
    PROVE  /\ q \in undrawn /\ undrawn' = undrawn \ {q}
           /\ \A p \in Pixels : p # q => yuv'.y[p] = yuv.y[p]
           /\ yuv.y[q] \in Colours => yuv'.y[q] = yuv.y[q] + Shade
<1>1. yuv.y \in [Pixels -> Nat]
  BY DEF Types, TypeOK
<1>2. yuv'.y = [yuv.y EXCEPT ![q] = Blend(@)]
  BY DEF DrawPixel
<1>3. yuv.y[q] \in Colours => Blend(yuv.y[q]) = yuv.y[q] + Shade
  <2>1. \A a \in Colours : a \in Nat /\ a < 2*Shade
    BY ColoursAre
  <2> QED  BY <2>1, BlendRight
<1> QED  BY <1>1, <1>2, <1>3 DEF DrawPixel

LEMMA UnderStays ==
    ASSUME Types, NEW q \in Pixels, DrawPixel(q), pc = "draw", Under(yuv, q, Places) \in Colours
    PROVE  /\ q \notin Places /\ q \in PlaceOf(mouse)
           /\ \A p \in Pixels : Under(yuv', p, Places \cup {q}) = Under(yuv, p, Places)
<1>1. yuv.y \in [Pixels -> Nat] /\ Shade \in Nat /\ undrawn \subseteq PlaceOf(mouse)
  BY ColoursAre DEF Types, TypeOK
<1>2. q \in undrawn /\ \A p \in Pixels : p # q => yuv'.y[p] = yuv.y[p]
  BY DrawnRight
<1>3. q \notin Places /\ q \in PlaceOf(mouse)
  BY <1>1, <1>2 DEF Places
<1>4. ASSUME NEW p \in Pixels, p # q
      PROVE  Under(yuv', p, Places \cup {q}) = Under(yuv, p, Places)
  BY <1>2, <1>4 DEF Under, On
<1>5. Under(yuv', q, Places \cup {q}) = Under(yuv, q, Places)
  <2>1. Under(yuv, q, Places) = yuv.y[q]
    BY <1>1, <1>3 DEF Under, On
  <2>2. yuv'.y[q] = yuv.y[q] + Shade
    BY <2>1, DrawnRight
  <2>3. Under(yuv', q, Places \cup {q}) = yuv'.y[q] - Shade
    BY DEF Under, On
  <2> QED  BY <1>1, <2>1, <2>2, <2>3
<1> QED  BY <1>3, <1>4, <1>5

LEMMA DamageFirst == Init => DamageRight
<1> SUFFICES ASSUME Init PROVE DamageRight
  OBVIOUS
<1>1. screen \in [0..ScreenWidth-1 -> Colours] /\ brwin \in 0..ScreenWidth-Width
  BY PictureAssumption DEF Init
<1>2. PlaceOf(mouse) = {} /\ temp_brwin = brwin /\ pc = "events" /\ Places = {}
  BY NowhereRight DEF Init, Places
<1>3. \A p \in Pixels : yuv.y[p] = screen[temp_brwin + p] /\ screen[temp_brwin + p] \in Colours
  <2>1. yuv.y = Shot(brwin)
    BY DEF Init, Planes
  <2> QED  BY <1>1, <1>2, <2>1, ShotRight
<1>4. \A p \in Pixels : Under(yuv, p, Places) = yuv.y[p]
  <2>1. \A p \in Pixels : yuv.y[p] \in Int
    <3>1. Colours \subseteq Int
      BY ColoursAre
    <3>2. \A p \in Pixels : yuv.y[p] \in Colours
      BY <1>3
    <3> QED  BY <3>1, <3>2
  <2>2. \A p \in Pixels : Under(yuv, p, Places) = yuv.y[p] - 0
    BY <1>2 DEF Under, On
  <2> QED  BY <2>1, <2>2
<1>5. \A p \in Pixels : Under(yuv, p, Places) \in Colours /\ Fresh(Under(yuv, p, Places), p)
  BY <1>3, <1>4 DEF Fresh
<1>6. pc # "update" /\ pc # "fetch"
  BY <1>2
<1> QED  BY <1>2, <1>5, <1>6 DEF DamageRight

LEMMA DamageKept ==
    ASSUME Types, DamageRight, [Next]_vars
    PROVE  DamageRight'
<1> SUFFICES ASSUME ~args.full_shots PROVE DamageRight'
  <2>1. args' = args
    BY ArgsStay
  <2> QED  BY <2>1 DEF DamageRight
<1>1. /\ temp_brwin = brwin /\ pc # "update"
      /\ pc = "fetch" => PlaceOf(mouse) \subseteq list
      /\ \A p \in Pixels : (pc \in {"pointer", "fetch"} /\ p \in list)
                         \/ (Under(yuv, p, Places) \in Colours /\ Fresh(Under(yuv, p, Places), p))
  BY DEF DamageRight
<1>2. /\ yuv.y \in [Pixels -> Nat] /\ Shade \in Nat /\ temp_brwin \in 0..ScreenWidth-Width
      /\ screen \in [0..ScreenWidth-1 -> Colours] /\ args \in Settings
      /\ undrawn \subseteq PlaceOf(mouse) /\ (pc # "draw" => undrawn = {})
  BY ColoursAre DEF Types, TypeOK
<1>3. ~args.follow_mouse
  BY <1>2, PictureAssumption
<1> DEFINE U(p) == yuv'.y[p] - On(p, Places', Shade)
<1>4. ASSUME temp_brwin' = brwin', pc' # "update",
             pc' = "fetch" => PlaceOf(mouse') \subseteq list',
             \A p \in Pixels : \/ pc' \in {"pointer", "fetch"} /\ p \in list'
                               \/ /\ U(p) \in Colours
                                  /\ U(p) = screen'[temp_brwin' + p] \/ temp_brwin' + p \in changed'
      PROVE  DamageRight'
  <2>1. PlaceOf(mouse)' = PlaceOf(mouse') /\ Pixels' = Pixels
    BY DEF PlaceOf, Pixels
  <2>2. \A p \in Pixels : Under(yuv, p, Places)' = U(p)
    BY DEF Under, On
  <2> QED  BY <1>4, <2>1, <2>2 DEF DamageRight, Fresh
<1>5. Places' = IF pc' = "draw" THEN PlaceOf(mouse') \ undrawn' ELSE PlaceOf(mouse')
  BY DEF Places, PlaceOf
<1>6. CASE UNCHANGED <<screen, changed, brwin, temp_brwin, mouse, undrawn, yuv>> /\ UNCHANGED <<pc, list>>
  <2>1. Places' = Places
    BY <1>5, <1>6 DEF Places
  <2>2. \A p \in Pixels : U(p) = Under(yuv, p, Places)
    BY <1>6, <2>1 DEF Under
  <2> QED  BY <1>1, <1>4, <1>6, <2>2 DEF Fresh
<1>7. ASSUME NEW s \in 0..ScreenWidth-1, NEW colour \in Colours, Paint(s, colour)
      PROVE  DamageRight'
  <2>1. UNCHANGED <<brwin, temp_brwin, mouse, undrawn, yuv, pc, list>>
    BY <1>7 DEF Paint, grabVars
  <2>2. Places' = Places
    BY <1>5, <2>1 DEF Places
  <2>3. \A p \in Pixels : U(p) = Under(yuv, p, Places)
    BY <2>1, <2>2 DEF Under
  <2>4. \A p \in Pixels : Fresh(U(p), p) => U(p) = screen'[temp_brwin' + p] \/ temp_brwin' + p \in changed'
    BY <1>2, <1>7, PaintKeeps DEF Fresh
  <2> HIDE DEF U
  <2> QED  BY <1>1, <1>4, <2>1, <2>3, <2>4
<1>8. CASE Events
  <2>1. /\ pc = "events" /\ pc' = "pointer" /\ temp_brwin' = brwin /\ changed' = {}
        /\ list' = { p \in Pixels : brwin + p \in changed }
        /\ UNCHANGED <<screen, brwin, mouse, undrawn, yuv>>
    BY <1>8 DEF Events
  <2>2. Places' = Places
    BY <1>5, <2>1 DEF Places
  <2>3. \A p \in Pixels : U(p) = Under(yuv, p, Places)
    BY <2>1, <2>2 DEF Under
  <2>4. \A p \in Pixels : p \in list' \/ (U(p) \in Colours /\ U(p) = screen'[temp_brwin' + p])
    BY <1>1, <2>1, <2>3 DEF Fresh
  <2> HIDE DEF U
  <2> QED  BY <1>1, <1>4, <2>1, <2>4
<1>9. ASSUME NEW cursor_x \in PointerAt, Pointer(cursor_x)
      PROVE  DamageRight'
  <2>1. /\ pc = "pointer" /\ pc' = "fetch" /\ brwin' = brwin
        /\ list' = list \cup PlaceOf(mouse) \cup PlaceOf(mouse')
        /\ UNCHANGED <<screen, changed, temp_brwin, yuv>>
    BY <1>3, <1>9 DEF Pointer, Dirty, screenVars
  <2>2. Places = PlaceOf(mouse) /\ Places' = PlaceOf(mouse')
    BY <1>5, <2>1 DEF Places
  <2>3. \A p \in Pixels : p \in list' \/ U(p) = Under(yuv, p, Places)
    BY <2>1, <2>2 DEF Under, On
  <2> HIDE DEF U
  <2> QED  BY <1>1, <1>4, <2>1, <2>3 DEF Fresh
<1>10. CASE UpdateImage
  <2>1. /\ pc = "fetch" /\ pc' = "draw" /\ undrawn' = PlaceOf(mouse)
        /\ UNCHANGED <<screen, changed, brwin, temp_brwin, mouse, list>>
    BY <1>10 DEF UpdateImage, screenVars
  <2>2. Places = PlaceOf(mouse) /\ Places' = {}
    BY <1>5, <2>1 DEF Places
  <2>3. \A p \in Pixels : U(p) = yuv'.y[p]
    <3>1. \A p \in Pixels : yuv'.y[p] \in Nat
      BY TypesKept DEF Types, TypeOK, Pixels, Samples
    <3> QED  BY <2>2, <3>1, <1>2 DEF On
  <2> HIDE DEF U
  <2>4. ASSUME NEW p \in Pixels
        PROVE  U(p) \in Colours /\ (U(p) = screen'[temp_brwin' + p] \/ temp_brwin' + p \in changed')
    <3>1. CASE p \in list
      BY <1>10, <2>1, <2>3, <3>1, UpdateRight
    <3>2. CASE p \notin list
      <4>1. yuv'.y[p] = yuv.y[p] /\ Under(yuv, p, Places) = yuv.y[p]
        BY <1>1, <1>2, <1>10, <2>1, <2>2, <3>2, UpdateRight DEF Under, On
      <4> QED  BY <1>1, <2>1, <2>3, <3>2, <4>1 DEF Fresh
    <3> QED  BY <3>1, <3>2
  <2> QED  BY <1>1, <1>4, <2>1, <2>4
<1>11. ASSUME NEW q \in Pixels, DrawPixel(q)
       PROVE  DamageRight'
  <2>1. /\ pc = "draw" /\ pc' = "draw" /\ UNCHANGED <<screen, changed, brwin, temp_brwin, mouse, list>>
    BY <1>11 DEF DrawPixel, screenVars
  <2>2. q \in undrawn /\ undrawn' = undrawn \ {q} /\ \A p \in Pixels : p # q => yuv'.y[p] = yuv.y[p]
    BY <1>11, DrawnRight
  <2>3. Places = PlaceOf(mouse) \ undrawn /\ Places' = Places \cup {q}
    BY <1>2, <1>5, <2>1, <2>2 DEF Places
  <2>4. \A p \in Pixels : U(p) = Under(yuv, p, Places)
    <3>1. Under(yuv, q, Places) \in Colours
      BY <1>1, <2>1
    <3> QED  BY <1>11, <2>1, <2>3, <3>1, UnderStays DEF Under
  <2> HIDE DEF U
  <2> QED  BY <1>1, <1>4, <2>1, <2>4 DEF Fresh
<1>12. CASE Drawn \/ Skip \/ Advance
  <2>1. /\ UNCHANGED <<screen, changed, brwin, temp_brwin, mouse, undrawn, yuv>>
        /\ pc' \in {"advance", "events"} /\ pc \in {"draw", "events", "advance"}
        /\ pc = "draw" => undrawn = {}
    BY <1>12 DEF Drawn, Skip, Advance, screenVars
  <2>2. Places = PlaceOf(mouse) /\ Places' = Places
    BY <1>5, <2>1 DEF Places
  <2>3. \A p \in Pixels : U(p) = Under(yuv, p, Places)
    BY <2>1, <2>2 DEF Under
  <2> HIDE DEF U
  <2> QED  BY <1>1, <1>4, <2>1, <2>3 DEF Fresh
<1>13. ~Fetch /\ ~rmdUpdateYuvBuffer
  BY <1>1 DEF Fetch, rmdUpdateYuvBuffer
<1>14. CASE CacheFrame \/ vars' = vars
  BY <1>6, <1>14 DEF CacheFrame, vars, screenVars, grabVars
<1> QED  BY <1>7, <1>8, <1>9, <1>10, <1>11, <1>12, <1>13, <1>14 DEF Next
-----------------------------------------------------------------------------
(* Full shots.  Where the shots do not differ there is no mark, so neither *)
(* the pointer that was drawn nor the one to draw: what a turn updates is  *)
(* all that the pointer or the screen changed, and nothing is left of the  *)
(* pointer.                                                                *)
LEMMA AlikeUnmarked ==
    ASSUME Types, NEW m, ToCompare(m), NEW p \in Pixels, shots[img_sel][p] \in Colours, ~Differ(p)
    PROVE  /\ p \notin PlaceOf(m)
           /\ yuv.y[p] = shots[img_sel][p]
<1>1. yuv.y[p] \in Nat /\ Shade \in Nat /\ Colours \subseteq Nat
  BY ColoursAre DEF Types, TypeOK
<1> DEFINE back == Under(yuv, p, PlaceOf(m))
           n == On(p, PlaceOf(m), 1) + On(p, PlaceOf(mouse), 1)
<1>2. back \in Colours /\ n \in 0..2
  BY DEF ToCompare, PlanesWith, On
<1>3. shots[img_sel][p] = back + n
  <2>1. shots[img_sel][p] = shots[Back][p]
    BY DEF Differ
  <2>2. shots[Back][p] = back + On(p, PlaceOf(m), 1) + On(p, PlaceOf(mouse), 1)
    BY DEF ToCompare
  <2>3. On(p, PlaceOf(m), 1) \in Int /\ On(p, PlaceOf(mouse), 1) \in Int
    BY DEF On
  <2> HIDE DEF back
  <2> QED  BY <1>1, <1>2, <2>1, <2>2, <2>3
<1>4. n = 0
  <2> HIDE DEF n, back
  <2> QED  BY <1>2, <1>3, ColoursAre
<1>5. p \notin PlaceOf(m)
  BY <1>4 DEF On
<1>6. back = yuv.y[p]
  BY <1>1, <1>5 DEF Under, On
<1> HIDE DEF back, n
<1> QED  BY <1>1, <1>2, <1>3, <1>4, <1>5, <1>6

(* Nor is there any in the chroma, where both pixels of a sample are       *)
(* compared, or there is no pointer.                                       *)
LEMMA SampleUnmarked ==
    ASSUME Types, NEW m, ToCompare(m), args.no_quick_subsample \/ args.cursor = "none",
           \A p \in Pixels : shots[img_sel][p] \in Colours,
           NEW c \in Samples, ~SampleDiffers(c)
    PROVE  yuv.u[c] = Sample(shots[img_sel], c)
<1>1. c \in Nat /\ 2*c \in Pixels /\ 2*c + 1 \in Pixels
  BY SamplePixels
<1>2. IsMouse(m) /\ yuv.u[c] \in Nat
  BY DEF ToCompare, Types, TypeOK
<1>3. ~Differ(2*c) /\ (args.no_quick_subsample => ~Differ(2*c + 1))
  BY DEF SampleDiffers
<1>4. 2*c \notin PlaceOf(m) /\ yuv.y[2*c] = shots[img_sel][2*c]
  BY <1>1, <1>3, AlikeUnmarked
<1>5. args.no_quick_subsample => 2*c + 1 \notin PlaceOf(m) /\ yuv.y[2*c + 1] = shots[img_sel][2*c + 1]
  BY <1>1, <1>3, AlikeUnmarked
<1>6. c \notin SamplesIn(m, PlaceOf(m))
  <2> SUFFICES ASSUME NEW p \in PlaceOf(m), c = SampleAt(m, p)
               PROVE  FALSE
    BY DEF SamplesIn
  <2>1. ~args.no_quick_subsample => PlaceOf(m) = {}
    BY <1>2 DEF IsMouse
  <2>2. 2*c \in PlaceOf(m) \/ 2*c + 1 \in PlaceOf(m)
    BY <1>2, SampleAtRight
  <2> QED  BY <1>4, <1>5, <2>1, <2>2
<1>7. UnderSample(yuv, c, SamplesIn(m, PlaceOf(m))) = yuv.u[c]
  BY <1>2, <1>6 DEF UnderSample, On
<1>8. Under(yuv, 2*c, PlaceOf(m)) = shots[img_sel][2*c]
  <2>1. yuv.y[2*c] \in Nat
    BY <1>1 DEF Types, TypeOK
  <2> QED  BY <1>4, <2>1 DEF Under, On
<1>9. args.no_quick_subsample => Under(yuv, 2*c + 1, PlaceOf(m)) = shots[img_sel][2*c + 1]
  <2>1. yuv.y[2*c + 1] \in Nat
    BY <1>1 DEF Types, TypeOK
  <2> QED  BY <1>5, <2>1 DEF Under, On
<1>10. UnderSample(yuv, c, SamplesIn(m, PlaceOf(m)))
           = IF args.no_quick_subsample
             THEN Under(yuv, 2*c, PlaceOf(m)) + Under(yuv, 2*c + 1, PlaceOf(m))
             ELSE Under(yuv, 2*c, PlaceOf(m))
  BY DEF ToCompare, PlanesWith
<1> QED  BY <1>7, <1>8, <1>9, <1>10 DEF Sample

LEMMA ComparedRight ==
    ASSUME Types, rmdUpdateYuvBuffer, NEW m, ToCompare(m),
           \A p \in Pixels : shots[img_sel][p] \in Colours
    PROVE  PlanesWith(yuv', mouse, {}) /\ ShotHas(yuv', shots[img_sel], {}, {})
<1> DEFINE front == shots[img_sel]
<1>1. \A p \in Pixels : yuv'.y[p] = front[p]
  <2>1. \A p \in Pixels : yuv'.y[p] = IF Differ(p) THEN front[p] ELSE yuv.y[p]
    BY DEF rmdUpdateYuvBuffer
  <2> QED  BY <2>1, AlikeUnmarked
<1>2. \A p \in Pixels : front[p] \in Nat /\ front[p] \in Colours
  BY ColoursAre
<1>3. \A p \in Pixels : Under(yuv', p, {}) = front[p]
  BY <1>1, <1>2 DEF Under, On
<1>4. ASSUME args.no_quick_subsample \/ args.cursor = "none", NEW c \in Samples
      PROVE  UnderSample(yuv', c, SamplesIn(mouse, {}))
                 = IF args.no_quick_subsample THEN Under(yuv', 2*c, {}) + Under(yuv', 2*c + 1, {})
                                              ELSE Under(yuv', 2*c, {})
  <2>1. yuv'.u[c] = IF SampleDiffers(c) THEN Sample(front, c) ELSE yuv.u[c]
    BY DEF rmdUpdateYuvBuffer
  <2>2. yuv'.u[c] = Sample(front, c)
    BY <1>4, <2>1, SampleUnmarked
  <2>3. 2*c \in Pixels /\ 2*c + 1 \in Pixels
    BY SamplePixels
  <2>4. Sample(front, c) = IF args.no_quick_subsample THEN Under(yuv', 2*c, {}) + Under(yuv', 2*c + 1, {})
                                                      ELSE Under(yuv', 2*c, {})
    BY <1>3, <2>3 DEF Sample
  <2>5. Sample(front, c) \in Nat
    <3>1. front[2*c] \in Nat /\ front[2*c + 1] \in Nat
      BY <1>2, <2>3
    <3> QED  BY <3>1 DEF Sample
  <2>6. UnderSample(yuv', c, SamplesIn(mouse, {})) = yuv'.u[c]
    BY <2>2, <2>5 DEF UnderSample, SamplesIn, On
  <2> QED  BY <2>2, <2>4, <2>6
<1>5. PlanesWith(yuv', mouse, {})
  BY <1>2, <1>3, <1>4 DEF PlanesWith
<1>6. ShotHas(yuv', front, {}, {})
  <2>1. \A p \in Pixels : Under(yuv', p, {}) + On(p, {}, 1) = front[p]
    BY <1>2, <1>3 DEF On
  <2> QED  BY <2>1 DEF ShotHas
<1> QED  BY <1>5, <1>6

(* A pixel of the pointer blends into the sample that no other blends into.*)
LEMMA BlendedRight ==
    ASSUME Types, args.full_shots, pc = "draw", PlanesWith(yuv, mouse, Places),
           NEW q \in Pixels, DrawPixel(q)
    PROVE  PlanesWith(yuv', mouse, Places \cup {q})
<1>1. \A p \in Pixels : Under(yuv, p, Places) \in Colours
  BY DEF PlanesWith
<1>2. /\ q \notin Places /\ q \in PlaceOf(mouse)
      /\ \A p \in Pixels : Under(yuv', p, Places \cup {q}) = Under(yuv, p, Places)
  BY <1>1, UnderStays
<1>3. IsMouse(mouse) /\ yuv.u \in [Samples -> Nat] /\ mouse \in [x : Nat, width : Nat, offset : Nat]
  BY DEF Types, TypeOK, IsMouse
<1> DEFINE c == SampleAt(mouse, q)
<1>4. yuv'.u = IF OddColumn(mouse, q) THEN [yuv.u EXCEPT ![c] = Blend(@)] ELSE yuv.u
  <2>1. q \in Int /\ mouse.x \in Int /\ mouse.offset \in Int
    BY <1>3, PictureAssumption DEF Pixels
  <2> DEFINE i == q - mouse.x + mouse.offset
             s == mouse.x \div 2 + (i - mouse.offset) \div 2
  <2>2. i - mouse.offset = q - mouse.x
    BY <2>1
  <2>3. s = c
    BY <2>2 DEF SampleAt
  <2>4. yuv'.u = IF args.full_shots /\ Odd(i) THEN [yuv.u EXCEPT ![s] = Blend(@)] ELSE yuv.u
    BY DEF DrawPixel
  <2>5. Odd(i) <=> OddColumn(mouse, q)
    BY DEF OddColumn
  <2> HIDE DEF i, s, c
  <2> QED  BY <2>3, <2>4, <2>5
<1>5. c \in Samples
  BY <1>2, <1>3, SampleAtRight
<1>6. ~OddColumn(mouse, q) => SamplesIn(mouse, Places \cup {q}) = SamplesIn(mouse, Places)
  BY DEF SamplesIn
<1>7. OddColumn(mouse, q) => /\ SamplesIn(mouse, Places \cup {q}) = SamplesIn(mouse, Places) \cup {c}
                             /\ c \notin SamplesIn(mouse, Places)
  <2> SUFFICES ASSUME OddColumn(mouse, q)
               PROVE  /\ SamplesIn(mouse, Places \cup {q}) = SamplesIn(mouse, Places) \cup {c}
                      /\ c \notin SamplesIn(mouse, Places)
    OBVIOUS
  <2>1. SamplesIn(mouse, Places \cup {q}) = SamplesIn(mouse, Places) \cup {c}
    BY DEF SamplesIn
  <2>2. ASSUME NEW p \in Places, OddColumn(mouse, p), SampleAt(mouse, p) = c
        PROVE  FALSE
    <3>1. p \in PlaceOf(mouse)
      BY DEF Places
    <3>2. p = q
      BY <1>2, <1>3, <2>2, <3>1, SamplesApart
    <3> QED  BY <1>2, <3>2
  <2>3. c \notin SamplesIn(mouse, Places)
    BY <2>2 DEF SamplesIn
  <2> QED  BY <2>1, <2>3
<1> HIDE DEF c
<1>8. ASSUME args.no_quick_subsample \/ args.cursor = "none", NEW d \in Samples
      PROVE  UnderSample(yuv', d, SamplesIn(mouse, Places \cup {q})) = UnderSample(yuv, d, SamplesIn(mouse, Places))
  <2>1. CASE ~(OddColumn(mouse, q) /\ d = c)
    <3>1. yuv'.u[d] = yuv.u[d]
      BY <1>3, <1>4, <2>1
    <3>2. d \in SamplesIn(mouse, Places \cup {q}) <=> d \in SamplesIn(mouse, Places)
      BY <1>6, <1>7, <2>1
    <3> QED  BY <3>1, <3>2 DEF UnderSample, On
  <2>2. CASE OddColumn(mouse, q) /\ d = c
    <3>1. UnderSample(yuv, c, SamplesIn(mouse, Places)) = yuv.u[c] /\ yuv.u[c] \in Nat
      BY <1>3, <1>5, <1>7, <2>2 DEF UnderSample, On
    <3>2. args.no_quick_subsample
      BY <1>2, <1>3, <1>8 DEF IsMouse
    <3>3. yuv.u[c] = Under(yuv, 2*c, Places) + Under(yuv, 2*c + 1, Places)
      BY <1>5, <3>1, <3>2 DEF PlanesWith
    <3>4. yuv.u[c] < Shade
      <4>1. Under(yuv, 2*c, Places) \in Colours /\ Under(yuv, 2*c + 1, Places) \in Colours
        BY <1>1, <1>5, SamplePixels
      <4>2. Under(yuv, 2*c, Places) + Under(yuv, 2*c + 1, Places) < Shade
        BY <4>1, ColoursAre
      <4> QED  BY <3>3, <4>2
    <3>5. Blend(yuv.u[c]) = yuv.u[c] + Shade /\ Shade \in Nat
      <4>1. yuv.u[c] < 2*Shade /\ Shade \in Nat
        BY <3>1, <3>4, ColoursAre
      <4> QED  BY <3>1, <4>1, BlendRight
    <3>6. yuv'.u[c] = yuv.u[c] + Shade
      BY <1>3, <1>4, <1>5, <2>2, <3>5
    <3>7. UnderSample(yuv', c, SamplesIn(mouse, Places \cup {q})) = yuv'.u[c] - Shade
      BY <1>7, <2>2 DEF UnderSample, On
    <3>8. yuv'.u[c] - Shade = yuv.u[c]
      BY <3>1, <3>5, <3>6
    <3> QED  BY <2>2, <3>1, <3>7, <3>8
  <2> QED  BY <2>1, <2>2
<1>9. \A d \in Samples : 2*d \in Pixels /\ 2*d + 1 \in Pixels
  BY SamplePixels
<1>10. \A p \in Pixels : Under(yuv', p, Places \cup {q}) \in Colours
  BY <1>1, <1>2
<1>11. ASSUME args.no_quick_subsample \/ args.cursor = "none", NEW d \in Samples
       PROVE  UnderSample(yuv', d, SamplesIn(mouse, Places \cup {q}))
                = IF args.no_quick_subsample
                  THEN Under(yuv', 2*d, Places \cup {q}) + Under(yuv', 2*d + 1, Places \cup {q})
                  ELSE Under(yuv', 2*d, Places \cup {q})
  <2>1. UnderSample(yuv, d, SamplesIn(mouse, Places))
            = IF args.no_quick_subsample THEN Under(yuv, 2*d, Places) + Under(yuv, 2*d + 1, Places)
                                         ELSE Under(yuv, 2*d, Places)
    BY <1>11 DEF PlanesWith
  <2> QED  BY <1>2, <1>8, <1>9, <1>11, <2>1
<1> QED  BY <1>10, <1>11 DEF PlanesWith

LEMMA ShotsFirst == Init => ShotsRight
<1> SUFFICES ASSUME Init, args.full_shots PROVE ShotsRight
  BY DEF ShotsRight
<1>1. screen \in [0..ScreenWidth-1 -> Colours] /\ brwin \in 0..ScreenWidth-Width
  BY PictureAssumption DEF Init
<1>2. PlaceOf(mouse) = {} /\ temp_brwin = brwin /\ pc = "events" /\ img_sel = 1
  BY NowhereRight DEF Init
<1>3. \A p \in Pixels : Shot(brwin)[p] = screen[brwin + p] /\ Shot(brwin)[p] \in Colours
  BY <1>1, ShotRight
<1>4. shots[img_sel] = Shot(brwin)
  <2>1. PICK c \in Colours :
          shots = [i \in {0, 1} |-> IF i = 0 /\ args.full_shots THEN [p \in Pixels |-> c] ELSE Shot(brwin)]
    BY DEF Init
  <2> QED  BY <1>2, <2>1
<1>5. yuv.y = Shot(brwin) /\ yuv.u = [c \in Samples |-> Sample(Shot(brwin), c)]
  BY DEF Init, Planes
<1> DEFINE row == Shot(brwin)
<1> HIDE DEF row
<1>6. \A p \in Pixels : row[p] \in Int
  <2>1. Colours \subseteq Int
    BY ColoursAre
  <2> QED  BY <1>3, <2>1 DEF row
<1>7. \A p \in Pixels : Under(yuv, p, {}) = row[p] /\ Under(yuv, p, {}) + On(p, {}, 1) = row[p]
  BY <1>5, <1>6 DEF Under, On, row
<1>8. ShotHas(yuv, shots[img_sel], {}, {})
  BY <1>4, <1>7 DEF ShotHas, row
<1>9. ASSUME NEW c \in Samples
      PROVE  UnderSample(yuv, c, SamplesIn(mouse, {}))
                 = IF args.no_quick_subsample THEN Under(yuv, 2*c, {}) + Under(yuv, 2*c + 1, {})
                                              ELSE Under(yuv, 2*c, {})
  <2>1. 2*c \in Pixels /\ 2*c + 1 \in Pixels
    BY SamplePixels
  <2>2. yuv.u[c] = IF args.no_quick_subsample THEN row[2*c] + row[2*c + 1] ELSE row[2*c]
    BY <1>5 DEF Sample, row
  <2>3. row[2*c] \in Int /\ row[2*c + 1] \in Int
    BY <1>6, <2>1
  <2>4. yuv.u[c] \in Int
    BY <2>2, <2>3
  <2>5. UnderSample(yuv, c, SamplesIn(mouse, {})) = yuv.u[c]
    BY <2>4 DEF UnderSample, SamplesIn, On
  <2> QED  BY <1>7, <2>1, <2>2, <2>5
<1>10. \A p \in Pixels : Under(yuv, p, {}) \in Colours
  BY <1>3, <1>7 DEF row
<1>11. PlanesWith(yuv, mouse, {})
  BY <1>9, <1>10 DEF PlanesWith
<1>12. \A p \in Pixels : Fresh(Under(yuv, p, {}), p)
  BY <1>2, <1>3, <1>7 DEF Fresh, row
<1>13. LastTurn
  BY <1>2, <1>8, <1>11 DEF LastTurn
<1>14. pc \notin {"fetch", "update", "draw"}
  BY <1>2
<1> QED  BY <1>2, <1>12, <1>13, <1>14 DEF ShotsRight

LEMMA ShotsKept ==
    ASSUME Types, ShotsRight, [Next]_vars
    PROVE  ShotsRight'
<1>a. args' = args
  BY ArgsStay
<1> SUFFICES ASSUME args.full_shots, ~args.noshared PROVE ShotsRight'
  BY <1>a DEF ShotsRight
<1>1. /\ pc \in {"events", "pointer", "advance"} => LastTurn
      /\ pc \in {"events", "advance"} => \A p \in Pixels : Fresh(Under(yuv, p, PlaceOf(mouse)), p)
      /\ pc \in {"fetch", "update"} => \E m \in [x : Nat, width : Nat, offset : Nat] : ToCompare(m)
      /\ pc \in {"update", "draw"} =>
             \A p \in Pixels : shots[img_sel][p] \in Colours /\ Fresh(shots[img_sel][p], p)
      /\ pc = "draw" => /\ PlanesWith(yuv, mouse, Places)
                        /\ ShotHas(yuv, shots[img_sel], Places, {})
  BY DEF ShotsRight
<1>2. /\ yuv \in [y : [Pixels -> Nat], u : [Samples -> Nat]] /\ Shade \in Nat
      /\ temp_brwin \in 0..ScreenWidth-Width
      /\ screen \in [0..ScreenWidth-1 -> Colours] /\ IsMouse(mouse)
      /\ undrawn \subseteq PlaceOf(mouse) /\ (pc # "draw" => undrawn = {})
      /\ shots \in [{0, 1} -> [Pixels -> Nat]] /\ img_sel \in {0, 1}
      /\ pc \in {"events", "pointer", "fetch", "update", "draw", "advance"}
  BY ColoursAre DEF Types, TypeOK
<1>3. Back \in {0, 1} /\ Back # img_sel /\ 1 - Back = img_sel
  BY <1>2 DEF Back
<1> DEFINE FreshNow(v, p) == v = screen'[temp_brwin' + p] \/ temp_brwin' + p \in changed'
           Last == /\ PlanesWith(yuv', mouse', PlaceOf(mouse'))
                   /\ ShotHas(yuv', shots'[IF pc' = "pointer" THEN 1 - img_sel' ELSE img_sel'],
                              PlaceOf(mouse'), PlaceOf(mouse'))
           Compare(m) == /\ IsMouse(m) /\ PlanesWith(yuv', m, PlaceOf(m))
                         /\ \A p \in Pixels :
                                shots'[1 - img_sel'][p]
                                  = Under(yuv', p, PlaceOf(m)) + On(p, PlaceOf(m), 1) + On(p, PlaceOf(mouse'), 1)
(* Each part of the invariant, in the next state.                          *)
<1>4. PlanesWith(yuv, mouse, PlaceOf(mouse))' <=> PlanesWith(yuv', mouse', PlaceOf(mouse'))
  BY <1>a DEF PlanesWith, Under, UnderSample, SamplesIn, SampleAt, OddColumn, Odd, PlaceOf, On, Pixels, Samples
<1>5. PlanesWith(yuv, mouse, Places)' <=> PlanesWith(yuv', mouse', Places')
  BY <1>a DEF PlanesWith, Under, UnderSample, SamplesIn, SampleAt, OddColumn, Odd, On, Pixels, Samples
<1>6. Last => LastTurn'
  <2>1. ShotHas(yuv, shots[IF pc = "pointer" THEN Back ELSE img_sel], PlaceOf(mouse), PlaceOf(mouse))'
          <=> ShotHas(yuv', shots'[IF pc' = "pointer" THEN 1 - img_sel' ELSE img_sel'],
                      PlaceOf(mouse'), PlaceOf(mouse'))
    BY DEF ShotHas, Under, On, PlaceOf, Pixels, Back
  <2> QED  BY <1>4, <2>1 DEF LastTurn
<1>7. ASSUME NEW m \in [x : Nat, width : Nat, offset : Nat], Compare(m)
      PROVE  ToCompare(m)'
  <2>1. IsMouse(m)'
    BY <1>a, <1>7 DEF IsMouse, PlaceOf, Pixels
  <2>2. PlanesWith(yuv, m, PlaceOf(m))'
    BY <1>a, <1>7 DEF PlanesWith, Under, UnderSample, SamplesIn, SampleAt, OddColumn, Odd, PlaceOf, On, Pixels, Samples
  <2>3. (\A p \in Pixels : shots[Back][p] = Under(yuv, p, PlaceOf(m)) + On(p, PlaceOf(m), 1)
                                              + On(p, PlaceOf(mouse), 1))'
    BY <1>7 DEF Under, On, PlaceOf, Pixels, Back
  <2> QED  BY <2>1, <2>2, <2>3 DEF ToCompare
<1>8. ASSUME pc' \in {"events", "pointer", "advance"} => Last,
             pc' \in {"events", "advance"} => \A p \in Pixels : FreshNow(Under(yuv', p, PlaceOf(mouse')), p),
             pc' \in {"fetch", "update"} => \E m \in [x : Nat, width : Nat, offset : Nat] : Compare(m),
             pc' \in {"update", "draw"} =>
                 \A p \in Pixels : shots'[img_sel'][p] \in Colours /\ FreshNow(shots'[img_sel'][p], p),
             pc' = "draw" => PlanesWith(yuv', mouse', Places') /\ ShotHas(yuv', shots'[img_sel'], Places', {})
      PROVE  ShotsRight'
  <2>1. (pc \in {"events", "pointer", "advance"} => LastTurn)'
    BY <1>6, <1>8
  <2>2. (pc \in {"events", "advance"} => \A p \in Pixels : Fresh(Under(yuv, p, PlaceOf(mouse)), p))'
    BY <1>8 DEF Fresh, Under, On, PlaceOf, Pixels
  <2>3. (pc \in {"fetch", "update"} => \E m \in [x : Nat, width : Nat, offset : Nat] : ToCompare(m))'
    BY <1>7, <1>8
  <2>4. (pc \in {"update", "draw"} =>
             \A p \in Pixels : shots[img_sel][p] \in Colours /\ Fresh(shots[img_sel][p], p))'
    BY <1>8 DEF Fresh, Pixels
  <2>5. (pc = "draw" => PlanesWith(yuv, mouse, Places) /\ ShotHas(yuv, shots[img_sel], Places, {}))'
    <3>1. ShotHas(yuv, shots[img_sel], Places, {})' <=> ShotHas(yuv', shots'[img_sel'], Places', {})
      BY DEF ShotHas, Under, On, Pixels
    <3> QED  BY <1>5, <1>8, <3>1
  <2> QED  BY <2>1, <2>2, <2>3, <2>4, <2>5 DEF ShotsRight
<1>9. Places' = IF pc' = "draw" THEN PlaceOf(mouse') \ undrawn' ELSE PlaceOf(mouse')
  BY DEF Places, PlaceOf
<1>10. ASSUME UNCHANGED <<yuv, mouse, shots, img_sel, undrawn, pc>>,
              \A p \in Pixels : \A v : Fresh(v, p) => FreshNow(v, p)
       PROVE  ShotsRight'
  <2>1. Places' = Places
    BY <1>9, <1>10 DEF Places
  <2>2. pc' \in {"events", "pointer", "advance"} => Last
    BY <1>1, <1>10 DEF LastTurn, Back
  <2>3. pc' \in {"fetch", "update"} => \E m \in [x : Nat, width : Nat, offset : Nat] : Compare(m)
    BY <1>1, <1>10 DEF ToCompare, Back
  <2>4. pc' \in {"events", "advance"} => \A p \in Pixels : FreshNow(Under(yuv', p, PlaceOf(mouse')), p)
    BY <1>1, <1>10
  <2>5. pc' \in {"update", "draw"} =>
            \A p \in Pixels : shots'[img_sel'][p] \in Colours /\ FreshNow(shots'[img_sel'][p], p)
    BY <1>1, <1>10
  <2>6. pc' = "draw" => PlanesWith(yuv', mouse', Places') /\ ShotHas(yuv', shots'[img_sel'], Places', {})
    BY <1>1, <1>10, <2>1
  <2> HIDE DEF Last, Compare, FreshNow
  <2> QED  BY <1>8, <2>2, <2>3, <2>4, <2>5, <2>6
<1>11. ASSUME UNCHANGED <<screen, changed, temp_brwin>>
       PROVE  \A p \in Pixels : \A v : Fresh(v, p) <=> FreshNow(v, p)
  BY <1>11 DEF Fresh
<1>12. ASSUME NEW s \in 0..ScreenWidth-1, NEW colour \in Colours, Paint(s, colour)
       PROVE  ShotsRight'
  <2>1. UNCHANGED <<yuv, mouse, shots, img_sel, undrawn, pc>>
    BY <1>12 DEF Paint, grabVars
  <2>2. \A p \in Pixels : \A v : Fresh(v, p) => FreshNow(v, p)
    BY <1>2, <1>12, PaintKeeps DEF Fresh
  <2> HIDE DEF FreshNow
  <2> QED  BY <1>10, <2>1, <2>2
<1>13. CASE CacheFrame \/ vars' = vars
  <2>1. UNCHANGED <<yuv, mouse, shots, img_sel, undrawn, pc>> /\ UNCHANGED <<screen, changed, temp_brwin>>
    BY <1>13 DEF CacheFrame, vars, screenVars, grabVars
  <2> HIDE DEF FreshNow
  <2> QED  BY <1>10, <1>11, <2>1
<1>14. CASE Skip \/ Advance
  <2>1. /\ UNCHANGED <<yuv, mouse, shots, img_sel>> /\ UNCHANGED <<screen, changed, temp_brwin>>
        /\ pc \in {"events", "advance"} /\ pc' \in {"events", "advance"}
    BY <1>14 DEF Skip, Advance, screenVars
  <2>2. Last
    BY <1>1, <2>1 DEF LastTurn
  <2>3. \A p \in Pixels : FreshNow(Under(yuv', p, PlaceOf(mouse')), p)
    <3>1. \A p \in Pixels : Fresh(Under(yuv, p, PlaceOf(mouse)), p)
      BY <1>1, <2>1
    <3> HIDE DEF FreshNow
    <3> QED  BY <1>11, <2>1, <3>1
  <2> HIDE DEF Last, Compare, FreshNow
  <2> QED  BY <1>8, <2>1, <2>2, <2>3
<1>15. CASE Events
  <2>1. /\ UNCHANGED <<yuv, mouse, shots>> /\ img_sel' = 1 - img_sel
        /\ pc = "events" /\ pc' = "pointer"
    BY <1>15 DEF Events, Back
  <2>2. 1 - img_sel' = img_sel
    BY <1>2, <2>1
  <2>3. Last
    BY <1>1, <2>1, <2>2 DEF LastTurn
  <2> HIDE DEF Last, Compare, FreshNow
  <2> QED  BY <1>8, <2>1, <2>3
<1>16. ASSUME NEW cursor_x \in PointerAt, Pointer(cursor_x)
       PROVE  ShotsRight'
  <2>1. /\ pc = "pointer" /\ pc' = "fetch" /\ UNCHANGED <<yuv, img_sel>>
        /\ shots' = [shots EXCEPT ![Back] = Marked(shots[Back], mouse')]
    BY <1>16 DEF Pointer
  <2>2. shots[Back] \in [Pixels -> Nat] /\ shots'[1 - img_sel'] = Marked(shots[Back], mouse')
    BY <1>2, <1>3, <2>1 DEF Back
  <2>3. \A p \in Pixels : shots'[1 - img_sel'][p] = shots[Back][p] + On(p, PlaceOf(mouse'), 1)
    BY <2>2, MarkedRight
  <2>4. \A p \in Pixels : shots[Back][p] = Under(yuv, p, PlaceOf(mouse)) + On(p, PlaceOf(mouse), 1)
    BY <1>1, <2>1 DEF LastTurn, ShotHas
  <2>5. \A p \in Pixels : shots'[1 - img_sel'][p] = Under(yuv', p, PlaceOf(mouse)) + On(p, PlaceOf(mouse), 1)
                                                      + On(p, PlaceOf(mouse'), 1)
    BY <2>1, <2>3, <2>4
  <2>6. Compare(mouse)
    BY <1>1, <1>2, <2>1, <2>5 DEF LastTurn
  <2>7. mouse \in [x : Nat, width : Nat, offset : Nat]
    BY <1>2 DEF IsMouse
  <2> HIDE DEF Last, Compare, FreshNow
  <2> QED  BY <1>8, <2>1, <2>6, <2>7
<1>17. CASE Fetch
  <2>1. /\ pc = "fetch" /\ pc' = "update" /\ UNCHANGED <<yuv, mouse, img_sel, screen, temp_brwin>>
        /\ shots' = [shots EXCEPT ![img_sel] = Shot(temp_brwin)]
    BY <1>17 DEF Fetch
  <2>2. shots'[img_sel'] = Shot(temp_brwin) /\ shots'[1 - img_sel'] = shots[Back]
    BY <1>2, <1>3, <2>1 DEF Back
  <2>3. PICK m \in [x : Nat, width : Nat, offset : Nat] : ToCompare(m)
    BY <1>1, <2>1
  <2>4. Compare(m)
    BY <2>1, <2>2, <2>3 DEF ToCompare
  <2>5. \A p \in Pixels : shots'[img_sel'][p] \in Colours /\ FreshNow(shots'[img_sel'][p], p)
    BY <1>2, <2>1, <2>2, ShotRight
  <2> HIDE DEF Last, Compare, FreshNow
  <2> QED  BY <1>8, <2>1, <2>4, <2>5
<1>18. CASE rmdUpdateYuvBuffer
  <2>1. /\ pc = "update" /\ pc' = "draw" /\ UNCHANGED <<mouse, img_sel, shots, screen, changed, temp_brwin>>
        /\ undrawn' = PlaceOf(mouse)
    BY <1>18 DEF rmdUpdateYuvBuffer, screenVars
  <2>2. PICK m \in [x : Nat, width : Nat, offset : Nat] : ToCompare(m)
    BY <1>1, <2>1
  <2>3. \A p \in Pixels : shots[img_sel][p] \in Colours /\ Fresh(shots[img_sel][p], p)
    BY <1>1, <2>1
  <2>4. PlanesWith(yuv', mouse, {}) /\ ShotHas(yuv', shots[img_sel], {}, {})
    BY <1>18, <2>2, <2>3, ComparedRight
  <2>5. Places' = {}
    BY <1>9, <2>1
  <2>6. \A p \in Pixels : shots'[img_sel'][p] \in Colours /\ FreshNow(shots'[img_sel'][p], p)
    <3> HIDE DEF FreshNow
    <3> QED  BY <1>11, <2>1, <2>3
  <2> HIDE DEF Last, Compare, FreshNow
  <2> QED  BY <1>8, <2>1, <2>4, <2>5, <2>6
<1>19. ASSUME NEW q \in Pixels, DrawPixel(q)
       PROVE  ShotsRight'
  <2>1. /\ pc = "draw" /\ pc' = "draw" /\ UNCHANGED <<mouse, img_sel, shots, screen, changed, temp_brwin>>
    BY <1>19 DEF DrawPixel, screenVars
  <2>2. \A p \in Pixels : shots[img_sel][p] \in Colours /\ Fresh(shots[img_sel][p], p)
    BY <1>1, <2>1
  <2>3. \A p \in Pixels : shots'[img_sel'][p] \in Colours /\ FreshNow(shots'[img_sel'][p], p)
    <3> HIDE DEF FreshNow
    <3> QED  BY <1>11, <2>1, <2>2
  <2>4. Places' = Places \cup {q}
    <3>1. q \in undrawn /\ undrawn' = undrawn \ {q}
      BY <1>19, DrawnRight
    <3> QED  BY <1>2, <1>9, <2>1, <3>1 DEF Places
  <2>5. PlanesWith(yuv, mouse, Places) /\ ShotHas(yuv, shots[img_sel], Places, {})
    BY <1>1, <2>1
  <2>6. PlanesWith(yuv', mouse', Places')
    BY <1>19, <2>1, <2>4, <2>5, BlendedRight
  <2>7. ShotHas(yuv', shots'[img_sel'], Places', {})
    <3>1. \A p \in Pixels : Under(yuv', p, Places') = Under(yuv, p, Places)
      BY <1>19, <2>1, <2>4, <2>5, UnderStays DEF PlanesWith
    <3> QED  BY <2>1, <2>5, <3>1 DEF ShotHas
  <2> HIDE DEF Last, Compare, FreshNow
  <2> QED  BY <1>8, <2>1, <2>3, <2>6, <2>7
<1>20. CASE Drawn
  <2>1. /\ pc = "draw" /\ pc' = "advance" /\ undrawn = {}
        /\ UNCHANGED <<yuv, mouse, img_sel, screen, changed, temp_brwin>>
        /\ shots' = [shots EXCEPT ![img_sel] = Marked(shots[img_sel], mouse)]
    BY <1>20 DEF Drawn, screenVars
  <2>2. Places = PlaceOf(mouse)
    BY <2>1 DEF Places
  <2>3. shots[img_sel] \in [Pixels -> Nat] /\ shots'[img_sel'] = Marked(shots[img_sel], mouse)
    BY <1>2, <2>1
  <2>4. \A p \in Pixels : shots'[img_sel'][p] = shots[img_sel][p] + On(p, PlaceOf(mouse), 1)
    BY <2>3, MarkedRight
  <2>5. /\ PlanesWith(yuv, mouse, PlaceOf(mouse))
        /\ \A p \in Pixels : shots[img_sel][p] = Under(yuv, p, PlaceOf(mouse)) + On(p, {}, 1)
    BY <1>1, <2>1, <2>2 DEF ShotHas
  <2>6. \A p \in Pixels : shots[img_sel][p] = Under(yuv, p, PlaceOf(mouse))
    <3>1. \A p \in Pixels : Under(yuv, p, PlaceOf(mouse)) \in Int
      BY <1>2 DEF Under, On
    <3> QED  BY <2>5, <3>1 DEF On
  <2>7. ShotHas(yuv, shots'[img_sel'], PlaceOf(mouse), PlaceOf(mouse))
    BY <2>4, <2>6 DEF ShotHas
  <2>8. Last
    BY <2>1, <2>5, <2>7
  <2>9. \A p \in Pixels : FreshNow(Under(yuv', p, PlaceOf(mouse')), p)
    <3>1. \A p \in Pixels : Fresh(Under(yuv, p, PlaceOf(mouse)), p)
      BY <1>1, <2>1, <2>6
    <3> HIDE DEF FreshNow
    <3> QED  BY <1>11, <2>1, <3>1
  <2> HIDE DEF Last, Compare, FreshNow
  <2> QED  BY <1>8, <2>1, <2>8, <2>9
<1>21. ~UpdateImage
  BY DEF UpdateImage
<1> QED  BY <1>12, <1>13, <1>14, <1>15, <1>16, <1>17, <1>18, <1>19, <1>20, <1>21 DEF Next
-----------------------------------------------------------------------------
LEMMA InvFirst == Init => PictureInv
  BY TypesFirst, DamageFirst, ShotsFirst, CacheFirst DEF PictureInv

LEMMA InvKept == PictureInv /\ [Next]_vars => PictureInv'
  BY TypesKept, DamageKept, ShotsKept, CacheKept DEF PictureInv

(* Every state of a recording, with XDamage or with full shots, has the    *)
(* picture of its turn: the planes, the list, the two shots with their     *)
(* marks and the cache agree on what lies below the pointer.               *)
THEOREM PictureInvariant == Spec => []PictureInv
<1> QED  BY InvFirst, InvKept, PTL DEF Spec

(* Two full shots take turns only where they are shared memory: without it *)
(* each one is put into the same image.                                    *)
ShotsShared == args.full_shots => ~args.noshared

(* What a turn leaves in the luma plane is the screen as it was looked at  *)
(* and the pointer, drawn once, where it is now.                           *)
THEOREM PictureStaysRight == Spec => [](ShotsShared => PictureRight)
<1>1. PictureInv => (ShotsShared => PictureRight)
  <2> SUFFICES ASSUME PictureInv, ShotsShared PROVE PictureRight
    OBVIOUS
  <2>1. TypeOK
    BY DEF PictureInv, Types
  <2> SUFFICES ASSUME pc = "advance", NEW p \in Pixels
               PROVE  \/ Below(p) = screen[temp_brwin + p]
                      \/ temp_brwin + p \in changed /\ Below(p) \in Colours
    BY <2>1 DEF PictureRight, PictureFresh
  <2>2. Below(p) = Under(yuv, p, PlaceOf(mouse))
    BY DEF Below, Under, On
  <2>3. Under(yuv, p, PlaceOf(mouse)) \in Colours /\ Fresh(Under(yuv, p, PlaceOf(mouse)), p)
    <3>1. CASE args.full_shots
      BY <3>1 DEF PictureInv, ShotsRight, ShotsShared, LastTurn, PlanesWith
    <3>2. CASE ~args.full_shots
      BY <3>2 DEF PictureInv, DamageRight, Places
    <3> QED  BY <3>1, <3>2
  <2> QED  BY <2>2, <2>3 DEF Fresh
<1> QED  BY <1>1, PictureInvariant, PTL

(* With two full shots the chroma planes are restored as well, although a  *)
(* pointer at an odd place covers a sample by half.                        *)
THEOREM ColoursStayFresh == Spec => [](ShotsShared => ColoursFresh)
<1>1. PictureInv => (ShotsShared => ColoursFresh)
  <2> SUFFICES ASSUME PictureInv, ShotsShared, pc = "advance", args.full_shots,
                      args.no_quick_subsample \/ args.cursor = "none", NEW c \in Samples
               PROVE  \/ BelowSample(c) = Sample(Shot(temp_brwin), c)
                      \/ /\ {temp_brwin + 2*c, temp_brwin + 2*c + 1} \cap changed # {}
                         /\ BelowSample(c) < Shade
    BY DEF ColoursFresh
  <2> DEFINE here == PlaceOf(mouse)
  <2>1. /\ PlanesWith(yuv, mouse, here) /\ \A p \in Pixels : Fresh(Under(yuv, p, here), p)
        /\ IsMouse(mouse)
        /\ temp_brwin \in 0..ScreenWidth-Width /\ screen \in [0..ScreenWidth-1 -> Colours]
    BY DEF PictureInv, ShotsRight, ShotsShared, LastTurn, Types, TypeOK
  <2> HIDE DEF here
  <2>2. /\ 2*c \in Pixels /\ 2*c + 1 \in Pixels /\ c \in Nat
    BY SamplePixels
  <2> DEFINE a == Under(yuv, 2*c, here)
             b == Under(yuv, 2*c + 1, here)
  <2>3. a \in Colours /\ b \in Colours
    BY <2>1, <2>2 DEF PlanesWith
  <2>4. BelowSample(c) = UnderSample(yuv, c, SamplesIn(mouse, here))
    BY <2>1, SamplesOfAre DEF BelowSample, UnderSample, On, here
  <2>5. BelowSample(c) = IF args.no_quick_subsample THEN a + b ELSE a
    BY <2>1, <2>4 DEF PlanesWith
  <2>6. BelowSample(c) < Shade
    <3>1. a < Shade /\ a + b < Shade
      <4>1. a + 4 < Shade /\ a \in Nat /\ Shade \in Nat
        BY <2>3, ColoursAre
      <4> HIDE DEF a, b
      <4> QED  BY <2>3, <4>1, ColoursAre
    <3> QED  BY <2>5, <3>1
  <2>7. /\ a = screen[temp_brwin + 2*c] \/ temp_brwin + 2*c \in changed
        /\ b = screen[temp_brwin + (2*c + 1)] \/ temp_brwin + (2*c + 1) \in changed
    BY <2>1, <2>2 DEF Fresh
  <2>8. temp_brwin + (2*c + 1) = temp_brwin + 2*c + 1
    BY <2>1, <2>2, PictureAssumption
  <2>9. Sample(Shot(temp_brwin), c)
          = IF args.no_quick_subsample THEN screen[temp_brwin + 2*c] + screen[temp_brwin + (2*c + 1)]
                                       ELSE screen[temp_brwin + 2*c]
    BY <2>1, <2>2, ShotRight DEF Sample
  <2> HIDE DEF a, b
  <2> QED  BY <2>5, <2>6, <2>7, <2>8, <2>9
<1> QED  BY <1>1, PictureInvariant, PTL

(* Each frame cached gives back what lies in the planes, but for the       *)
(* pointer: what its blocks leave out has not changed since it was cached. *)
THEOREM CachedRight == Spec => CachedButPointer
<1>1. PictureInv /\ [Next]_vars /\ ready /\ ~ready' =>
          /\ \A p \in Pixels : yuv.y[p] < Shade => loaded'.y[p] = yuv.y[p]
          /\ \A c \in Samples : yuv.u[c] < Shade => loaded'.u[c] = yuv.u[c]
  <2> SUFFICES ASSUME PictureInv, [Next]_vars, ready, ~ready'
               PROVE  /\ \A p \in Pixels : yuv.y[p] < Shade => loaded'.y[p] = yuv.y[p]
                      /\ \A c \in Samples : yuv.u[c] < Shade => loaded'.u[c] = yuv.u[c]
    OBVIOUS
  <2>1. CacheFrame
    BY DEF Next, Paint, Events, Skip, Pointer, Fetch, UpdateImage, rmdUpdateYuvBuffer, DrawPixel, Drawn,
           Advance, cacheVars, vars
  <2>2. yuv' = yuv /\ ~firstrun' /\ blocks' = [y |-> {}, u |-> {}]
    BY <2>1 DEF CacheFrame
  <2>3. yuv \in [y : [Pixels -> Nat], u : [Samples -> Nat]] /\ Shade \in Nat
    BY ColoursAre DEF PictureInv, Types, TypeOK
  <2>4. /\ \A p \in Pixels : loaded'.y[p] = yuv.y[p] \/ yuv.y[p] >= Shade
        /\ \A c \in Samples : loaded'.u[c] = yuv.u[c] \/ yuv.u[c] >= Shade
    <3>1. CacheRight'
      BY CacheKept DEF PictureInv
    <3> QED  BY <2>2, <3>1 DEF CacheRight, Pixels, Samples
  <2> QED  BY <2>3, <2>4
<1> QED  BY <1>1, PictureInvariant, PTL DEF Spec, CachedButPointer
=============================================================================
