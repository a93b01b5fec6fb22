---------------------------- MODULE RectProofs ----------------------------
(***************************************************************************)
(* Proofs about the damage list, for a screen of any size.                 *)
(*                                                                         *)
(* rmdRectInsert(): between any two iterations of its loop the list is     *)
(* free of overlaps and no rectangle is forgotten (ListRight), and the     *)
(* pixels it holds are always those that were inserted (ImplementsDamage). *)
(*                                                                         *)
(* The turn of rmdGetFrames around it: what an update works off stays      *)
(* inside of what is recorded (ListInside), has all that changed           *)
(* (Refetched) in whole chroma samples (ChromaWhole), and marks the cache  *)
(* blocks of it (BlocksMarked).                                            *)
(***************************************************************************)
EXTENDS DamageEvents, SequenceTheorems, TLAPS

Rect == [x : Nat, y : Nat, width : Nat, height : Nat]

(* What Disjoint says of two rectangles, without their pixels.             *)
Clear(r, s) ==
    \/ ~Visible(r) \/ ~Visible(s)
    \/ Right(r) <= s.x \/ Right(s) <= r.x \/ Bottom(r) <= s.y \/ Bottom(s) <= r.y

(* The pixels of r are among those of some rectangles.                     *)
Within(r, rects) == \A px, py \in Int : Covers(r, px, py) => \E s \in rects : Covers(s, px, py)

(* A part of a broken rectangle that has no pixel: its columns are gone.   *)
Thin(r) == r.width = 0 /\ r.height > 0

(* How two rectangles meet when neither has the other, nor is apart.       *)
Meet(r, s) == ~Fits(r, s) /\ ~Fits(s, r) /\ ~Apart(r, s)
OldBreaks(r, s) == Meet(r, s) /\ ~Groupable(r, s) /\ Enclosed(s, r) # 2 /\ Enclosed(r, s) = 2
NewLoses(r, s)  == Meet(r, s) /\ ~Groupable(r, s) /\ Enclosed(s, r) = 2
NewSplits(r, s) == Meet(r, s) /\ Enclosed(s, r) # 2 /\ Enclosed(r, s) # 2
-----------------------------------------------------------------------------
(* collideRects(), case by case.                                           *)
LEMMA CollideCases ==
    ASSUME NEW r, NEW s
    PROVE  LET o == Collide(r, s) IN
           \/ o = Outcome("covered", <<>>) /\ Fits(r, s)
           \/ o = Outcome("covers", <<>>) /\ Fits(s, r) /\ ~Fits(r, s)
           \/ o = Outcome("apart", <<>>) /\ Apart(r, s) /\ ~Fits(r, s)
           \/ o = Outcome("grouped", <<Group(r, s)>>) /\ Meet(r, s) /\ Groupable(r, s)
           \/ o = Outcome("newBroken", <<BreakOff(s, r)>>) /\ NewLoses(r, s)
           \/ o = Outcome("oldBroken", <<BreakOff(r, s)>>) /\ OldBreaks(r, s)
           \/ o = Outcome("newBroken", BreakCorner(s, r)) /\ NewSplits(r, s) /\ Enclosed(s, r) = 1
           \/ o = Outcome("newBroken", BreakCross(s, r)) /\ NewSplits(r, s) /\ Enclosed(s, r) # 1
  BY DEF Collide, Meet, OldBreaks, NewLoses, NewSplits

(* rmd_rectinsert.c:64: what fits in another has no pixel of its own.      *)
LEMMA FitsWithin ==
    ASSUME NEW r \in Rect, NEW s \in Rect, Fits(r, s)
    PROVE  Within(r, {s})
  BY DEF Fits, Within, Covers, Right, Bottom, Rect

LEMMA FitsTransitive ==
    ASSUME NEW r \in Rect, NEW s \in Rect, NEW q \in Rect, Fits(r, s), Fits(s, q)
    PROVE  Fits(r, q)
  BY DEF Fits, Right, Bottom, Rect

(* A rectangle keeps clear of what the one it fits in keeps clear of.      *)
LEMMA FitsClear ==
    ASSUME NEW r \in Rect, NEW s \in Rect, NEW q \in Rect, Fits(r, s), Clear(s, q)
    PROVE  Clear(r, q)
  BY DEF Fits, Clear, Visible, Right, Bottom, Rect

LEMMA ClearBothWays ==
    ASSUME NEW r, NEW s, Clear(r, s)
    PROVE  Clear(s, r)
  BY DEF Clear

(* A part of a rectangle has a place on the screen.                        *)
LEMMA RectanglesAre ==
    /\ \A r \in Rectangles : r \in Rect
    /\ \A r \in Rect : OnScreen(r) => r \in Rectangles
    /\ \A r \in Rect, s \in Rect : Fits(r, s) /\ OnScreen(s) => OnScreen(r)
<1> USE ScreenAssumption
<1>1. \A r \in Rectangles : r \in Rect
  BY DEF Rectangles, XRectangle, Rect
<1>2. ASSUME NEW r \in Rect, OnScreen(r)
      PROVE  r \in Rectangles
  <2>1. r = XRectangle(r.x, r.y, r.width, r.height)
    BY DEF Rect, XRectangle
  <2>2. r.x \in 0..Width /\ r.y \in 0..Height /\ r.width \in 0..Width /\ r.height \in 0..Height
    BY <1>2 DEF Rect, OnScreen, Right, Bottom
  <2> QED  BY <2>1, <2>2 DEF Rectangles
<1>3. \A r \in Rect, s \in Rect : Fits(r, s) /\ OnScreen(s) => OnScreen(r)
  BY DEF Fits, OnScreen, Right, Bottom, Rect
<1> QED  BY <1>1, <1>2, <1>3

-----------------------------------------------------------------------------
(* Taking off an edge that is enclosed, or the corner's rows or columns:   *)
(* what remains is a rectangle again, none of its unsigned widths wraps.   *)
LEMMA PartsAreRecords ==
    ASSUME NEW r \in Rect, NEW s \in Rect
    PROVE  LET part == [x : Int, y : Int, width : Int, height : Int] IN
           /\ BreakOff(r, s) \in part
           /\ \A i \in 1..2 : BreakCorner(r, s)[i] \in part /\ BreakCross(r, s)[i] \in part
<1> DEFINE part == [x : Int, y : Int, width : Int, height : Int]
<1> HIDE DEF part
<1>1. \A c \in part : \A n, l \in Int :
          /\ [c EXCEPT !.width = l] \in part /\ [c EXCEPT !.x = n, !.width = l] \in part
          /\ [c EXCEPT !.height = l] \in part /\ [c EXCEPT !.y = n, !.height = l] \in part
  <2> SUFFICES ASSUME NEW c \in part, NEW n \in Int, NEW l \in Int
               PROVE  /\ [c EXCEPT !.width = l] \in part /\ [c EXCEPT !.x = n, !.width = l] \in part
                      /\ [c EXCEPT !.height = l] \in part /\ [c EXCEPT !.y = n, !.height = l] \in part
    OBVIOUS
  <2>1. [c EXCEPT !.width = l] \in part /\ [c EXCEPT !.height = l] \in part
    BY DEF part
  <2>2. [c EXCEPT !.x = n] \in part /\ [c EXCEPT !.y = n] \in part
    BY DEF part
  <2>3. [[c EXCEPT !.x = n] EXCEPT !.width = l] \in part
    BY <2>2 DEF part
  <2>4. [[c EXCEPT !.y = n] EXCEPT !.height = l] \in part
    BY <2>2 DEF part
  <2> QED  BY <2>1, <2>3, <2>4
<1>2. r \in part /\ s \in part
  BY DEF part, Rect
<1>3. \A c \in part : Right(c) \in Int /\ Bottom(c) \in Int /\ c.x \in Int /\ c.y \in Int
  BY DEF part, Right, Bottom
<1>4. \A c \in part : Above(c, s) \in part /\ Below(c, s) \in part
                      /\ LeftOf(c, s) \in part /\ RightOf(c, s) \in part
  <2> SUFFICES ASSUME NEW c \in part
               PROVE  /\ Above(c, s) \in part /\ Below(c, s) \in part
                      /\ LeftOf(c, s) \in part /\ RightOf(c, s) \in part
    OBVIOUS
  <2>1. /\ s.y - c.y \in Int /\ Bottom(c) - Bottom(s) \in Int
        /\ s.x - c.x \in Int /\ Right(c) - Right(s) \in Int
        /\ Bottom(s) \in Int /\ Right(s) \in Int
    BY <1>2, <1>3
  <2> QED  BY <1>1, <2>1 DEF Above, Below, LeftOf, RightOf
<1>5. /\ Above(r, s) \in part /\ Below(r, s) \in part
      /\ LeftOf(r, s) \in part /\ RightOf(r, s) \in part
  BY <1>2, <1>4
<1>6. BreakOff(r, s) \in part
  BY <1>5, <1>2 DEF BreakOff
<1>7. SharedColumns(r, s) \in part
  <2>1. Right(s) - r.x \in Int /\ Right(r) - s.x \in Int /\ s.x \in Int
    BY <1>2, <1>3
  <2> QED  BY <1>1, <1>2, <2>1 DEF SharedColumns
<1>8. \A i \in 1..2 : BreakCorner(r, s)[i] \in part
  BY <1>5, <1>7, <1>4 DEF BreakCorner
<1>9. \A i \in 1..2 : BreakCross(r, s)[i] \in part
  BY <1>5 DEF BreakCross
<1> QED  BY <1>6, <1>8, <1>9 DEF part

(* rmd_rectinsert.c:175: the old one keeps what the new one does not have. *)
LEMMA OldBreaksRight ==
    ASSUME NEW r \in Rect, NEW s \in Rect, Visible(s), OldBreaks(r, s)
    PROVE  LET rest == BreakOff(r, s) IN
           /\ rest \in Rect /\ Fits(rest, r) /\ Clear(rest, s)
           /\ Visible(r) => Visible(rest)
           /\ Within(r, {rest, s})
<1> DEFINE rest == BreakOff(r, s)
<1> USE DEF OldBreaks, Meet, Apart, Fits, Visible, Right, Bottom, Rect, Enclosed, One,
            TopIn, BottomIn, LeftIn, RightIn, Corner0, Corner1, Corner2, Corner3, InX, InY
<1>1. rest.x \in Nat /\ rest.y \in Nat /\ rest.width \in Nat /\ rest.height \in Nat
  BY DEF BreakOff, Above, Below, LeftOf, RightOf
<1>2. rest \in Rect
  BY <1>1, PartsAreRecords
<1>3. Fits(rest, r)
  BY DEF BreakOff, Above, Below, LeftOf, RightOf
<1>4. Clear(rest, s)
  BY DEF BreakOff, Above, Below, LeftOf, RightOf, Clear
<1>5. Visible(r) => Visible(rest)
  BY DEF BreakOff, Above, Below, LeftOf, RightOf
<1>6. ASSUME NEW px \in Int, NEW py \in Int, Covers(r, px, py)
      PROVE  Covers(rest, px, py) \/ Covers(s, px, py)
  BY <1>6 DEF BreakOff, Above, Below, LeftOf, RightOf, Covers
<1>7. Within(r, {rest, s})
  BY <1>6 DEF Within
<1> QED  BY <1>2, <1>3, <1>4, <1>5, <1>7

(* rmd_rectinsert.c:152: the new one loses an edge, and never all of it.   *)
LEMMA NewLosesRight ==
    ASSUME NEW r \in Rect, NEW s \in Rect, Visible(s), NewLoses(r, s)
    PROVE  LET part == BreakOff(s, r) IN
           /\ part \in Rect /\ Visible(part) /\ Fits(part, s) /\ Clear(r, part)
           /\ Within(s, {part, r})
<1> DEFINE part == BreakOff(s, r)
<1> USE DEF NewLoses, Meet, Apart, Fits, Visible, Right, Bottom, Rect, Enclosed, One, Groupable,
            TopIn, BottomIn, LeftIn, RightIn, Corner0, Corner1, Corner2, Corner3, InX, InY
<1>1. part.x \in Nat /\ part.y \in Nat /\ part.width \in Nat /\ part.height \in Nat
  BY DEF BreakOff, Above, Below, LeftOf, RightOf
<1>2. part \in Rect
  BY <1>1, PartsAreRecords
<1>3. Fits(part, s)
  BY DEF BreakOff, Above, Below, LeftOf, RightOf
<1>4. Clear(r, part)
  BY DEF BreakOff, Above, Below, LeftOf, RightOf, Clear
<1>5. Visible(part)
  BY DEF BreakOff, Above, Below, LeftOf, RightOf
<1>6. ASSUME NEW px \in Int, NEW py \in Int, Covers(s, px, py)
      PROVE  Covers(part, px, py) \/ Covers(r, px, py)
  BY <1>6 DEF BreakOff, Above, Below, LeftOf, RightOf, Covers
<1>7. Within(s, {part, r})
  BY <1>6 DEF Within
<1> QED  BY <1>2, <1>3, <1>4, <1>5, <1>7

(* What is true of the two parts of a new one that is split.               *)
SplitRight(r, s, p, q) ==
    /\ p \in Rect /\ Visible(p) /\ Fits(p, s) /\ Clear(r, p)
    /\ q \in Rect /\ (Visible(q) \/ (Thin(q) /\ Fits(q, p)))
    /\ Fits(q, s) /\ Clear(r, q) /\ Clear(p, q)
    /\ Within(s, {p, q, r})

(* s without a corner: p the columns beside r, q what is above or below r  *)
(* of the columns they share.                                              *)
CutBeside(r, s, p, q) ==
    /\ p.y = s.y /\ p.height = s.height
    /\ \/ /\ r.x <= s.x /\ s.x <= Right(r) /\ Right(r) < Right(s)
          /\ p.x = Right(r) /\ p.width = Right(s) - Right(r)
          /\ q.x = s.x /\ q.width = Right(r) - s.x
       \/ /\ s.x < r.x /\ r.x <= Right(s) /\ Right(s) <= Right(r)
          /\ p.x = s.x /\ p.width = r.x - s.x
          /\ q.x = r.x /\ q.width = Right(s) - r.x
CutAcross(r, s, q) ==
    \/ /\ r.y <= s.y /\ s.y <= Bottom(r) /\ Bottom(r) < Bottom(s)
       /\ q.y = Bottom(r) /\ q.height = Bottom(s) - Bottom(r)
    \/ /\ s.y < r.y /\ r.y <= Bottom(s) /\ Bottom(s) <= Bottom(r)
       /\ q.y = s.y /\ q.height = r.y - s.y

LEMMA CornerCut ==
    ASSUME NEW r \in Rect, NEW s \in Rect, NEW p \in Rect, NEW q \in Rect, Visible(s),
           CutBeside(r, s, p, q), CutAcross(r, s, q)
    PROVE  SplitRight(r, s, p, q)
<1> USE DEF CutBeside, CutAcross, Rect, Visible, Fits, Right, Bottom
<1>1. Visible(p) /\ Fits(p, s) /\ Fits(q, s)
  OBVIOUS
<1>2. Clear(r, p)
  BY DEF Clear
<1>3. Clear(r, q)
  BY DEF Clear
<1>4. Clear(p, q)
  BY DEF Clear
<1>5. Visible(q) \/ (Thin(q) /\ Fits(q, p))
  BY DEF Thin
<1>6. ASSUME NEW px \in Int, NEW py \in Int, Covers(s, px, py)
      PROVE  Covers(p, px, py) \/ Covers(q, px, py) \/ Covers(r, px, py)
  BY <1>6 DEF Covers
<1>7. Within(s, {p, q, r})
  BY <1>6 DEF Within
<1> HIDE DEF Rect, Visible, Fits
<1> QED  BY <1>1, <1>2, <1>3, <1>4, <1>5, <1>7 DEF SplitRight

(* rmd_rectinsert.c:198: a corner is cut out.  The part in the columns     *)
(* that both share has none when they only touch.                          *)
LEMMA CornerIs ==
    ASSUME NEW r \in Rect, NEW s \in Rect, Visible(s), NewSplits(r, s), Enclosed(s, r) = 1
    PROVE  LET p == BreakCorner(s, r)[1]
               q == BreakCorner(s, r)[2]
           IN  p \in Rect /\ q \in Rect /\ CutBeside(r, s, p, q) /\ CutAcross(r, s, q)
<1> DEFINE p == BreakCorner(s, r)[1]
           q == BreakCorner(s, r)[2]
<1>1. CutBeside(r, s, p, q)
  BY DEF CutBeside, Visible, Right, Bottom, Rect, Enclosed, One,
         Corner0, Corner1, Corner2, Corner3, InX, InY,
         BreakCorner, SharedColumns, Above, Below, LeftOf, RightOf
<1>2. CutAcross(r, s, q)
  BY DEF CutAcross, Visible, Right, Bottom, Rect, Enclosed, One,
         Corner0, Corner1, Corner2, Corner3, InX, InY,
         BreakCorner, SharedColumns, Above, Below, LeftOf, RightOf
<1>3. p \in [x : Int, y : Int, width : Int, height : Int]
      /\ q \in [x : Int, y : Int, width : Int, height : Int]
  BY PartsAreRecords
<1> HIDE DEF p, q
<1>4. p \in Rect
  BY <1>1, <1>3 DEF CutBeside, Rect, Right
<1>5. q \in Rect
  BY <1>1, <1>2, <1>3 DEF CutBeside, CutAcross, Rect, Right, Bottom
<1> QED  BY <1>1, <1>2, <1>4, <1>5 DEF p, q

LEMMA CornerRight ==
    ASSUME NEW r \in Rect, NEW s \in Rect, Visible(s), NewSplits(r, s), Enclosed(s, r) = 1
    PROVE  SplitRight(r, s, BreakCorner(s, r)[1], BreakCorner(s, r)[2])
  BY CornerIs, CornerCut

(* rmd_rectinsert.c:248: they cross, and both ends of the new one remain.  *)
LEMMA CrossRight ==
    ASSUME NEW r \in Rect, NEW s \in Rect, Visible(s), NewSplits(r, s), Enclosed(s, r) # 1
    PROVE  SplitRight(r, s, BreakCross(s, r)[1], BreakCross(s, r)[2]) /\ Visible(BreakCross(s, r)[2])
<1> DEFINE p == BreakCross(s, r)[1]
           q == BreakCross(s, r)[2]
<1> USE DEF NewSplits, Meet, Apart, Fits, Visible, Right, Bottom, Rect, Enclosed, One,
            TopIn, BottomIn, LeftIn, RightIn, Corner0, Corner1, Corner2, Corner3, InX, InY,
            BreakCross, Above, Below, LeftOf, RightOf
<1>1. p.x \in Nat /\ p.y \in Nat /\ p.width \in Nat /\ p.height \in Nat
  OBVIOUS
<1>2. p \in Rect
  BY <1>1, PartsAreRecords
<1>3. q.x \in Nat /\ q.y \in Nat /\ q.width \in Nat /\ q.height \in Nat
  OBVIOUS
<1>4. q \in Rect
  BY <1>3, PartsAreRecords
<1>5. Visible(p) /\ Fits(p, s) /\ Clear(r, p)
  BY DEF Clear
<1>6. Visible(q)
  OBVIOUS
<1>7. Fits(q, s) /\ Clear(r, q)
  BY DEF Clear
<1>8. Clear(p, q)
  BY DEF Clear
<1>9. ASSUME NEW px \in Int, NEW py \in Int, Covers(s, px, py)
      PROVE  Covers(p, px, py) \/ Covers(q, px, py) \/ Covers(r, px, py)
  BY <1>9 DEF Covers
<1>10. Within(s, {p, q, r})
  BY <1>9 DEF Within
<1> HIDE DEF NewSplits, Meet, Fits, Visible, Rect, BreakCross
<1> QED  BY <1>2, <1>4, <1>5, <1>6, <1>7, <1>8, <1>10 DEF SplitRight

(* rmd_rectinsert.c:117: the group has the pixels of both and no others.   *)
LEMMA GroupRight ==
    ASSUME NEW r \in Rect, NEW s \in Rect, Visible(s), Meet(r, s), Groupable(r, s)
    PROVE  LET g == Group(r, s) IN
           /\ g \in Rect /\ Visible(g) /\ Fits(r, g) /\ Fits(s, g)
           /\ \A q \in Rect : Clear(r, q) /\ Clear(s, q) => Clear(g, q)
           /\ Within(g, {r, s})
           /\ OnScreen(r) /\ OnScreen(s) => OnScreen(g)
<1> DEFINE g == Group(r, s)
<1> USE DEF Meet, Apart, Fits, Visible, Right, Bottom, Rect, Enclosed, One, Groupable,
            TopIn, BottomIn, LeftIn, RightIn, Corner0, Corner1, Corner2, Corner3, InX, InY,
            Group, Stacked, Adjacent, XRectangle
<1>1. g \in Rect
  OBVIOUS
<1>2. Visible(g) /\ Fits(r, g) /\ Fits(s, g)
  <2>1. Visible(g)
    BY SMTT(20)
  <2>2. Fits(r, g)
    BY SMTT(20)
  <2>3. Fits(s, g)
    BY SMTT(20)
  <2> QED  BY <2>1, <2>2, <2>3
<1>3. ASSUME NEW q \in Rect, Clear(r, q), Clear(s, q)
      PROVE  Clear(g, q)
  BY <1>3, SMTT(20) DEF Clear
<1>4. ASSUME NEW px \in Int, NEW py \in Int, Covers(g, px, py)
      PROVE  Covers(r, px, py) \/ Covers(s, px, py)
  BY <1>4, SMTT(20) DEF Covers
<1>5. Within(g, {r, s})
  BY <1>4 DEF Within
<1>6. OnScreen(r) /\ OnScreen(s) => OnScreen(g)
  BY ScreenAssumption DEF OnScreen
<1> HIDE DEF Meet, Fits, Visible, Rect, Group, Groupable
<1> QED  BY <1>1, <1>2, <1>3, <1>5, <1>6

(* rmd_rectinsert.c:361: a thin node behind one that loses an edge fits in *)
(* what is left of that one, or is lost to the same new one in its turn.   *)
LEMMA ThinLost ==
    ASSUME NEW r \in Rect, NEW s \in Rect, Visible(r), Visible(s), OldBreaks(r, s),
           NEW z \in Rect, Thin(z), Fits(z, r)
    PROVE  Fits(z, BreakOff(r, s)) \/ Fits(z, s) \/ OldBreaks(z, s)
  BY DEF OldBreaks, Meet, Apart, Fits, Visible, Right, Bottom, Rect, Enclosed, One, Groupable, Thin,
         TopIn, BottomIn, LeftIn, RightIn, Corner0, Corner1, Corner2, Corner3, InX, InY,
         BreakOff, Above, Below, LeftOf, RightOf

-----------------------------------------------------------------------------
(* The node r and the new one s, by collideRects()' result.                *)
LEMMA CoveredRight ==
    ASSUME NEW r \in Rect, NEW s \in Rect
    PROVE  Collide(r, s).result = "covered" <=> Fits(r, s)
  BY CollideCases DEF Outcome, Meet, NewLoses, OldBreaks, NewSplits

LEMMA CoversRight ==
    ASSUME NEW r \in Rect, NEW s \in Rect, Collide(r, s).result = "covers"
    PROVE  Fits(s, r)
  BY CollideCases DEF Outcome

LEMMA ApartRight ==
    ASSUME NEW r \in Rect, NEW s \in Rect, Collide(r, s).result = "apart"
    PROVE  Clear(r, s)
<1>1. Apart(r, s)
  BY CollideCases DEF Outcome
<1> QED  BY <1>1 DEF Apart, Clear, Right, Bottom, Rect

LEMMA GroupedRight ==
    ASSUME NEW r \in Rect, NEW s \in Rect, Visible(s), Collide(r, s).result = "grouped"
    PROVE  LET g == Collide(r, s).rects[1] IN
           /\ g \in Rect /\ Visible(g) /\ Fits(r, g) /\ Fits(s, g)
           /\ \A q \in Rect : Clear(r, q) /\ Clear(s, q) => Clear(g, q)
           /\ Within(g, {r, s})
           /\ OnScreen(r) /\ OnScreen(s) => OnScreen(g)
<1>1. Collide(r, s) = Outcome("grouped", <<Group(r, s)>>) /\ Meet(r, s) /\ Groupable(r, s)
  BY CollideCases DEF Outcome
<1>2. Collide(r, s).rects[1] = Group(r, s)
  BY <1>1 DEF Outcome
<1> QED  BY <1>1, <1>2, GroupRight

LEMMA OldBrokenIs ==
    ASSUME NEW r \in Rect, NEW s \in Rect
    PROVE  /\ Collide(r, s).result = "oldBroken" <=> OldBreaks(r, s)
           /\ Collide(r, s).result = "oldBroken" => Collide(r, s).rects[1] = BreakOff(r, s)
<1>1. CASE Collide(r, s).result = "oldBroken"
  <2>1. Collide(r, s) = Outcome("oldBroken", <<BreakOff(r, s)>>) /\ OldBreaks(r, s)
    BY <1>1, CollideCases DEF Outcome
  <2> QED  BY <2>1 DEF Outcome
<1>2. CASE OldBreaks(r, s)
  <2>1. Collide(r, s) = Outcome("oldBroken", <<BreakOff(r, s)>>)
    BY <1>2 DEF Collide, OldBreaks, Meet
  <2> QED  BY <1>2, <2>1 DEF Outcome
<1> QED  BY <1>1, <1>2

LEMMA OldBrokenRight ==
    ASSUME NEW r \in Rect, NEW s \in Rect, Visible(s), Collide(r, s).result = "oldBroken"
    PROVE  LET rest == Collide(r, s).rects[1] IN
           /\ rest \in Rect /\ Fits(rest, r) /\ Clear(rest, s)
           /\ Visible(r) => Visible(rest)
           /\ Within(r, {rest, s})
  BY OldBrokenIs, OldBreaksRight

LEMMA NewBrokenRight ==
    ASSUME NEW r \in Rect, NEW s \in Rect, Visible(s), Collide(r, s).result = "newBroken"
    PROVE  LET parts == Collide(r, s).rects IN
           \/ /\ parts = <<parts[1]>>
              /\ parts[1] \in Rect /\ Visible(parts[1])
              /\ Fits(parts[1], s) /\ Clear(r, parts[1])
              /\ Within(s, {parts[1], r})
           \/ parts = <<parts[1], parts[2]>> /\ SplitRight(r, s, parts[1], parts[2])
<1>1. CASE Collide(r, s) = Outcome("newBroken", <<BreakOff(s, r)>>) /\ NewLoses(r, s)
  <2>1. Collide(r, s).rects = <<BreakOff(s, r)>>
    BY <1>1 DEF Outcome
  <2> QED  BY <1>1, <2>1, NewLosesRight
<1>2. CASE /\ Collide(r, s) = Outcome("newBroken", BreakCorner(s, r))
           /\ NewSplits(r, s) /\ Enclosed(s, r) = 1
  <2>1. Collide(r, s).rects = BreakCorner(s, r)
    BY <1>2 DEF Outcome
  <2>2. BreakCorner(s, r) = <<BreakCorner(s, r)[1], BreakCorner(s, r)[2]>>
    BY DEF BreakCorner
  <2> QED  BY <1>2, <2>1, <2>2, CornerRight
<1>3. CASE /\ Collide(r, s) = Outcome("newBroken", BreakCross(s, r))
           /\ NewSplits(r, s) /\ Enclosed(s, r) # 1
  <2>1. Collide(r, s).rects = BreakCross(s, r)
    BY <1>3 DEF Outcome
  <2>2. BreakCross(s, r) = <<BreakCross(s, r)[1], BreakCross(s, r)[2]>>
    BY DEF BreakCross
  <2> QED  BY <1>3, <2>1, <2>2, CrossRight
<1> QED  BY <1>1, <1>2, <1>3, CollideCases DEF Outcome

-----------------------------------------------------------------------------
(* What the actions do to a sequence, element by element.                  *)
LEMMA RemoveAtRight ==
    ASSUME NEW S, NEW s \in Seq(S), NEW k \in 1..Len(s)
    PROVE  /\ RemoveAt(s, k) \in Seq(S)
           /\ Len(RemoveAt(s, k)) = Len(s) - 1
           /\ \A i \in 1..Len(s) - 1 : RemoveAt(s, k)[i] = IF i < k THEN s[i] ELSE s[i + 1]
<1> DEFINE before == SubSeq(s, 1, k - 1)
           behind == SubSeq(s, k + 1, Len(s))
<1>1. /\ before \in Seq(S) /\ Len(before) = k - 1
      /\ \A i \in 1..k - 1 : before[i] = s[i]
  <2>1. \A i \in 1..k - 1 : s[i] \in S
    BY ElementOfSeq
  <2> QED  BY <2>1, SubSeqProperties
<1>2. /\ behind \in Seq(S) /\ Len(behind) = Len(s) - k
      /\ \A i \in 1..Len(s) - k : behind[i] = s[k + i]
  <2>1. \A i \in k + 1..Len(s) : s[i] \in S
    BY ElementOfSeq
  <2>2. /\ behind \in Seq(S)
        /\ Len(behind) = IF k + 1 <= Len(s) THEN Len(s) - (k + 1) + 1 ELSE 0
        /\ \A i \in 1..Len(s) - (k + 1) + 1 : behind[i] = s[(k + 1) + i - 1]
    BY <2>1, SubSeqProperties
  <2> QED  BY <2>2
<1>3. RemoveAt(s, k) = before \o behind
  BY DEF RemoveAt
<1> HIDE DEF before, behind
<1>4. /\ before \o behind \in Seq(S)
      /\ Len(before \o behind) = Len(before) + Len(behind)
      /\ \A i \in 1..Len(before) + Len(behind) : (before \o behind)[i] =
             IF i <= Len(before) THEN before[i] ELSE behind[i - Len(before)]
  BY <1>1, <1>2, ConcatProperties
<1>5. \A i \in 1..Len(s) - 1 : RemoveAt(s, k)[i] = IF i < k THEN s[i] ELSE s[i + 1]
  <2> SUFFICES ASSUME NEW i \in 1..Len(s) - 1
               PROVE  (before \o behind)[i] = IF i < k THEN s[i] ELSE s[i + 1]
    BY <1>3
  <2>1. Len(s) \in Nat /\ Len(before) + Len(behind) = Len(s) - 1
    BY <1>1, <1>2, LenProperties
  <2>2. CASE i < k
    BY <1>1, <1>4, <2>1, <2>2
  <2>3. CASE ~(i < k)
    <3>1. i - Len(before) \in 1..Len(s) - k /\ k + (i - Len(before)) = i + 1
      BY <1>1, <2>1, <2>3
    <3>2. (before \o behind)[i] = behind[i - Len(before)]
      BY <1>1, <1>4, <2>1, <2>3
    <3> QED  BY <1>2, <2>3, <3>1, <3>2
  <2> QED  BY <2>2, <2>3
<1> QED  BY <1>1, <1>2, <1>3, <1>4, <1>5

(* The first call is replaced by others, which come before the rest.       *)
LEMMA InFront ==
    ASSUME NEW S, NEW s \in Seq(S), s # <<>>, NEW t \in Seq(S)
    PROVE  /\ t \o Tail(s) \in Seq(S)
           /\ Len(t \o Tail(s)) = Len(s) - 1 + Len(t)
           /\ \A i \in 1..Len(t) : (t \o Tail(s))[i] = t[i]
           /\ \A i \in Len(t) + 1..Len(s) - 1 + Len(t) : (t \o Tail(s))[i] = s[i - Len(t) + 1]
<1>1. Tail(s) \in Seq(S) /\ Len(Tail(s)) = Len(s) - 1 /\ \A i \in 1..Len(s) - 1 : Tail(s)[i] = s[i + 1]
  BY HeadTailProperties
<1> DEFINE rest == Tail(s)
<1> HIDE DEF rest
<1>2. /\ t \o rest \in Seq(S)
      /\ Len(t \o rest) = Len(t) + Len(rest)
      /\ \A i \in 1..Len(t) + Len(rest) : (t \o rest)[i] =
             IF i <= Len(t) THEN t[i] ELSE rest[i - Len(t)]
  BY <1>1, ConcatProperties DEF rest
<1>3. Len(t) \in Nat /\ Len(s) \in Nat
  BY LenProperties
<1>4. rest \in Seq(S) /\ Len(rest) = Len(s) - 1 /\ \A i \in 1..Len(s) - 1 : rest[i] = s[i + 1]
  BY <1>1 DEF rest
<1>5. /\ t \o rest \in Seq(S)
      /\ Len(t \o rest) = Len(s) - 1 + Len(t)
      /\ \A i \in 1..Len(t) : (t \o rest)[i] = t[i]
      /\ \A i \in Len(t) + 1..Len(s) - 1 + Len(t) : (t \o rest)[i] = s[i - Len(t) + 1]
  <2>1. t \o rest \in Seq(S)
    BY <1>2
  <2>2. Len(t \o rest) = Len(s) - 1 + Len(t)
    BY <1>2, <1>3, <1>4
  <2>3. \A i \in 1..Len(t) : (t \o rest)[i] = t[i]
    BY <1>2, <1>3, <1>4
  <2>4. ASSUME NEW i \in Len(t) + 1..Len(s) - 1 + Len(t)
        PROVE  (t \o rest)[i] = s[i - Len(t) + 1]
    <3>1. i - Len(t) \in 1..Len(s) - 1 /\ i \in 1..Len(t) + Len(rest) /\ ~(i <= Len(t))
      BY <1>3, <1>4
    <3>2. (t \o rest)[i] = rest[i - Len(t)]
      BY <1>2, <3>1
    <3>3. rest[i - Len(t)] = s[i - Len(t) + 1]
      BY <1>4, <3>1
    <3> QED  BY <3>2, <3>3
  <2> QED  BY <2>1, <2>2, <2>3, <2>4
<1> QED  BY <1>5 DEF rest

LEMMA PairIs ==
    ASSUME NEW S, NEW a \in S, NEW b \in S
    PROVE  <<a>> \o <<b>> = <<a, b>>
<1> DEFINE s == <<a>>
           t == <<b>>
           u == <<a, b>>
<1>1. /\ s \in Seq(S) /\ Len(s) = 1 /\ s[1] = a
      /\ t \in Seq(S) /\ Len(t) = 1 /\ t[1] = b
      /\ u \in Seq(S) /\ Len(u) = 2 /\ u[1] = a /\ u[2] = b
  OBVIOUS
<1> HIDE DEF s, t, u
<1>2. /\ s \o t \in Seq(S) /\ Len(s \o t) = Len(s) + Len(t)
      /\ \A i \in 1..Len(s) + Len(t) : (s \o t)[i] = IF i <= Len(s) THEN s[i] ELSE t[i - Len(s)]
  BY <1>1, ConcatProperties
<1>3. Len(s \o t) = Len(u) /\ \A i \in 1..Len(s \o t) : (s \o t)[i] = u[i]
  BY <1>1, <1>2
<1>4. s \o t = u
  BY <1>1, <1>2, <1>3, SeqEqual
<1> QED  BY <1>4 DEF s, t, u

-----------------------------------------------------------------------------
(* The inductive invariant.  The list is free of overlaps, and so is a     *)
(* rectangle of the nodes its call has passed; a call under another is at  *)
(* least as far, so what it does to the list lies ahead of the outer one.  *)
NodesClear   == \A i, j \in DOMAIN list : i # j => Clear(list[i], list[j])
CallsClear   == \A c \in DOMAIN calls : \A i \in DOMAIN list :
                    i < calls[c].node => Clear(list[i], calls[c].xrect)
CallsVisible == \A c \in DOMAIN calls : Visible(calls[c].xrect)
InnerFirst   == \A c, d \in DOMAIN calls : c < d => calls[c].node >= calls[d].node

(* A node without pixels fits in the one before it, from which it was cut; *)
(* or that one has gone, and the innermost call is about to take it away.  *)
ThinNode(i) ==
    /\ Thin(list[i])
    /\ \/ i > 1 /\ Visible(list[i - 1]) /\ Fits(list[i], list[i - 1])
       \/ /\ calls # <<>> /\ i = Node
          /\ Meeting.result = "covered" \/ (i > 1 /\ Meeting.result = "oldBroken")
ThinNodes == \A i \in DOMAIN list : ~Visible(list[i]) => ThinNode(i)

IInv == /\ TypeOK /\ NodesThere
        /\ NodesClear /\ CallsClear /\ CallsVisible /\ InnerFirst
        /\ ThinNodes

CallType == [node : Nat \ {0}, xrect : Rectangles]

(* What a call that is under way has before it.                            *)
LEMMA CallRight ==
    ASSUME IInv, calls # <<>>
    PROVE  /\ Len(calls) \in Nat /\ 1 \in DOMAIN calls /\ Node \in Nat \ {0}
           /\ Xrect \in Rectangles /\ Xrect \in Rect /\ OnScreen(Xrect) /\ Visible(Xrect)
           /\ calls[1].node = Node /\ calls[1].xrect = Xrect
           /\ list # <<>> => Node \in 1..Len(list) /\ list[Node] \in Rect /\ OnScreen(list[Node])
           /\ \A i \in DOMAIN list : i < Node => Clear(list[i], Xrect)
<1>1. /\ calls \in Seq(CallType) /\ list \in Seq(Rectangles) /\ NodesThere
      /\ \A i \in DOMAIN list : OnScreen(list[i])
      /\ \A i \in DOMAIN calls : OnScreen(calls[i].xrect)
      /\ CallsVisible /\ CallsClear
  BY DEF IInv, TypeOK, CallType
<1>2. Len(calls) \in Nat /\ DOMAIN calls = 1..Len(calls) /\ 1 \in DOMAIN calls /\ calls[1] \in CallType
  BY <1>1, LenProperties, EmptySeq, ElementOfSeq
<1>3. Head(calls) = calls[1]
  BY <1>1
<1>4. Node = calls[1].node /\ Xrect = calls[1].xrect
  BY <1>3 DEF Node, Xrect
<1>5. Node \in Nat \ {0} /\ Xrect \in Rectangles /\ OnScreen(Xrect) /\ Visible(Xrect)
  BY <1>1, <1>2, <1>4 DEF CallType, CallsVisible
<1>6. Xrect \in Rect
  BY <1>5, RectanglesAre
<1>7. ASSUME list # <<>>
      PROVE  Node \in 1..Len(list) /\ list[Node] \in Rect /\ OnScreen(list[Node])
  <2>1. Node <= Len(list)
    BY <1>2, <1>4, <1>1, <1>7 DEF NodesThere
  <2>2. Len(list) \in Nat /\ DOMAIN list = 1..Len(list)
    BY <1>1, LenProperties
  <2>3. Node \in 1..Len(list) /\ list[Node] \in Rectangles
    BY <1>1, <1>5, <2>1, <2>2, ElementOfSeq
  <2> QED  BY <1>1, <2>2, <2>3, RectanglesAre
<1>8. \A i \in DOMAIN list : i < Node => Clear(list[i], Xrect)
  BY <1>1, <1>2, <1>4 DEF CallsClear
<1> QED  BY <1>2, <1>4, <1>5, <1>6, <1>7, <1>8

-----------------------------------------------------------------------------
(* A step of the innermost call: what it does to the list lies at its node *)
(* or behind, and the calls it makes start there as well.                  *)
Ahead ==
    /\ list' \in Seq(Rectangles) /\ \A i \in DOMAIN list' : OnScreen(list'[i])
    /\ Len(list') >= Node
    /\ \A i \in 1..Node - 1 : list'[i] = list[i]
CallMade(c) ==
    /\ c \in CallType /\ c.node >= Node /\ c.node <= Len(list')
    /\ Visible(c.xrect) /\ OnScreen(c.xrect)
    /\ \A i \in DOMAIN list' : i < c.node => Clear(list'[i], c.xrect)

CallsRight == NodesThere /\ CallsClear /\ CallsVisible /\ InnerFirst

LEMMA CallsStay ==
    ASSUME IInv, calls # <<>>, list # <<>>, Ahead,
           NEW new \in Seq(CallType), calls' = new \o Tail(calls),
           \A c \in 1..Len(new) : CallMade(new[c]),
           \A c, d \in 1..Len(new) : new[c].node = new[d].node
    PROVE  TypeOK' /\ CallsRight'
<1> DEFINE k == Len(new)
<1>1. /\ Len(calls) \in Nat /\ Len(calls) >= 1 /\ calls \in Seq(CallType) /\ DOMAIN calls = 1..Len(calls)
      /\ calls[1].node = Node /\ Node \in 1..Len(list)
      /\ list \in Seq(Rectangles) /\ Len(list) \in Nat /\ DOMAIN list = 1..Len(list)
  <2>1. calls \in Seq(CallType) /\ list \in Seq(Rectangles)
    BY DEF IInv, TypeOK, CallType
  <2>2. Len(calls) \in Nat /\ DOMAIN calls = 1..Len(calls)
        /\ Len(list) \in Nat /\ DOMAIN list = 1..Len(list)
    BY <2>1, LenProperties
  <2> QED  BY <2>1, <2>2, CallRight
<1>2. /\ calls' \in Seq(CallType) /\ k \in Nat /\ Len(calls') = Len(calls) - 1 + k
      /\ DOMAIN calls' = 1..Len(calls')
      /\ \A i \in 1..k : calls'[i] = new[i]
      /\ \A i \in k + 1..Len(calls) - 1 + k : calls'[i] = calls[i - k + 1]
  <2>1. calls' \in Seq(CallType) /\ k \in Nat
    BY <1>1, InFront, LenProperties
  <2>2. DOMAIN calls' = 1..Len(calls')
    BY <2>1, LenProperties
  <2> QED  BY <1>1, <2>1, <2>2, InFront
<1>3. list' \in Seq(Rectangles) /\ Len(list') \in Nat /\ DOMAIN list' = 1..Len(list')
      /\ Len(list') >= Node /\ \A i \in 1..Node - 1 : list'[i] = list[i]
  <2>1. list' \in Seq(Rectangles)
    BY DEF Ahead
  <2> QED  BY <2>1, LenProperties DEF Ahead
<1> HIDE DEF k
(* Every call is a new one or one that was there. *)
<1>4. ASSUME NEW c \in DOMAIN calls'
      PROVE  \/ c \in 1..k /\ calls'[c] = new[c]
             \/ c > k /\ \E d \in DOMAIN calls : d > 1 /\ d = c - k + 1 /\ calls'[c] = calls[d]
  <2>1. c \in Nat /\ c >= 1 /\ c <= Len(calls) - 1 + k
    BY <1>2
  <2>2. CASE c <= k
    BY <1>2, <2>1, <2>2
  <2>3. CASE c > k
    BY <1>1, <1>2, <2>1, <2>3
  <2> QED  BY <1>2, <2>1, <2>2, <2>3
(* One that was there is no further than the innermost one was. *)
<1>5. ASSUME NEW d \in DOMAIN calls, d > 1
      PROVE  /\ calls[d].node \in Nat \ {0} /\ calls[d].node <= Node
             /\ Visible(calls[d].xrect) /\ OnScreen(calls[d].xrect)
             /\ \A i \in DOMAIN list' : i < calls[d].node => Clear(list'[i], calls[d].xrect)
  <2>1. calls[d] \in CallType
    BY <1>1, ElementOfSeq
  <2>2. calls[d].node \in Nat \ {0} /\ calls[d].node <= Node
    <3>1. 1 \in DOMAIN calls /\ 1 < d
      BY <1>1, <1>5
    <3>2. calls[1].node >= calls[d].node
      BY <3>1 DEF IInv, InnerFirst
    <3>3. calls[d].node \in Nat \ {0}
      BY <2>1 DEF CallType
    <3> QED  BY <1>1, <3>2, <3>3
  <2>3. Visible(calls[d].xrect) /\ OnScreen(calls[d].xrect)
    BY DEF IInv, TypeOK, CallsVisible
  <2>4. ASSUME NEW i \in DOMAIN list', i < calls[d].node
        PROVE  Clear(list'[i], calls[d].xrect)
    <3>1. i \in 1..Node - 1 /\ i \in DOMAIN list
      BY <1>1, <1>3, <2>2, <2>4
    <3>2. list'[i] = list[i]
      BY <1>3, <3>1
    <3> QED  BY <2>4, <3>1, <3>2 DEF IInv, CallsClear
  <2> QED  BY <2>2, <2>3, <2>4
<1>6. ASSUME NEW c \in DOMAIN calls'
      PROVE  /\ calls'[c].node \in Nat /\ calls'[c].node <= Len(list')
             /\ Visible(calls'[c].xrect) /\ OnScreen(calls'[c].xrect)
             /\ \A i \in DOMAIN list' : i < calls'[c].node => Clear(list'[i], calls'[c].xrect)
  <2>1. CASE c \in 1..k /\ calls'[c] = new[c]
    <3>1. CallMade(new[c])
      BY <2>1 DEF k
    <3> QED  BY <2>1, <3>1 DEF CallMade, CallType
  <2>2. CASE c > k /\ \E d \in DOMAIN calls : d > 1 /\ d = c - k + 1 /\ calls'[c] = calls[d]
    <3>1. PICK d \in DOMAIN calls : d > 1 /\ calls'[c] = calls[d]
      BY <2>2
    <3>2. calls[d].node \in Nat \ {0} /\ calls[d].node <= Node
      BY <1>5, <3>1
    <3>3. calls[d].node \in Nat /\ calls[d].node <= Len(list')
      BY <1>1, <1>3, <3>2
    <3> QED  BY <1>5, <3>1, <3>3
  <2> QED  BY <1>4, <2>1, <2>2
<1>7. ASSUME NEW c \in DOMAIN calls', NEW d \in DOMAIN calls', c < d
      PROVE  calls'[c].node >= calls'[d].node
  <2> DEFINE inner == calls'[c].node
             outer == calls'[d].node
  <2> HIDE DEF inner, outer
  <2> SUFFICES inner >= outer
    BY DEF inner, outer
  <2>1. CASE c \in 1..k /\ d \in 1..k
    <3>1. calls'[c] = new[c] /\ calls'[d] = new[d] /\ new[c].node = new[d].node
      BY <1>2, <2>1 DEF k
    <3>2. CallMade(new[c])
      BY <2>1 DEF k
    <3>3. new[c].node \in Nat
      BY <3>2 DEF CallMade, CallType
    <3>4. inner = outer /\ inner \in Nat
      BY <3>1, <3>3 DEF inner, outer
    <3> QED  BY <3>4
  <2>2. CASE c \in 1..k /\ d > k
    <3>1. calls'[c] = new[c] /\ CallMade(new[c])
      BY <1>2, <2>2 DEF k
    <3>0. d \notin 1..k
      BY <1>2, <2>2
    <3>2. PICK e \in DOMAIN calls : e > 1 /\ calls'[d] = calls[e]
      BY <1>4, <3>0
    <3>3. calls[e].node \in Nat /\ calls[e].node <= Node
      BY <1>5, <3>2
    <3>4. inner \in Nat /\ inner >= Node
      BY <3>1 DEF CallMade, CallType, inner
    <3>5. Node \in Nat
      BY <1>1
    <3>6. outer = calls[e].node
      BY <3>2 DEF outer
    <3>7. outer \in Nat /\ outer <= Node
      BY <3>3, <3>6
    <3> QED  BY <3>4, <3>5, <3>7
  <2>3. CASE c > k /\ d > k
    <3>1. PICK e \in DOMAIN calls : e = c - k + 1 /\ calls'[c] = calls[e]
      BY <1>2, <1>4, <2>3
    <3>2. PICK f \in DOMAIN calls : f = d - k + 1 /\ calls'[d] = calls[f]
      BY <1>2, <1>4, <2>3
    <3>3. e < f
      BY <1>2, <1>7, <3>1, <3>2
    <3> QED  BY <3>1, <3>2, <3>3 DEF IInv, InnerFirst, inner, outer
  <2>4. c \in Nat /\ d \in Nat /\ k \in Nat /\ c >= 1 /\ d >= 1
    BY <1>2
  <2> QED  BY <1>7, <2>1, <2>2, <2>3, <2>4
<1>8. TypeOK'
  BY <1>2, <1>3, <1>6 DEF TypeOK, CallType, Ahead
<1>9. NodesThere'
  BY <1>6 DEF NodesThere
<1>10. CallsClear' /\ CallsVisible'
  BY <1>6 DEF CallsClear, CallsVisible
<1>11. InnerFirst'
  BY <1>7 DEF InnerFirst
<1> QED  BY <1>8, <1>9, <1>10, <1>11 DEF CallsRight

(* The call ends, goes on, or makes way for the parts of its rectangle.    *)
LEMMA ReturnRight ==
    ASSUME IInv, calls # <<>>, list # <<>>, Ahead, calls' = Tail(calls)
    PROVE  TypeOK' /\ CallsRight'
<1>1. calls \in Seq(CallType)
  BY DEF IInv, TypeOK, CallType
<1>2. Tail(calls) \in Seq(CallType)
  BY <1>1, HeadTailProperties
<1> DEFINE new == <<>>
<1>3. calls' = new \o Tail(calls)
  BY <1>2, ConcatEmptySeq
<1>4. new \in Seq(CallType) /\ Len(new) = 0
  BY EmptySeq
<1> HIDE DEF new
<1>5. \A c \in 1..Len(new) : FALSE
  BY <1>4
<1> QED  BY <1>3, <1>4, <1>5, CallsStay

LEMMA GoesOnRight ==
    ASSUME IInv, calls # <<>>, list # <<>>, Ahead,
           NEW c, CallMade(c), calls' = <<c>> \o Tail(calls)
    PROVE  TypeOK' /\ CallsRight'
<1>1. <<c>> \in Seq(CallType) /\ Len(<<c>>) = 1 /\ <<c>>[1] = c
  BY DEF CallMade
<1> DEFINE new == <<c>>
<1>2. \A d \in 1..Len(new) : new[d] = c
  BY <1>1
<1> HIDE DEF new
<1>3. new \in Seq(CallType) /\ calls' = new \o Tail(calls)
  BY <1>1 DEF new
<1> QED  BY <1>2, <1>3, CallsStay

LEMMA PartsGoOnRight ==
    ASSUME IInv, calls # <<>>, list # <<>>, Ahead,
           NEW c, NEW d, CallMade(c), CallMade(d), c.node = d.node,
           calls' = <<c, d>> \o Tail(calls)
    PROVE  TypeOK' /\ CallsRight'
<1> DEFINE new == <<c, d>>
<1>1. new \in Seq(CallType) /\ Len(new) = 2 /\ new[1] = c /\ new[2] = d
  BY DEF CallMade
<1>2. \A e \in 1..Len(new) : new[e] = c \/ new[e] = d
  BY <1>1
<1>3. calls' = new \o Tail(calls)
  OBVIOUS
<1> HIDE DEF new
<1>4. \A e \in 1..Len(new) : CallMade(new[e])
  BY <1>2
<1>5. \A e, f \in 1..Len(new) : new[e].node = new[f].node
  BY <1>2
<1> QED  BY <1>1, <1>3, <1>4, <1>5, CallsStay

(* The node of the innermost call is the only part that ++ changes.        *)
LEMMA NextNode ==
    ASSUME IInv, calls # <<>>
    PROVE  [calls EXCEPT ![1].node = @ + 1] = <<Call(Node + 1, Xrect)>> \o Tail(calls)
<1>1. calls \in Seq(CallType) /\ Len(calls) \in Nat /\ Len(calls) >= 1 /\ 1 \in 1..Len(calls)
      /\ calls[1].node = Node /\ calls[1].xrect = Xrect /\ Node \in Nat \ {0} /\ Xrect \in Rectangles
  <2>1. calls \in Seq(CallType)
    BY DEF IInv, TypeOK, CallType
  <2> QED  BY <2>1, LenProperties, CallRight
<1> DEFINE c == Call(Node + 1, Xrect)
<1>2. c \in CallType
  BY <1>1 DEF Call, CallType
<1>3. [calls EXCEPT ![1].node = @ + 1] = [calls EXCEPT ![1] = c]
  <2>1. calls[1] \in CallType
    BY <1>1, ElementOfSeq
  <2>2. [calls[1] EXCEPT !.node = @ + 1] = c
    BY <1>1, <2>1 DEF Call, CallType
  <2> QED  BY <2>2
<1> HIDE DEF c
<1> DEFINE s == [calls EXCEPT ![1] = c]
           t == <<c>> \o Tail(calls)
<1>4. /\ s \in Seq(CallType) /\ Len(s) = Len(calls)
      /\ \A j \in 1..Len(calls) : s[j] = IF j = 1 THEN c ELSE calls[j]
  BY <1>1, <1>2, ExceptSeq
<1>5. <<c>> \in Seq(CallType) /\ Len(<<c>>) = 1 /\ <<c>>[1] = c
  BY <1>2
<1>6. /\ t \in Seq(CallType) /\ Len(t) = Len(calls) - 1 + 1
      /\ \A i \in 1..1 : t[i] = <<c>>[i]
      /\ \A i \in 2..Len(calls) - 1 + 1 : t[i] = calls[i - 1 + 1]
  BY <1>1, <1>5, InFront
<1>7. ASSUME NEW j \in 1..Len(s)
      PROVE  s[j] = t[j]
  <2>1. CASE j = 1
    BY <1>1, <1>4, <1>5, <1>6, <2>1
  <2>2. CASE j # 1
    <3>1. j \in 2..Len(calls) - 1 + 1 /\ j - 1 + 1 = j /\ j \in 1..Len(calls)
      BY <1>1, <1>4, <2>2
    <3> QED  BY <1>4, <1>6, <2>2, <3>1
  <2> QED  BY <2>1, <2>2
<1>8. Len(s) = Len(t)
  BY <1>1, <1>4, <1>6
<1> HIDE DEF s, t
<1>9. s = t
  BY <1>4, <1>6, <1>7, <1>8, SeqEqual
<1> QED  BY <1>3, <1>9 DEF s, t, c

-----------------------------------------------------------------------------
(* The three things that happen to the list: nothing, its end is replaced, *)
(* or a node is taken out.                                                 *)
LEMMA ListIs ==
    ASSUME IInv
    PROVE  /\ list \in Seq(Rectangles) /\ Len(list) \in Nat /\ DOMAIN list = 1..Len(list)
           /\ \A i \in 1..Len(list) : list[i] \in Rectangles /\ list[i] \in Rect /\ OnScreen(list[i])
<1>1. list \in Seq(Rectangles) /\ \A i \in DOMAIN list : OnScreen(list[i])
  BY DEF IInv, TypeOK
<1>2. Len(list) \in Nat /\ DOMAIN list = 1..Len(list)
  BY <1>1, LenProperties
<1>3. \A i \in 1..Len(list) : list[i] \in Rectangles
  BY <1>1, ElementOfSeq
<1> QED  BY <1>1, <1>2, <1>3, RectanglesAre

(* A thin node the innermost call does not take away has its place in the  *)
(* node before it.                                                         *)
LEMMA ThinBehind ==
    ASSUME IInv, NEW i \in DOMAIN list, ~Visible(list[i]),
           \/ calls = <<>> \/ i # Node \/ Meeting.result \notin {"covered", "oldBroken"}
    PROVE  Thin(list[i]) /\ i > 1 /\ Visible(list[i - 1]) /\ Fits(list[i], list[i - 1])
<1>1. ThinNode(i)
  BY DEF IInv, ThinNodes
<1> QED  BY <1>1 DEF ThinNode

LEMMA ListStays ==
    ASSUME IInv, calls # <<>>, list # <<>>, UNCHANGED list,
           Meeting.result \notin {"covered", "oldBroken"}
    PROVE  Ahead /\ NodesClear' /\ ThinNodes'
<1>1. Ahead
  <2>1. Node \in 1..Len(list)
    BY CallRight
  <2> QED  BY <2>1, ListIs DEF Ahead
<1>2. NodesClear'
  BY DEF IInv, NodesClear
<1>3. ThinNodes'
  <2>1. ASSUME NEW i \in DOMAIN list, ~Visible(list[i])
        PROVE  Thin(list[i]) /\ i > 1 /\ Visible(list[i - 1]) /\ Fits(list[i], list[i - 1])
    BY <2>1, ThinBehind
  <2> QED  BY <2>1 DEF ThinNodes, ThinNode
<1> QED  BY <1>1, <1>2, <1>3

LEMMA EndReplaced ==
    ASSUME IInv, calls # <<>>, list # <<>>, AtLast,
           list' \in Seq(Rect), Len(list') >= Node,
           \A i \in 1..Node - 1 : list'[i] = list[i],
           \A i \in Node..Len(list') :
               /\ OnScreen(list'[i])
               /\ \A j \in 1..Node - 1 : Clear(list[j], list'[i])
               /\ \A j \in Node..Len(list') : i # j => Clear(list'[i], list'[j])
               /\ \/ Visible(list'[i])
                  \/ Thin(list'[i]) /\ i > 1 /\ Visible(list'[i - 1]) /\ Fits(list'[i], list'[i - 1])
    PROVE  Ahead /\ NodesClear' /\ ThinNodes'
<1>1. /\ Node \in 1..Len(list) /\ Node = Len(list) /\ Len(list) \in Nat
      /\ Len(list') \in Nat /\ DOMAIN list' = 1..Len(list')
  <2>1. Len(list') \in Nat /\ DOMAIN list' = 1..Len(list')
    BY LenProperties
  <2> QED  BY <2>1, CallRight, ListIs DEF AtLast
<1>2. ASSUME NEW i \in DOMAIN list'
      PROVE  \/ i \in 1..Node - 1 /\ i \in DOMAIN list /\ list'[i] = list[i]
             \/ i \in Node..Len(list')
  BY <1>1, ListIs
<1>3. Ahead
  <2>1. ASSUME NEW i \in 1..Len(list')
        PROVE  list'[i] \in Rectangles /\ OnScreen(list'[i])
    <3>1. list'[i] \in Rect
      BY ElementOfSeq
    <3>2. OnScreen(list'[i])
      BY <1>1, <1>2, ListIs
    <3> QED  BY <3>1, <3>2, RectanglesAre
  <2>2. list' \in [1..Len(list') -> Rectangles]
    BY <2>1, LenProperties
  <2>3. list' \in Seq(Rectangles)
    BY <1>1, <2>2
  <2> QED  BY <1>1, <2>1, <2>3 DEF Ahead
<1>4. NodesClear'
  <2> SUFFICES ASSUME NEW i \in DOMAIN list', NEW j \in DOMAIN list', i # j
               PROVE  Clear(list'[i], list'[j])
    BY DEF NodesClear
  <2>1. CASE i \in 1..Node - 1 /\ j \in 1..Node - 1
    BY <1>1, <2>1, ListIs DEF IInv, NodesClear
  <2>2. CASE i \in 1..Node - 1 /\ j \in Node..Len(list')
    BY <2>2
  <2>3. CASE i \in Node..Len(list') /\ j \in 1..Node - 1
    BY <2>3, ClearBothWays
  <2>4. CASE i \in Node..Len(list') /\ j \in Node..Len(list')
    BY <2>4
  <2> QED  BY <1>2, <2>1, <2>2, <2>3, <2>4
<1>5. ThinNodes'
  <2> SUFFICES ASSUME NEW i \in DOMAIN list', ~Visible(list'[i])
               PROVE  Thin(list'[i]) /\ i > 1 /\ Visible(list'[i - 1]) /\ Fits(list'[i], list'[i - 1])
    BY DEF ThinNodes, ThinNode
  <2>1. CASE i \in 1..Node - 1 /\ i \in DOMAIN list /\ list'[i] = list[i]
    <3>1. i # Node
      BY <1>1, <2>1
    <3>2. Thin(list[i]) /\ i > 1 /\ Visible(list[i - 1]) /\ Fits(list[i], list[i - 1])
      BY <2>1, <3>1, ThinBehind
    <3>3. i - 1 \in 1..Node - 1
      BY <1>1, <2>1, <3>2
    <3> QED  BY <2>1, <3>2, <3>3
  <2>2. CASE i \in Node..Len(list')
    BY <2>2
  <2> QED  BY <1>2, <2>1, <2>2
<1> QED  BY <1>3, <1>4, <1>5

LEMMA NodeTakenOut ==
    ASSUME IInv, calls # <<>>, list # <<>>, ~AtLast,
           list' = RemoveAt(list, Node),
           calls' # <<>>, Node' = Node, Xrect' \in Rect,
           Visible(list[Node]) => Fits(list[Node], Xrect')
    PROVE  Ahead /\ NodesClear' /\ ThinNodes'
<1>1. /\ Node \in 1..Len(list) /\ Node < Len(list) /\ Len(list) \in Nat
      /\ list \in Seq(Rectangles) /\ DOMAIN list = 1..Len(list)
      /\ \A i \in 1..Len(list) : list[i] \in Rect /\ OnScreen(list[i])
  BY CallRight, ListIs DEF AtLast
<1>2. /\ list' \in Seq(Rectangles)
      /\ Len(list') = Len(list) - 1 /\ DOMAIN list' = 1..Len(list) - 1
      /\ \A i \in 1..Len(list) - 1 : list'[i] = IF i < Node THEN list[i] ELSE list[i + 1]
  <2>1. /\ list' \in Seq(Rectangles) /\ Len(list') = Len(list) - 1
        /\ \A i \in 1..Len(list) - 1 : list'[i] = IF i < Node THEN list[i] ELSE list[i + 1]
    BY <1>1, RemoveAtRight
  <2> QED  BY <2>1, LenProperties
<1>3. ASSUME NEW i \in DOMAIN list'
      PROVE  \E j \in DOMAIN list : j # Node /\ list'[i] = list[j] /\ j = IF i < Node THEN i ELSE i + 1
  <2>1. i \in 1..Len(list) - 1
    BY <1>2
  <2>2. CASE i < Node
    BY <1>1, <1>2, <2>1, <2>2
  <2>3. CASE ~(i < Node)
    <3>1. i + 1 \in DOMAIN list /\ i + 1 # Node
      BY <1>1, <2>1, <2>3
    <3> QED  BY <1>2, <2>1, <2>3, <3>1
  <2> QED  BY <2>2, <2>3
<1>4. Ahead
  <2>1. \A i \in DOMAIN list' : OnScreen(list'[i])
    BY <1>1, <1>3
  <2>2. Len(list') >= Node /\ \A i \in 1..Node - 1 : list'[i] = list[i]
    BY <1>1, <1>2
  <2> QED  BY <1>2, <2>1, <2>2 DEF Ahead
<1>5. NodesClear'
  <2> SUFFICES ASSUME NEW i \in DOMAIN list', NEW j \in DOMAIN list', i # j
               PROVE  Clear(list'[i], list'[j])
    BY DEF NodesClear
  <2>1. PICK k \in DOMAIN list : list'[i] = list[k] /\ k = IF i < Node THEN i ELSE i + 1
    BY <1>3
  <2>2. PICK l \in DOMAIN list : list'[j] = list[l] /\ l = IF j < Node THEN j ELSE j + 1
    BY <1>3
  <2>3. k # l
    BY <1>1, <1>2, <2>1, <2>2
  <2> QED  BY <2>1, <2>2, <2>3 DEF IInv, NodesClear
<1>6. ThinNodes'
  <2> SUFFICES ASSUME NEW i \in DOMAIN list', ~Visible(list'[i])
               PROVE  ThinNode(i)'
    BY DEF ThinNodes
  <2>1. PICK j \in DOMAIN list : j # Node /\ list'[i] = list[j] /\ j = IF i < Node THEN i ELSE i + 1
    BY <1>3
  <2>2. Thin(list[j]) /\ j > 1 /\ Visible(list[j - 1]) /\ Fits(list[j], list[j - 1])
    BY <2>1, ThinBehind
  <2>3. i \in 1..Len(list) - 1
    BY <1>2
  <2>4. CASE i = Node
    <3>1. j = Node + 1 /\ j - 1 = Node
      BY <1>1, <2>1, <2>4
    <3>2. Fits(list[j], list[Node]) /\ Fits(list[Node], Xrect')
      BY <2>2, <3>1
    <3>3. list[j] \in Rect /\ list[Node] \in Rect
      BY <1>1
    <3>4. Fits(list[j], Xrect')
      BY <3>2, <3>3, FitsTransitive
    <3>5. Collide(list[j], Xrect').result = "covered"
      BY <3>3, <3>4, CoveredRight
    <3>6. Meeting'.result = "covered"
      BY <2>1, <2>4, <3>5 DEF Meeting
    <3> QED  BY <2>1, <2>2, <2>4, <3>6 DEF ThinNode
  <2>5. CASE i # Node
    <3>1. i > 1 /\ i - 1 \in 1..Len(list) - 1 /\ list'[i - 1] = list[j - 1]
      <4>1. CASE i < Node
        <5>1. j = i /\ i - 1 \in 1..Len(list) - 1 /\ i - 1 < Node /\ i > 1
          BY <1>1, <2>1, <2>2, <2>3, <4>1
        <5> QED  BY <1>2, <5>1
      <4>2. CASE ~(i < Node)
        <5>1. j = i + 1 /\ i - 1 \in 1..Len(list) - 1 /\ ~(i - 1 < Node) /\ i > 1 /\ (i - 1) + 1 = j - 1
          BY <1>1, <2>1, <2>3, <2>5, <4>2
        <5> QED  BY <1>2, <5>1
      <4> QED  BY <4>1, <4>2
    <3> QED  BY <2>1, <2>2, <3>1 DEF ThinNode
  <2> QED  BY <2>4, <2>5
<1> QED  BY <1>4, <1>5, <1>6

-----------------------------------------------------------------------------
(* The iterations, one by one: each keeps the invariant.                   *)
LEMMA StepKept ==
    ASSUME TypeOK', CallsRight', NodesClear', ThinNodes'
    PROVE  IInv'
  BY DEF IInv, CallsRight

LEMMA Around ==
    ASSUME IInv, calls # <<>>, list # <<>>
    PROVE  /\ Node \in 1..Len(list) /\ list[Node] \in Rect /\ OnScreen(list[Node])
           /\ Xrect \in Rect /\ Xrect \in Rectangles /\ OnScreen(Xrect) /\ Visible(Xrect)
           /\ \A i \in 1..Node - 1 : Clear(list[i], Xrect) /\ Clear(list[i], list[Node])
           /\ list \in Seq(Rectangles) /\ Len(list) \in Nat
           /\ \A i \in 1..Len(list) : list[i] \in Rect /\ OnScreen(list[i])
<1>1. Node \in 1..Len(list) /\ Len(list) \in Nat
  BY CallRight, ListIs
<1>2. ASSUME NEW i \in 1..Node - 1
      PROVE  Clear(list[i], Xrect) /\ Clear(list[i], list[Node])
  BY <1>1, CallRight, ListIs DEF IInv, NodesClear
<1> QED  BY <1>1, <1>2, CallRight, ListIs

(* The last node gives its place to a rectangle.                           *)
LEMMA LastReplaced ==
    ASSUME IInv, calls # <<>>, list # <<>>, AtLast,
           NEW r \in Rect, OnScreen(r), Visible(r), list' = [list EXCEPT ![Node] = r],
           \A i \in 1..Node - 1 : Clear(list[i], r)
    PROVE  Ahead /\ NodesClear' /\ ThinNodes'
<1>1. Node \in 1..Len(list) /\ Node = Len(list) /\ Len(list) \in Nat /\ list \in Seq(Rect)
  BY Around, RectanglesAre, SeqMonotonic DEF AtLast
<1>2. /\ list' \in Seq(Rect) /\ Len(list') = Node
      /\ \A j \in 1..Len(list) : list'[j] = IF j = Node THEN r ELSE list[j]
  BY <1>1, ExceptSeq
<1>3. list'[Node] = r /\ \A i \in 1..Node - 1 : list'[i] = list[i]
  BY <1>1, <1>2
<1>4. \A i \in Node..Len(list') : i = Node
  BY <1>1, <1>2
<1>5. Len(list') >= Node
  BY <1>1, <1>2
<1> QED  BY <1>2, <1>3, <1>4, <1>5, EndReplaced

LEMMA FirstKeeps ==
    ASSUME IInv, First
    PROVE  IInv'
<1>1. calls # <<>> /\ list = <<>> /\ list' = <<Xrect>> /\ calls' = Tail(calls)
  BY DEF First, Return
<1>2. Xrect \in Rectangles /\ OnScreen(Xrect) /\ Visible(Xrect) /\ calls \in Seq(CallType)
      /\ Len(calls) \in Nat /\ 1 \in DOMAIN calls /\ calls[1].node \in Nat \ {0}
  BY <1>1, CallRight DEF IInv, TypeOK, CallType
<1>3. Len(list) = 0
  BY <1>1
<1>4. Len(calls) = 1
  BY <1>2, <1>3 DEF IInv, NodesThere
<1>5. calls' \in Seq(CallType) /\ Len(calls') = 0
  BY <1>1, <1>2, <1>4, HeadTailProperties
<1>6. calls' = <<>> /\ DOMAIN calls' = {}
  BY <1>5
<1>7. DOMAIN list' = {1} /\ list'[1] = Xrect /\ list' \in Seq(Rectangles)
  BY <1>1, <1>2
<1> QED
  BY <1>2, <1>5, <1>6, <1>7
  DEF IInv, TypeOK, CallType, NodesThere, NodesClear, CallsClear, CallsVisible, InnerFirst, ThinNodes

LEMMA NoCollisionKeeps ==
    ASSUME IInv, NoCollision
    PROVE  IInv'
<1>1. calls # <<>> /\ list # <<>> /\ Meeting.result = "apart"
  BY DEF NoCollision, Walking
<1>2. /\ Node \in 1..Len(list) /\ list[Node] \in Rect /\ OnScreen(list[Node])
      /\ Xrect \in Rect /\ Xrect \in Rectangles /\ OnScreen(Xrect) /\ Visible(Xrect)
      /\ \A i \in 1..Node - 1 : Clear(list[i], Xrect) /\ Clear(list[i], list[Node])
      /\ list \in Seq(Rectangles) /\ Len(list) \in Nat
      /\ \A i \in 1..Len(list) : list[i] \in Rect /\ OnScreen(list[i])
  BY <1>1, Around
<1>3. Clear(list[Node], Xrect)
  BY <1>1, <1>2, ApartRight DEF Meeting
<1>4. CASE AtLast
  <2>1. list' = Append(list, Xrect) /\ calls' = Tail(calls) /\ Node = Len(list)
    BY <1>4 DEF NoCollision, Return, AtLast
  <2>2. list \in Seq(Rect)
    BY <1>2, RectanglesAre, SeqMonotonic
  <2>3. /\ list' \in Seq(Rect) /\ Len(list') = Node + 1
        /\ \A i \in 1..Node : list'[i] = list[i]
        /\ list'[Node + 1] = Xrect
    BY <1>2, <2>1, <2>2, AppendProperties
  <2>4. ASSUME NEW i \in Node..Len(list')
        PROVE  /\ OnScreen(list'[i])
               /\ \A j \in 1..Node - 1 : Clear(list[j], list'[i])
               /\ \A j \in Node..Len(list') : i # j => Clear(list'[i], list'[j])
               /\ \/ Visible(list'[i])
                  \/ Thin(list'[i]) /\ i > 1 /\ Visible(list'[i - 1]) /\ Fits(list'[i], list'[i - 1])
    <3>1. CASE i = Node
      <4>1. list'[i] = list[Node] /\ \A j \in 1..Node - 1 : Clear(list[j], list'[i])
        BY <1>2, <2>1, <2>3, <3>1, ListIs DEF IInv, NodesClear
      <4>2. \A j \in Node..Len(list') : i # j => Clear(list'[i], list'[j])
        BY <1>2, <1>3, <2>3, <3>1
      <4>3. ~Visible(list[Node]) =>
                Thin(list[Node]) /\ Node > 1 /\ Visible(list[Node - 1]) /\ Fits(list[Node], list[Node - 1])
        BY <1>1, <1>2, ListIs, ThinBehind
      <4>4. Node > 1 => list'[Node - 1] = list[Node - 1]
        BY <1>2, <2>3
      <4> QED  BY <1>2, <3>1, <4>1, <4>2, <4>3, <4>4
    <3>2. CASE i = Node + 1
      <4>1. list'[i] = Xrect
        BY <2>3, <3>2
      <4>2. \A j \in Node..Len(list') : i # j => j = Node
        BY <1>2, <2>3, <3>2
      <4>3. Clear(Xrect, list'[Node])
        BY <1>2, <1>3, <2>3, ClearBothWays
      <4> QED  BY <1>2, <4>1, <4>2, <4>3
    <3> QED  BY <1>2, <2>3, <3>1, <3>2
  <2>5. Ahead /\ NodesClear' /\ ThinNodes'
    <3>1. Len(list') >= Node /\ \A i \in 1..Node - 1 : list'[i] = list[i]
      BY <1>2, <2>3
    <3> QED  BY <1>1, <1>4, <2>3, <2>4, <3>1, EndReplaced
  <2>6. TypeOK' /\ CallsRight'
    BY <1>1, <2>1, <2>5, ReturnRight
  <2> QED  BY <2>5, <2>6, StepKept
<1>5. CASE ~AtLast
  <2>1. /\ UNCHANGED list
        /\ calls' = <<Call(Node + 1, Xrect)>> \o Tail(calls)
    BY <1>1, <1>5, NextNode DEF NoCollision
  <2>2. Ahead /\ NodesClear' /\ ThinNodes'
    BY <1>1, <2>1, ListStays
  <2>3. CallMade(Call(Node + 1, Xrect))
    <3>1. Call(Node + 1, Xrect) \in CallType /\ Node + 1 >= Node /\ Node + 1 <= Len(list')
      BY <1>2, <1>5, <2>1 DEF Call, CallType, AtLast
    <3>2. ASSUME NEW i \in DOMAIN list', i < Node + 1
          PROVE  Clear(list'[i], Xrect)
      <4>1. i \in 1..Node - 1 \/ i = Node
        BY <1>2, <2>1, <3>2, ListIs
      <4> QED  BY <1>2, <1>3, <2>1, <4>1
    <3> QED  BY <1>2, <3>1, <3>2 DEF CallMade, Call
  <2>4. TypeOK' /\ CallsRight'
    BY <1>1, <2>1, <2>2, <2>3, GoesOnRight
  <2> QED  BY <2>2, <2>4, StepKept
<1> QED  BY <1>4, <1>5

(* A call that enters again from the node it had reached.                  *)
LEMMA ReenterIs ==
    ASSUME IInv, calls # <<>>, NEW n \in Nat \ {0}, NEW r \in Rectangles,
           calls' = <<Call(n, r)>> \o Tail(calls)
    PROVE  calls' # <<>> /\ Node' = n /\ Xrect' = r
<1>1. calls \in Seq(CallType)
  BY DEF IInv, TypeOK, CallType
<1>2. <<Call(n, r)>> \in Seq(CallType) /\ Len(<<Call(n, r)>>) = 1 /\ <<Call(n, r)>>[1] = Call(n, r)
  BY DEF Call, CallType
<1> DEFINE new == <<Call(n, r)>>
<1>3. new \in Seq(CallType) /\ Len(new) = 1 /\ new[1] = Call(n, r) /\ calls' = new \o Tail(calls)
  BY <1>2
<1> HIDE DEF new
<1>4. /\ calls' \in Seq(CallType) /\ Len(calls') = Len(calls) - 1 + 1
      /\ \A i \in 1..1 : calls'[i] = new[i]
  BY <1>1, <1>3, InFront
<1>5. Len(calls) \in Nat /\ Len(calls) > 0
  BY <1>1, EmptySeq
<1>6. calls' # <<>> /\ Head(calls') = Call(n, r)
  BY <1>3, <1>4, <1>5
<1> QED  BY <1>6 DEF Node, Xrect, Call

LEMMA CallAgain ==
    ASSUME IInv, calls # <<>>, list # <<>>, Ahead,
           NEW r \in Rectangles, Visible(r), OnScreen(r),
           \A i \in 1..Node - 1 : Clear(list[i], r)
    PROVE  CallMade(Call(Node, r))
<1>1. Node \in 1..Len(list) /\ Len(list) \in Nat
  BY Around
<1>2. Call(Node, r) \in CallType
  BY <1>1 DEF Call, CallType
<1>3. list' \in Seq(Rectangles) /\ Node <= Len(list') /\ \A i \in 1..Node - 1 : list'[i] = list[i]
  BY <1>1, LenProperties DEF Ahead
<1>4. DOMAIN list' = 1..Len(list') /\ Len(list') \in Nat
  BY <1>3, LenProperties
<1>5. ASSUME NEW i \in DOMAIN list', i < Node
      PROVE  Clear(list'[i], r)
  <2>1. i \in 1..Node - 1
    BY <1>1, <1>4, <1>5
  <2> QED  BY <1>3, <2>1
<1> QED  BY <1>1, <1>2, <1>3, <1>5 DEF CallMade, Call

LEMMA OldCoveredKeeps ==
    ASSUME IInv, OldCovered
    PROVE  IInv'
<1>1. calls # <<>> /\ list # <<>> /\ Meeting.result = "covered"
  BY DEF OldCovered, Walking
<1>2. /\ Node \in 1..Len(list) /\ list[Node] \in Rect
      /\ Xrect \in Rect /\ Xrect \in Rectangles /\ OnScreen(Xrect) /\ Visible(Xrect)
      /\ \A i \in 1..Node - 1 : Clear(list[i], Xrect)
      /\ Len(list) \in Nat
  BY <1>1, Around
<1>3. Fits(list[Node], Xrect)
  BY <1>1, <1>2, CoveredRight DEF Meeting
<1>4. CASE AtLast
  <2>1. list' = [list EXCEPT ![Node] = Xrect] /\ calls' = Tail(calls)
    BY <1>2, <1>4 DEF OldCovered, Return
  <2>2. Ahead /\ NodesClear' /\ ThinNodes'
    BY <1>1, <1>2, <1>4, <2>1, LastReplaced
  <2>3. TypeOK' /\ CallsRight'
    BY <1>1, <2>1, <2>2, ReturnRight
  <2> QED  BY <2>2, <2>3, StepKept
<1>5. CASE ~AtLast
  <2>1. list' = RemoveAt(list, Node) /\ calls' = <<Call(Node, Xrect)>> \o Tail(calls)
    BY <1>2, <1>5 DEF OldCovered, Reenter, Inserted
  <2>2. calls' # <<>> /\ Node' = Node /\ Xrect' = Xrect
    BY <1>1, <1>2, <2>1, ReenterIs
  <2>3. Ahead /\ NodesClear' /\ ThinNodes'
    BY <1>1, <1>2, <1>3, <1>5, <2>1, <2>2, NodeTakenOut
  <2>4. CallMade(Call(Node, Xrect))
    BY <1>1, <1>2, <2>3, CallAgain
  <2>5. TypeOK' /\ CallsRight'
    BY <1>1, <2>1, <2>3, <2>4, GoesOnRight
  <2> QED  BY <2>3, <2>5, StepKept
<1> QED  BY <1>4, <1>5

LEMMA NewCoveredKeeps ==
    ASSUME IInv, NewCovered
    PROVE  IInv'
<1>1. /\ calls # <<>> /\ list # <<>> /\ Meeting.result = "covers"
      /\ UNCHANGED list /\ calls' = Tail(calls)
  BY DEF NewCovered, Walking, Return
<1>2. Ahead /\ NodesClear' /\ ThinNodes'
  BY <1>1, ListStays
<1>3. TypeOK' /\ CallsRight'
  BY <1>1, <1>2, ReturnRight
<1> QED  BY <1>2, <1>3, StepKept

LEMMA GroupedKeeps ==
    ASSUME IInv, Grouped
    PROVE  IInv'
<1> DEFINE group == Meeting.rects[1]
<1>1. calls # <<>> /\ list # <<>> /\ Meeting.result = "grouped"
  BY DEF Grouped, Walking
<1>2. /\ Node \in 1..Len(list) /\ list[Node] \in Rect /\ OnScreen(list[Node])
      /\ Xrect \in Rect /\ OnScreen(Xrect) /\ Visible(Xrect)
      /\ \A i \in 1..Node - 1 : Clear(list[i], Xrect) /\ Clear(list[i], list[Node])
      /\ \A i \in 1..Len(list) : list[i] \in Rect
      /\ Len(list) \in Nat
  BY <1>1, Around
<1>3. /\ group \in Rect /\ Visible(group) /\ Fits(list[Node], group) /\ OnScreen(group)
      /\ \A q \in Rect : Clear(list[Node], q) /\ Clear(Xrect, q) => Clear(group, q)
  BY <1>1, <1>2, GroupedRight DEF Meeting
<1>4. group \in Rectangles
  BY <1>3, RectanglesAre
<1>5. ASSUME NEW i \in 1..Node - 1
      PROVE  Clear(list[i], group)
  <2>1. list[i] \in Rect
    BY <1>2
  <2>2. Clear(group, list[i])
    BY <1>2, <1>3, <2>1, ClearBothWays
  <2> QED  BY <2>2, ClearBothWays
<1> HIDE DEF group
<1>6. CASE AtLast
  <2>1. list' = [list EXCEPT ![Node] = group] /\ calls' = Tail(calls)
    BY <1>6 DEF Grouped, Return, group
  <2>2. Ahead /\ NodesClear' /\ ThinNodes'
    BY <1>1, <1>3, <1>5, <1>6, <2>1, LastReplaced
  <2>3. TypeOK' /\ CallsRight'
    BY <1>1, <2>1, <2>2, ReturnRight
  <2> QED  BY <2>2, <2>3, StepKept
<1>7. CASE ~AtLast
  <2>1. list' = RemoveAt(list, Node) /\ calls' = <<Call(Node, group)>> \o Tail(calls)
    BY <1>3, <1>7 DEF Grouped, Reenter, Inserted, group
  <2>2. calls' # <<>> /\ Node' = Node /\ Xrect' = group
    BY <1>1, <1>2, <1>4, <2>1, ReenterIs
  <2>3. Ahead /\ NodesClear' /\ ThinNodes'
    BY <1>1, <1>3, <1>7, <2>1, <2>2, NodeTakenOut
  <2>4. CallMade(Call(Node, group))
    BY <1>1, <1>3, <1>4, <1>5, <2>3, CallAgain
  <2>5. TypeOK' /\ CallsRight'
    BY <1>1, <2>1, <2>3, <2>4, GoesOnRight
  <2> QED  BY <2>3, <2>5, StepKept
<1> QED  BY <1>6, <1>7

(* The node keeps what is left of it.  One without pixels behind it still  *)
(* fits in that, or is lost to the same rectangle at the next iteration.   *)
LEMMA OldBrokenKeeps ==
    ASSUME IInv, OldBroken
    PROVE  IInv'
<1> DEFINE rest == Meeting.rects[1]
<1>1. calls # <<>> /\ list # <<>> /\ Meeting.result = "oldBroken" /\ Visible(rest)
  BY DEF OldBroken, Walking
<1>2. /\ Node \in 1..Len(list) /\ list[Node] \in Rect /\ OnScreen(list[Node])
      /\ Xrect \in Rect /\ Xrect \in Rectangles /\ OnScreen(Xrect) /\ Visible(Xrect)
      /\ \A i \in 1..Node - 1 : Clear(list[i], Xrect) /\ Clear(list[i], list[Node])
      /\ list \in Seq(Rectangles) /\ Len(list) \in Nat /\ DOMAIN list = 1..Len(list)
      /\ \A i \in 1..Len(list) : list[i] \in Rect /\ OnScreen(list[i])
  BY <1>1, Around, ListIs
<1>3. rest \in Rect /\ Fits(rest, list[Node]) /\ Clear(rest, Xrect)
  BY <1>1, <1>2, OldBrokenRight DEF Meeting
<1>4. rest \in Rectangles /\ OnScreen(rest)
  BY <1>2, <1>3, RectanglesAre
<1>5. ASSUME NEW i \in 1..Len(list), i # Node
      PROVE  Clear(list[i], rest)
  <2>1. list[i] \in Rect /\ Clear(list[Node], list[i])
    BY <1>2, <1>5 DEF IInv, NodesClear
  <2>2. Clear(rest, list[i])
    BY <1>2, <1>3, <2>1, FitsClear
  <2> QED  BY <2>2, ClearBothWays
<1> DEFINE broken == [list EXCEPT ![Node] = rest]
<1>6. /\ broken \in Seq(Rectangles) /\ Len(broken) = Len(list)
      /\ \A j \in 1..Len(list) : broken[j] = IF j = Node THEN rest ELSE list[j]
  BY <1>2, <1>4, ExceptSeq
<1> HIDE DEF rest
<1>7. CASE AtLast
  <2>1. list' = Append(broken, Xrect) /\ calls' = Tail(calls) /\ Node = Len(list)
    BY <1>7 DEF OldBroken, Return, AtLast, rest
  <2>2. broken \in Seq(Rect)
    BY <1>6, RectanglesAre, SeqMonotonic
  <2> HIDE DEF broken
  <2>3. Len(broken) = Node /\ Xrect \in Rect
    BY <1>2, <1>6, <2>1
  <2>4. /\ Append(broken, Xrect) \in Seq(Rect) /\ Len(Append(broken, Xrect)) = Len(broken) + 1
        /\ \A i \in 1..Len(broken) : Append(broken, Xrect)[i] = broken[i]
        /\ Append(broken, Xrect)[Len(broken) + 1] = Xrect
    BY <2>2, <2>3, AppendProperties
  <2>5. /\ list' \in Seq(Rect) /\ Len(list') = Node + 1
        /\ \A i \in 1..Node : list'[i] = broken[i]
        /\ list'[Node + 1] = Xrect
    BY <2>1, <2>3, <2>4
  <2>6. list'[Node] = rest /\ \A i \in 1..Node - 1 : list'[i] = list[i]
    <3>1. Node \in 1..Node /\ \A i \in 1..Node - 1 : i \in 1..Node /\ i \in 1..Len(list) /\ i # Node
      BY <1>2
    <3> QED  BY <1>2, <1>6, <2>5, <3>1
  <2>7. \A i \in 1..Node - 1 : Clear(list[i], rest)
    BY <1>2, <1>5
  <2>8. ASSUME NEW i \in Node..Len(list')
        PROVE  /\ OnScreen(list'[i])
               /\ \A j \in 1..Node - 1 : Clear(list[j], list'[i])
               /\ \A j \in Node..Len(list') : i # j => Clear(list'[i], list'[j])
               /\ Visible(list'[i])
    <3>1. CASE i = Node
      <4>1. \A j \in Node..Len(list') : i # j => j = Node + 1
        BY <1>2, <2>5, <3>1
      <4> QED  BY <1>1, <1>3, <1>4, <2>5, <2>6, <2>7, <3>1, <4>1
    <3>2. CASE i = Node + 1
      <4>1. list'[i] = Xrect
        BY <2>5, <3>2
      <4>2. \A j \in Node..Len(list') : i # j => j = Node
        BY <1>2, <2>5, <3>2
      <4>3. Clear(Xrect, list'[Node])
        BY <1>3, <2>6, ClearBothWays
      <4> QED  BY <1>2, <4>1, <4>2, <4>3
    <3> QED  BY <1>2, <2>5, <3>1, <3>2
  <2>9. Len(list') >= Node
    BY <1>2, <2>5
  <2>10. Ahead /\ NodesClear' /\ ThinNodes'
    BY <1>1, <1>7, <2>5, <2>6, <2>8, <2>9, EndReplaced
  <2>11. TypeOK' /\ CallsRight'
    BY <1>1, <2>1, <2>10, ReturnRight
  <2> QED  BY <2>10, <2>11, StepKept
<1>8. CASE ~AtLast
  <2>1. list' = broken /\ calls' = <<Call(Node + 1, Xrect)>> \o Tail(calls)
    BY <1>1, <1>8, NextNode DEF OldBroken, rest
  <2> HIDE DEF broken
  <2>2. /\ list' \in Seq(Rectangles) /\ Len(list') = Len(list) /\ DOMAIN list' = 1..Len(list)
        /\ \A j \in 1..Len(list) : list'[j] = IF j = Node THEN rest ELSE list[j]
    BY <1>6, <2>1, LenProperties
  <2>3. Ahead
    <3>1. \A i \in DOMAIN list' : OnScreen(list'[i])
      BY <1>2, <1>4, <2>2
    <3>2. Len(list') >= Node /\ \A i \in 1..Node - 1 : list'[i] = list[i]
      BY <1>2, <2>2
    <3> QED  BY <2>2, <3>1, <3>2 DEF Ahead
  <2>4. NodesClear'
    <3> SUFFICES ASSUME NEW i \in 1..Len(list), NEW j \in 1..Len(list), i # j
                 PROVE  Clear(list'[i], list'[j])
      BY <2>2 DEF NodesClear
    <3>1. CASE i # Node /\ j # Node
      BY <1>2, <2>2, <3>1 DEF IInv, NodesClear
    <3>2. CASE i # Node /\ j = Node
      BY <1>5, <2>2, <3>2
    <3>3. CASE i = Node /\ j # Node
      BY <1>5, <2>2, <3>3, ClearBothWays
    <3> QED  BY <3>1, <3>2, <3>3
  <2>5. calls' # <<>> /\ Node' = Node + 1 /\ Xrect' = Xrect
    BY <1>1, <1>2, <2>1, ReenterIs
  <2>6. ThinNodes'
    <3> SUFFICES ASSUME NEW i \in 1..Len(list), ~Visible(list'[i])
                 PROVE  ThinNode(i)'
      BY <2>2 DEF ThinNodes
    <3>1. i # Node /\ list'[i] = list[i]
      BY <1>1, <2>2
    <3>2. Thin(list[i]) /\ i > 1 /\ Visible(list[i - 1]) /\ Fits(list[i], list[i - 1])
      BY <1>2, <3>1, ThinBehind
    <3>3. i - 1 \in 1..Len(list)
      BY <1>2, <3>2
    <3>4. CASE i - 1 # Node
      <4>1. list'[i - 1] = list[i - 1]
        BY <2>2, <3>3, <3>4
      <4> QED  BY <3>1, <3>2, <4>1 DEF ThinNode
    <3>5. CASE i - 1 = Node
      <4>1. list'[i - 1] = rest /\ i = Node' /\ Meeting' = Collide(list[i], Xrect)
        <5>1. list'[i - 1] = rest /\ i = Node + 1
          BY <1>2, <2>2, <3>3, <3>5
        <5> QED  BY <2>5, <3>1, <5>1 DEF Meeting
      <4>2. OldBreaks(list[Node], Xrect) /\ rest = BreakOff(list[Node], Xrect)
        BY <1>1, <1>2, OldBrokenIs DEF Meeting, rest
      <4>3. Fits(list[i], rest) \/ Fits(list[i], Xrect) \/ OldBreaks(list[i], Xrect)
        BY <1>2, <3>2, <3>5, <4>2, ThinLost
      <4>4. CASE Fits(list[i], rest)
        BY <1>1, <3>1, <3>2, <4>1, <4>4 DEF ThinNode
      <4>5. CASE Fits(list[i], Xrect)
        <5>1. Meeting'.result = "covered"
          BY <1>2, <4>1, <4>5, CoveredRight
        <5> QED  BY <2>5, <3>1, <3>2, <4>1, <5>1 DEF ThinNode
      <4>6. CASE OldBreaks(list[i], Xrect)
        <5>1. Meeting'.result = "oldBroken"
          BY <1>2, <4>1, <4>6, OldBrokenIs
        <5> QED  BY <2>5, <3>1, <3>2, <4>1, <5>1 DEF ThinNode
      <4> QED  BY <4>3, <4>4, <4>5, <4>6
    <3> QED  BY <3>4, <3>5
  <2>7. CallMade(Call(Node + 1, Xrect))
    <3>1. Call(Node + 1, Xrect) \in CallType /\ Node + 1 >= Node /\ Node + 1 <= Len(list')
      BY <1>2, <1>8, <2>2 DEF Call, CallType, AtLast
    <3>2. ASSUME NEW i \in DOMAIN list', i < Node + 1
          PROVE  Clear(list'[i], Xrect)
      <4>1. CASE i = Node
        BY <1>2, <1>3, <2>2, <4>1
      <4>2. CASE i # Node
        <5>1. i \in 1..Node - 1 /\ list'[i] = list[i]
          BY <1>2, <2>2, <3>2, <4>2
        <5> QED  BY <1>2, <5>1
      <4> QED  BY <4>1, <4>2
    <3> QED  BY <1>2, <3>1, <3>2 DEF CallMade, Call
  <2>8. TypeOK' /\ CallsRight'
    BY <1>1, <2>1, <2>3, <2>7, GoesOnRight
  <2> QED  BY <2>3, <2>4, <2>6, <2>8, StepKept
<1> QED  BY <1>7, <1>8

(* With nothing left the node had no pixel, so it is not the first one.    *)
LEMMA AwayIsThin ==
    ASSUME IInv, calls # <<>>, list # <<>>, Meeting.result = "oldBroken", ~Visible(Meeting.rects[1])
    PROVE  ~Visible(list[Node]) /\ Node > 1
<1>1. list[Node] \in Rect /\ Xrect \in Rect /\ Visible(Xrect) /\ Node \in DOMAIN list
  BY Around, ListIs
<1>2. ~Visible(list[Node])
  BY <1>1, OldBrokenRight DEF Meeting
<1>3. ThinNode(Node)
  BY <1>1, <1>2 DEF IInv, ThinNodes
<1>4. Meeting.result # "covered"
  OBVIOUS
<1> QED  BY <1>2, <1>3, <1>4 DEF ThinNode

LEMMA OldBrokenAwayKeeps ==
    ASSUME IInv, OldBrokenAway
    PROVE  IInv'
<1>1. calls # <<>> /\ list # <<>> /\ Meeting.result = "oldBroken" /\ ~Visible(Meeting.rects[1])
  BY DEF OldBrokenAway, Walking
<1>2. /\ Node \in 1..Len(list) /\ list[Node] \in Rect
      /\ Xrect \in Rect /\ Xrect \in Rectangles /\ OnScreen(Xrect) /\ Visible(Xrect)
      /\ \A i \in 1..Node - 1 : Clear(list[i], Xrect)
      /\ Len(list) \in Nat
  BY <1>1, Around
<1>3. ~Visible(list[Node]) /\ Node # 1
  BY <1>1, <1>2, AwayIsThin
<1>4. CASE AtLast
  <2>1. list' = [list EXCEPT ![Node] = Xrect] /\ calls' = Tail(calls)
    BY <1>4 DEF OldBrokenAway, Return
  <2>2. Ahead /\ NodesClear' /\ ThinNodes'
    BY <1>1, <1>2, <1>4, <2>1, LastReplaced
  <2>3. TypeOK' /\ CallsRight'
    BY <1>1, <2>1, <2>2, ReturnRight
  <2> QED  BY <2>2, <2>3, StepKept
<1>5. CASE ~AtLast
  <2>1. list' = RemoveAt(list, Node) /\ calls' = <<Call(Node, Xrect)>> \o Tail(calls)
    BY <1>2, <1>3, <1>5 DEF OldBrokenAway, Reenter, Inserted
  <2>2. calls' # <<>> /\ Node' = Node /\ Xrect' = Xrect
    BY <1>1, <1>2, <2>1, ReenterIs
  <2>3. Ahead /\ NodesClear' /\ ThinNodes'
    BY <1>1, <1>2, <1>3, <1>5, <2>1, <2>2, NodeTakenOut
  <2>4. CallMade(Call(Node, Xrect))
    BY <1>1, <1>2, <2>3, CallAgain
  <2>5. TypeOK' /\ CallsRight'
    BY <1>1, <2>1, <2>3, <2>4, GoesOnRight
  <2> QED  BY <2>3, <2>5, StepKept
<1> QED  BY <1>4, <1>5

(* The parts of the new one end the list, or go on from the next node.     *)
LEMMA NewBrokenKeeps ==
    ASSUME IInv, NewBroken
    PROVE  IInv'
<1> DEFINE parts == Meeting.rects
           p == parts[1]
           q == parts[2]
<1>1. calls # <<>> /\ list # <<>> /\ Meeting.result = "newBroken"
  BY DEF NewBroken, Walking
<1>2. /\ Node \in 1..Len(list) /\ list[Node] \in Rect /\ OnScreen(list[Node])
      /\ Xrect \in Rect /\ OnScreen(Xrect) /\ Visible(Xrect)
      /\ \A i \in 1..Node - 1 : Clear(list[i], Xrect) /\ Clear(list[i], list[Node])
      /\ list \in Seq(Rectangles) /\ Len(list) \in Nat /\ DOMAIN list = 1..Len(list)
      /\ \A i \in 1..Len(list) : list[i] \in Rect /\ OnScreen(list[i])
  BY <1>1, Around, ListIs
<1>3. \/ /\ parts = <<p>>
         /\ p \in Rect /\ Visible(p) /\ Fits(p, Xrect) /\ Clear(list[Node], p)
      \/ parts = <<p, q>> /\ SplitRight(list[Node], Xrect, p, q)
  BY <1>1, <1>2, NewBrokenRight DEF Meeting
<1>4. parts = Meeting.rects /\ p = parts[1] /\ q = parts[2]
  OBVIOUS
<1> HIDE DEF parts, p, q
<1>5. ASSUME NEW r \in Rect, Fits(r, Xrect), Clear(list[Node], r)
      PROVE  /\ OnScreen(r) /\ r \in Rectangles
             /\ \A i \in 1..Node : Clear(list[i], r)
  <2>1. OnScreen(r) /\ r \in Rectangles
    BY <1>2, <1>5, RectanglesAre
  <2>2. ASSUME NEW i \in 1..Node - 1
        PROVE  Clear(list[i], r)
    <3>1. list[i] \in Rect /\ Clear(Xrect, list[i])
      BY <1>2, ClearBothWays
    <3>2. Clear(r, list[i])
      BY <1>2, <1>5, <3>1, FitsClear
    <3> QED  BY <3>2, ClearBothWays
  <2>3. \A i \in 1..Node : i \in 1..Node - 1 \/ i = Node
    BY <1>2
  <2> QED  BY <1>5, <2>1, <2>2, <2>3
<1>6. p \in Rect /\ Visible(p) /\ OnScreen(p) /\ p \in Rectangles /\ \A i \in 1..Node : Clear(list[i], p)
  BY <1>3, <1>5 DEF SplitRight
<1>7. CASE AtLast
  <2>1. list' = list \o parts /\ calls' = Tail(calls) /\ Node = Len(list)
    BY <1>7, <1>4 DEF NewBroken, Return, AtLast
  <2>2. list \in Seq(Rect)
    BY <1>2, RectanglesAre, SeqMonotonic
  <2>3. ~Visible(list[Node]) =>
            Thin(list[Node]) /\ Node > 1 /\ Visible(list[Node - 1]) /\ Fits(list[Node], list[Node - 1])
    BY <1>1, <1>2, ThinBehind
  <2> DEFINE Good(i) ==
          /\ OnScreen(list'[i])
          /\ \A j \in 1..Node - 1 : Clear(list[j], list'[i])
          /\ \A j \in Node..Len(list') : i # j => Clear(list'[i], list'[j])
          /\ \/ Visible(list'[i])
             \/ Thin(list'[i]) /\ i > 1 /\ Visible(list'[i - 1]) /\ Fits(list'[i], list'[i - 1])
  <2>4. /\ list' \in Seq(Rect) /\ Len(list') >= Node /\ \A i \in 1..Node - 1 : list'[i] = list[i]
        /\ \A i \in Node..Len(list') : Good(i)
    <3>1. CASE parts = <<p>>
      <4>1. parts \in Seq(Rect) /\ Len(parts) = 1 /\ parts[1] = p
        BY <1>6, <3>1
      <4>2. /\ list \o parts \in Seq(Rect) /\ Len(list \o parts) = Len(list) + Len(parts)
            /\ \A i \in 1..Len(list) + Len(parts) : (list \o parts)[i] =
                   IF i <= Len(list) THEN list[i] ELSE parts[i - Len(list)]
        BY <2>2, <4>1, ConcatProperties
      <4>3. /\ list' \in Seq(Rect) /\ Len(list') = Node + 1
            /\ \A i \in 1..Node : list'[i] = list[i]
            /\ list'[Node + 1] = p
        BY <1>2, <2>1, <4>1, <4>2
      <4>4. Good(Node)
        <5>1. \A j \in Node..Len(list') : Node # j => j = Node + 1
          BY <1>2, <4>3
        <5>2. Node > 1 => list'[Node - 1] = list[Node - 1]
          BY <1>2, <4>3
        <5> QED  BY <1>2, <1>6, <2>3, <4>3, <5>1, <5>2
      <4>5. Good(Node + 1)
        <5>1. \A j \in Node..Len(list') : Node + 1 # j => j = Node
          BY <1>2, <4>3
        <5>2. Clear(p, list'[Node])
          BY <1>2, <1>6, <4>3, ClearBothWays
        <5> QED  BY <1>2, <1>6, <4>3, <5>1, <5>2
      <4>6. \A i \in Node..Len(list') : i = Node \/ i = Node + 1
        BY <1>2, <4>3
      <4>7. Len(list') >= Node /\ \A i \in 1..Node - 1 : list'[i] = list[i]
        BY <1>2, <4>3
      <4> HIDE DEF Good
      <4> QED  BY <4>3, <4>4, <4>5, <4>6, <4>7
    <3>2. CASE parts = <<p, q>> /\ SplitRight(list[Node], Xrect, p, q)
      <4>1. q \in Rect /\ OnScreen(q) /\ \A i \in 1..Node : Clear(list[i], q)
        BY <1>5, <3>2 DEF SplitRight
      <4>2. (Visible(q) \/ (Thin(q) /\ Fits(q, p))) /\ Clear(p, q)
        BY <3>2 DEF SplitRight
      <4>3. parts \in Seq(Rect) /\ Len(parts) = 2 /\ parts[1] = p /\ parts[2] = q
        BY <1>6, <3>2, <4>1
      <4>4. /\ list \o parts \in Seq(Rect) /\ Len(list \o parts) = Len(list) + Len(parts)
            /\ \A i \in 1..Len(list) + Len(parts) : (list \o parts)[i] =
                   IF i <= Len(list) THEN list[i] ELSE parts[i - Len(list)]
        BY <2>2, <4>3, ConcatProperties
      <4>5. /\ list' \in Seq(Rect) /\ Len(list') = Node + 2
            /\ \A i \in 1..Node : list'[i] = list[i]
            /\ list'[Node + 1] = p /\ list'[Node + 2] = q
        BY <1>2, <2>1, <4>3, <4>4
      <4>6. Good(Node)
        <5>1. \A j \in Node..Len(list') : Node # j => j = Node + 1 \/ j = Node + 2
          BY <1>2, <4>5
        <5>2. Node > 1 => list'[Node - 1] = list[Node - 1]
          BY <1>2, <4>5
        <5> QED  BY <1>2, <1>6, <2>3, <4>1, <4>5, <5>1, <5>2
      <4>7. Good(Node + 1)
        <5>1. \A j \in Node..Len(list') : Node + 1 # j => j = Node \/ j = Node + 2
          BY <1>2, <4>5
        <5>2. Clear(p, list'[Node])
          BY <1>2, <1>6, <4>5, ClearBothWays
        <5> QED  BY <1>2, <1>6, <4>2, <4>5, <5>1, <5>2
      <4>8. Good(Node + 2)
        <5>1. \A j \in Node..Len(list') : Node + 2 # j => j = Node \/ j = Node + 1
          BY <1>2, <4>5
        <5>2. Clear(q, list'[Node]) /\ Clear(q, p)
          BY <1>2, <4>1, <4>2, <4>5, ClearBothWays
        <5>3. Node + 2 > 1 /\ (Node + 2) - 1 = Node + 1
          BY <1>2
        <5> QED  BY <1>2, <1>6, <4>1, <4>2, <4>5, <5>1, <5>2, <5>3
      <4>9. \A i \in Node..Len(list') : i = Node \/ i = Node + 1 \/ i = Node + 2
        BY <1>2, <4>5
      <4>10. Len(list') >= Node /\ \A i \in 1..Node - 1 : list'[i] = list[i]
        BY <1>2, <4>5
      <4> HIDE DEF Good
      <4> QED  BY <4>5, <4>6, <4>7, <4>8, <4>9, <4>10
    <3> QED  BY <1>3, <3>1, <3>2
  <2>5. Ahead /\ NodesClear' /\ ThinNodes'
    BY <1>1, <1>7, <2>4, EndReplaced
  <2>6. TypeOK' /\ CallsRight'
    BY <1>1, <2>1, <2>5, ReturnRight
  <2> QED  BY <2>5, <2>6, StepKept
<1>8. CASE ~AtLast
  <2>1. /\ UNCHANGED list
        /\ calls' = Inserted(Node + 1, p)
                      \o (IF Len(parts) = 2 THEN Inserted(Node + 1, q) ELSE <<>>) \o Tail(calls)
    BY <1>8, <1>4 DEF NewBroken
  <2>2. Ahead /\ NodesClear' /\ ThinNodes'
    BY <1>1, <2>1, ListStays
  <2>3. ASSUME NEW r \in Rectangles, Visible(r), OnScreen(r), \A i \in 1..Node : Clear(list[i], r)
        PROVE  CallMade(Call(Node + 1, r))
    <3>1. Call(Node + 1, r) \in CallType /\ Node + 1 >= Node /\ Node + 1 <= Len(list')
      <4>1. Len(list') = Len(list)
        BY <2>1
      <4>2. Node + 1 \in Nat \ {0} /\ Node + 1 >= Node /\ Node + 1 <= Len(list)
        <5>1. Node # Len(list)
          BY <1>8 DEF AtLast
        <5>2. Node \in Nat /\ 1 <= Node /\ Node <= Len(list) /\ Len(list) \in Nat
          BY <1>2
        <5> QED  BY <5>1, <5>2
      <4> QED  BY <4>1, <4>2 DEF Call, CallType
    <3>2. ASSUME NEW i \in DOMAIN list', i < Node + 1
          PROVE  Clear(list'[i], r)
      <4>1. i \in 1..Node
        BY <1>2, <2>1, <3>2
      <4> QED  BY <2>1, <2>3, <4>1
    <3> QED  BY <2>3, <3>1, <3>2 DEF CallMade, Call
  <2>4. CallMade(Call(Node + 1, p)) /\ Inserted(Node + 1, p) = <<Call(Node + 1, p)>>
    BY <1>6, <2>3 DEF Inserted
  <2>5. calls \in Seq(CallType) /\ Tail(calls) \in Seq(CallType)
    <3>1. calls \in Seq(CallType)
      BY DEF IInv, TypeOK, CallType
    <3> QED  BY <1>1, <3>1, HeadTailProperties
  <2>6. <<Call(Node + 1, p)>> \in Seq(CallType)
    BY <2>4 DEF CallMade
  <2>7. TypeOK' /\ CallsRight'
    <3>1. CASE parts = <<p>> \/ (parts = <<p, q>> /\ ~Visible(q))
      <4>1. (IF Len(parts) = 2 THEN Inserted(Node + 1, q) ELSE <<>>) = <<>>
        BY <3>1 DEF Inserted
      <4>2. <<Call(Node + 1, p)>> \o <<>> = <<Call(Node + 1, p)>>
        BY <2>6, ConcatEmptySeq
      <4>3. calls' = <<Call(Node + 1, p)>> \o Tail(calls)
        BY <2>1, <2>4, <4>1, <4>2
      <4> QED  BY <1>1, <2>2, <2>4, <4>3, GoesOnRight
    <3>2. CASE parts = <<p, q>> /\ SplitRight(list[Node], Xrect, p, q) /\ Visible(q)
      <4>1. CallMade(Call(Node + 1, q))
        <5>1. q \in Rect /\ Fits(q, Xrect) /\ Clear(list[Node], q) /\ Visible(q)
          BY <3>2 DEF SplitRight
        <5> QED  BY <1>5, <2>3, <5>1
      <4>2. (IF Len(parts) = 2 THEN Inserted(Node + 1, q) ELSE <<>>) = <<Call(Node + 1, q)>>
        BY <3>2 DEF Inserted
      <4>3. <<Call(Node + 1, p)>> \o <<Call(Node + 1, q)>> = <<Call(Node + 1, p), Call(Node + 1, q)>>
        <5>1. Call(Node + 1, p) \in CallType /\ Call(Node + 1, q) \in CallType
          BY <2>4, <4>1 DEF CallMade
        <5> QED  BY <5>1, PairIs
      <4>4. calls' = <<Call(Node + 1, p), Call(Node + 1, q)>> \o Tail(calls)
        BY <2>1, <2>4, <4>2, <4>3
      <4>5. Call(Node + 1, p).node = Call(Node + 1, q).node
        BY DEF Call
      <4> QED  BY <1>1, <2>2, <2>4, <4>1, <4>4, <4>5, PartsGoOnRight
    <3> QED  BY <1>3, <3>1, <3>2
  <2> QED  BY <2>2, <2>7, StepKept
<1> QED  BY <1>7, <1>8

(* Between insertions.                                                     *)
LEMMA InsertKeeps ==
    ASSUME IInv, NEW r \in Rectangles, Visible(r), OnScreen(r), rmdRectInsert(r)
    PROVE  IInv'
<1>1. Visible(r) /\ OnScreen(r) /\ rmdRectInsert(r)
  OBVIOUS
<1>2. calls = <<>> /\ calls' = <<Call(1, r)>> /\ UNCHANGED list
  BY <1>1 DEF rmdRectInsert
<1>3. DOMAIN calls' = {1} /\ calls'[1].node = 1 /\ calls'[1].xrect = r /\ Len(calls') = 1
  BY <1>2 DEF Call
<1>4. calls' \in Seq(CallType)
  BY <1>2 DEF Call, CallType
<1>5. list \in Seq(Rectangles) /\ Len(list) \in Nat /\ DOMAIN list = 1..Len(list)
  BY ListIs
<1>6. TypeOK'
  BY <1>1, <1>2, <1>3, <1>4 DEF IInv, TypeOK, CallType
<1>7. NodesThere'
  <2>1. list = <<>> \/ 1 <= Len(list)
    BY <1>5, EmptySeq
  <2> QED  BY <1>2, <1>3, <2>1 DEF NodesThere
<1>8. NodesClear' /\ CallsClear' /\ CallsVisible' /\ InnerFirst'
  <2>1. NodesClear'
    BY <1>2 DEF IInv, NodesClear
  <2>2. \A i \in DOMAIN list : ~(i < 1)
    BY <1>5
  <2>3. CallsClear'
    BY <1>2, <1>3, <2>2 DEF CallsClear
  <2>4. CallsVisible' /\ InnerFirst'
    BY <1>1, <1>3 DEF CallsVisible, InnerFirst
  <2> QED  BY <2>1, <2>3, <2>4
<1>9. ThinNodes'
  <2>1. ASSUME NEW i \in DOMAIN list, ~Visible(list[i])
        PROVE  Thin(list[i]) /\ i > 1 /\ Visible(list[i - 1]) /\ Fits(list[i], list[i - 1])
    BY <1>2, <2>1, ThinBehind
  <2> QED  BY <1>2, <2>1 DEF ThinNodes, ThinNode
<1> QED  BY <1>6, <1>7, <1>8, <1>9 DEF IInv

LEMMA ClearKeeps ==
    ASSUME IInv, rmdClearList
    PROVE  IInv'
<1>1. calls' = <<>> /\ list' = <<>>
  BY DEF rmdClearList
<1> QED
  BY <1>1 DEF IInv, TypeOK, NodesThere, NodesClear, CallsClear, CallsVisible, InnerFirst, ThinNodes
-----------------------------------------------------------------------------
(* Inside of one.                                                          *)
LEMMA StepKeeps ==
    ASSUME IInv, Step
    PROVE  IInv'
  BY FirstKeeps, NoCollisionKeeps, OldCoveredKeeps, NewCoveredKeeps, OldBrokenKeeps,
     OldBrokenAwayKeeps, NewBrokenKeeps, GroupedKeeps DEF Step

LEMMA StandsStill ==
    ASSUME IInv, UNCHANGED rectVars
    PROVE  IInv'
  BY DEF rectVars, IInv, TypeOK, NodesThere, NodesClear, CallsClear, CallsVisible,
         InnerFirst, ThinNodes, ThinNode, Node, Xrect, Meeting

(* IInv holds at the start and is kept by every step.                      *)
THEOREM InsertInvariant == Spec => []IInv
<1>1. Init => IInv
  BY DEF Init, IInv, TypeOK, NodesThere, NodesClear, CallsClear, CallsVisible, InnerFirst, ThinNodes
<1>2. IInv /\ [Next]_rectVars => IInv'
  <2> SUFFICES ASSUME IInv, [Next]_rectVars
               PROVE  IInv'
    OBVIOUS
  <2>1. CASE Insertions
    <3>1. PICK r \in Rectangles : Visible(r) /\ OnScreen(r) /\ rmdRectInsert(r)
      BY <2>1 DEF Insertions
    <3> QED  BY <3>1, InsertKeeps
  <2>2. CASE rmdClearList
    BY <2>2, ClearKeeps
  <2>3. CASE Step
    BY <2>3, StepKeeps
  <2>4. CASE UNCHANGED rectVars
    BY <2>4, StandsStill
  <2> QED  BY <2>1, <2>2, <2>3, <2>4 DEF Next
<1> QED  BY <1>1, <1>2, PTL DEF Spec

(* What the invariant says of pixels.                                      *)
LEMMA ClearIsDisjoint ==
    ASSUME NEW r \in Rect, NEW s \in Rect, Clear(r, s)
    PROVE  PixelsOf(r) \cap PixelsOf(s) = {}
<1>1. ASSUME NEW p \in Pixels, Covers(r, p[1], p[2]), Covers(s, p[1], p[2])
      PROVE  FALSE
  <2>1. p[1] \in Int /\ p[2] \in Int
    BY ScreenAssumption DEF Pixels
  <2> QED  BY <1>1, <2>1 DEF Clear, Covers, Visible, Right, Bottom, Rect
<1> QED  BY <1>1 DEF PixelsOf

(* Between any two iterations of an insertion's loop no two nodes overlap, *)
(* none leaves the screen, a call's node is in the list, and a node of     *)
(* which nothing is left does not take the new rectangle with it.          *)
THEOREM ListStaysRight == Spec => []ListRight
<1>1. IInv => ListRight
  <2> SUFFICES ASSUME IInv
               PROVE  ListRight
    OBVIOUS
  <2>1. Disjoint
    <3>1. ASSUME NEW i \in DOMAIN list, NEW j \in DOMAIN list, i # j
          PROVE  PixelsOf(list[i]) \cap PixelsOf(list[j]) = {}
      <4>1. list[i] \in Rect /\ list[j] \in Rect /\ Clear(list[i], list[j])
        BY <3>1, ListIs DEF IInv, NodesClear
      <4> QED  BY <4>1, ClearIsDisjoint
    <3> QED  BY <3>1 DEF Disjoint
  <2>2. NothingForgotten
    <3> SUFFICES ASSUME ForgetsNew
                 PROVE  FALSE
      BY DEF NothingForgotten
    <3>1. calls # <<>> /\ list # <<>> /\ Meeting.result = "oldBroken" /\ ~Visible(Meeting.rects[1]) /\ Node = 1
      BY DEF ForgetsNew, Walking
    <3>2. Node > 1
      BY <3>1, AwayIsThin
    <3> QED  BY <3>1, <3>2
  <2> QED  BY <2>1, <2>2 DEF IInv, ListRight
<1> QED  BY <1>1, InsertInvariant, PTL

-----------------------------------------------------------------------------
(* The pixels of the list and of the calls under way, and what the actions *)
(* do to them.                                                             *)
ListHolds(px, py) == \E i \in DOMAIN list : Covers(list[i], px, py)
CallsHold(px, py) == \E c \in DOMAIN calls : Covers(calls[c].xrect, px, py)
Others(px, py)    == \E i \in DOMAIN list : i # Node /\ Covers(list[i], px, py)
Waiting(px, py)   == \E c \in DOMAIN calls : c # 1 /\ Covers(calls[c].xrect, px, py)
Held(px, py) == ListHolds(px, py) \/ CallsHold(px, py)

LEMMA HeldNow ==
    ASSUME IInv, calls # <<>>, NEW px, NEW py
    PROVE  /\ CallsHold(px, py) <=> Covers(Xrect, px, py) \/ Waiting(px, py)
           /\ list # <<>> => (ListHolds(px, py) <=> Covers(list[Node], px, py) \/ Others(px, py))
<1>1. 1 \in DOMAIN calls /\ calls[1].xrect = Xrect
  BY CallRight
<1>2. list # <<>> => Node \in DOMAIN list
  BY CallRight, ListIs
<1> QED  BY <1>1, <1>2 DEF CallsHold, Waiting, ListHolds, Others

LEMMA CallsAfter ==
    ASSUME IInv, calls # <<>>, NEW new \in Seq(CallType), calls' = new \o Tail(calls), NEW px, NEW py
    PROVE  CallsHold(px, py)' <=> \/ \E c \in 1..Len(new) : Covers(new[c].xrect, px, py)
                                  \/ Waiting(px, py)
<1> DEFINE k == Len(new)
<1>1. calls \in Seq(CallType) /\ Len(calls) \in Nat /\ Len(calls) > 0 /\ DOMAIN calls = 1..Len(calls)
  <2>1. calls \in Seq(CallType)
    BY DEF IInv, TypeOK, CallType
  <2> QED  BY <2>1, LenProperties, EmptySeq
<1>2. /\ DOMAIN calls' = 1..Len(calls) - 1 + k /\ k \in Nat
      /\ \A i \in 1..k : calls'[i] = new[i]
      /\ \A i \in k + 1..Len(calls) - 1 + k : calls'[i] = calls[i - k + 1]
  <2>1. calls' \in Seq(CallType) /\ Len(calls') = Len(calls) - 1 + k /\ k \in Nat
    BY <1>1, InFront, LenProperties
  <2>2. DOMAIN calls' = 1..Len(calls')
    BY <2>1, LenProperties
  <2> QED  BY <1>1, <2>1, <2>2, InFront
<1> HIDE DEF k
<1>3. ASSUME CallsHold(px, py)'
      PROVE  (\E c \in 1..k : Covers(new[c].xrect, px, py)) \/ Waiting(px, py)
  <2>1. PICK c \in DOMAIN calls' : Covers(calls'[c].xrect, px, py)
    BY <1>3 DEF CallsHold
  <2>2. CASE c \in 1..k
    BY <1>2, <2>1, <2>2
  <2>3. CASE c \notin 1..k
    <3>1. c \in k + 1..Len(calls) - 1 + k /\ c - k + 1 \in DOMAIN calls /\ c - k + 1 # 1
      BY <1>1, <1>2, <2>3
    <3>2. Covers(calls[c - k + 1].xrect, px, py)
      BY <1>2, <2>1, <3>1
    <3> QED  BY <3>1, <3>2 DEF Waiting
  <2> QED  BY <2>2, <2>3
<1>4. ASSUME NEW c \in 1..k, Covers(new[c].xrect, px, py)
      PROVE  CallsHold(px, py)'
  <2>1. c \in DOMAIN calls' /\ calls'[c] = new[c]
    BY <1>1, <1>2
  <2> QED  BY <1>4, <2>1 DEF CallsHold
<1>5. ASSUME Waiting(px, py)
      PROVE  CallsHold(px, py)'
  <2>1. PICK c \in DOMAIN calls : c # 1 /\ Covers(calls[c].xrect, px, py)
    BY <1>5 DEF Waiting
  <2>2. c - 1 + k \in k + 1..Len(calls) - 1 + k /\ c - 1 + k \in DOMAIN calls' /\ (c - 1 + k) - k + 1 = c
    BY <1>1, <1>2, <2>1
  <2>3. calls'[c - 1 + k] = calls[c]
    BY <1>2, <2>2
  <2> QED  BY <2>1, <2>2, <2>3 DEF CallsHold
<1> QED  BY <1>3, <1>4, <1>5 DEF k

LEMMA ReturnHolds ==
    ASSUME IInv, calls # <<>>, calls' = Tail(calls), NEW px, NEW py
    PROVE  CallsHold(px, py)' <=> Waiting(px, py)
<1> DEFINE new == <<>>
<1>1. calls \in Seq(CallType)
  BY DEF IInv, TypeOK, CallType
<1>2. Tail(calls) \in Seq(CallType)
  BY <1>1, HeadTailProperties
<1>3. new \in Seq(CallType) /\ calls' = new \o Tail(calls) /\ Len(new) = 0
  BY <1>2, ConcatEmptySeq, EmptySeq
<1> HIDE DEF new
<1>4. \A c \in 1..Len(new) : FALSE
  BY <1>3
<1> QED  BY <1>3, <1>4, CallsAfter

LEMMA GoesOnHolds ==
    ASSUME IInv, calls # <<>>, NEW c \in CallType, calls' = <<c>> \o Tail(calls), NEW px, NEW py
    PROVE  CallsHold(px, py)' <=> Covers(c.xrect, px, py) \/ Waiting(px, py)
<1> DEFINE new == <<c>>
<1>1. new \in Seq(CallType) /\ Len(new) = 1 /\ new[1] = c
  OBVIOUS
<1>2. calls' = new \o Tail(calls)
  OBVIOUS
<1> HIDE DEF new
<1>3. (\E d \in 1..Len(new) : Covers(new[d].xrect, px, py)) <=> Covers(c.xrect, px, py)
  BY <1>1
<1> QED  BY <1>1, <1>2, <1>3, CallsAfter

LEMMA PartsGoOnHold ==
    ASSUME IInv, calls # <<>>, NEW c \in CallType, NEW d \in CallType,
           calls' = <<c, d>> \o Tail(calls), NEW px, NEW py
    PROVE  CallsHold(px, py)' <=>
               Covers(c.xrect, px, py) \/ Covers(d.xrect, px, py) \/ Waiting(px, py)
<1> DEFINE new == <<c, d>>
<1>1. new \in Seq(CallType) /\ Len(new) = 2 /\ new[1] = c /\ new[2] = d
  OBVIOUS
<1>2. calls' = new \o Tail(calls)
  OBVIOUS
<1> HIDE DEF new
<1>3. \A e \in 1..Len(new) : e = 1 \/ e = 2
  BY <1>1
<1>4. 1 \in 1..Len(new) /\ 2 \in 1..Len(new)
  BY <1>1
<1>5. (\E e \in 1..Len(new) : Covers(new[e].xrect, px, py))
          <=> Covers(c.xrect, px, py) \/ Covers(d.xrect, px, py)
  BY <1>1, <1>3, <1>4
<1> QED  BY <1>1, <1>2, <1>5, CallsAfter

LEMMA AppendHolds ==
    ASSUME NEW s \in Seq(Rect), NEW r \in Rect, NEW px, NEW py
    PROVE  (\E i \in DOMAIN Append(s, r) : Covers(Append(s, r)[i], px, py))
               <=> (\E i \in DOMAIN s : Covers(s[i], px, py)) \/ Covers(r, px, py)
<1> DEFINE t == Append(s, r)
<1>1. /\ t \in Seq(Rect) /\ Len(t) = Len(s) + 1
      /\ \A i \in 1..Len(s) : t[i] = s[i]
      /\ t[Len(s) + 1] = r
  BY AppendProperties
<1>2. DOMAIN s = 1..Len(s) /\ Len(s) \in Nat /\ DOMAIN t = 1..Len(t)
  BY <1>1, LenProperties
<1> HIDE DEF t
<1>3. DOMAIN t = DOMAIN s \cup {Len(s) + 1}
  BY <1>1, <1>2
<1>4. (\E i \in DOMAIN t : Covers(t[i], px, py))
          <=> (\E i \in DOMAIN s : Covers(s[i], px, py)) \/ Covers(r, px, py)
  BY <1>1, <1>2, <1>3
<1> QED  BY <1>4 DEF t

LEMMA ReplacedHolds ==
    ASSUME IInv, calls # <<>>, list # <<>>, NEW r \in Rect, NEW px, NEW py
    PROVE  LET s == [list EXCEPT ![Node] = r] IN
           /\ s \in Seq(Rect)
           /\ (\E i \in DOMAIN s : Covers(s[i], px, py)) <=> Others(px, py) \/ Covers(r, px, py)
<1> DEFINE s == [list EXCEPT ![Node] = r]
<1>1. list \in Seq(Rect) /\ DOMAIN list = 1..Len(list) /\ Node \in 1..Len(list)
  BY Around, ListIs, RectanglesAre, SeqMonotonic
<1>2. s \in Seq(Rect) /\ \A j \in 1..Len(list) : s[j] = IF j = Node THEN r ELSE list[j]
  BY <1>1, ExceptSeq
<1>3. DOMAIN s = DOMAIN list
  OBVIOUS
<1> HIDE DEF s
<1>4. (\E i \in DOMAIN s : Covers(s[i], px, py)) <=> Others(px, py) \/ Covers(r, px, py)
  BY <1>1, <1>2, <1>3 DEF Others
<1> QED  BY <1>2, <1>4 DEF s

LEMMA TakenOutHolds ==
    ASSUME IInv, calls # <<>>, list # <<>>, list' = RemoveAt(list, Node), NEW px, NEW py
    PROVE  ListHolds(px, py)' <=> Others(px, py)
<1>1. /\ Node \in 1..Len(list) /\ Len(list) \in Nat
      /\ list \in Seq(Rectangles) /\ DOMAIN list = 1..Len(list)
  BY Around, ListIs
<1>2. /\ DOMAIN list' = 1..Len(list) - 1
      /\ \A i \in 1..Len(list) - 1 : list'[i] = IF i < Node THEN list[i] ELSE list[i + 1]
  <2>1. /\ list' \in Seq(Rectangles) /\ Len(list') = Len(list) - 1
        /\ \A i \in 1..Len(list) - 1 : list'[i] = IF i < Node THEN list[i] ELSE list[i + 1]
    BY <1>1, RemoveAtRight
  <2> QED  BY <2>1, LenProperties
<1>3. ASSUME NEW i \in DOMAIN list', Covers(list'[i], px, py)
      PROVE  Others(px, py)
  <2>1. CASE i < Node
    <3>1. i \in DOMAIN list /\ i # Node /\ list'[i] = list[i]
      BY <1>1, <1>2, <2>1
    <3> QED  BY <1>3, <3>1 DEF Others
  <2>2. CASE ~(i < Node)
    <3>1. i + 1 \in DOMAIN list /\ i + 1 # Node /\ list'[i] = list[i + 1]
      BY <1>1, <1>2, <2>2
    <3> QED  BY <1>3, <3>1 DEF Others
  <2> QED  BY <2>1, <2>2
<1>4. ASSUME NEW j \in DOMAIN list, j # Node, Covers(list[j], px, py)
      PROVE  ListHolds(px, py)'
  <2>1. CASE j < Node
    <3>1. j \in DOMAIN list' /\ list'[j] = list[j]
      BY <1>1, <1>2, <2>1
    <3> QED  BY <1>4, <3>1 DEF ListHolds
  <2>2. CASE ~(j < Node)
    <3>1. j - 1 \in DOMAIN list' /\ ~(j - 1 < Node) /\ (j - 1) + 1 = j
      BY <1>1, <1>2, <1>4, <2>2
    <3>2. list'[j - 1] = list[j]
      BY <1>2, <3>1
    <3> QED  BY <1>4, <3>1, <3>2 DEF ListHolds
  <2> QED  BY <2>1, <2>2
<1> QED  BY <1>3, <1>4 DEF ListHolds, Others

-----------------------------------------------------------------------------
(* An iteration moves pixels between the list and the calls, and neither   *)
(* adds one nor loses one.                                                 *)
PixelsKept == \A px, py \in Int : Held(px, py)' <=> Held(px, py)

LEMMA CoversWithin ==
    ASSUME NEW r \in Rect, NEW s \in Rect, Fits(r, s), NEW px \in Int, NEW py \in Int, Covers(r, px, py)
    PROVE  Covers(s, px, py)
  BY FitsWithin DEF Within

LEMMA FirstHolds ==
    ASSUME IInv, First
    PROVE  PixelsKept
<1> SUFFICES ASSUME NEW px \in Int, NEW py \in Int
             PROVE  Held(px, py)' <=> Held(px, py)
  BY DEF PixelsKept
<1>1. calls # <<>> /\ list = <<>> /\ list' = <<Xrect>> /\ calls' = Tail(calls)
  BY DEF First, Return
<1>2. CallsHold(px, py)' <=> Waiting(px, py)
  BY <1>1, ReturnHolds
<1>3. CallsHold(px, py) <=> Covers(Xrect, px, py) \/ Waiting(px, py)
  BY <1>1, HeldNow
<1>4. ListHolds(px, py)' <=> Covers(Xrect, px, py)
  <2>1. DOMAIN list' = {1} /\ list'[1] = Xrect
    BY <1>1
  <2> QED  BY <2>1 DEF ListHolds
<1>5. ~ListHolds(px, py)
  BY <1>1 DEF ListHolds
<1> QED  BY <1>2, <1>3, <1>4, <1>5 DEF Held

LEMMA NoCollisionHolds ==
    ASSUME IInv, NoCollision
    PROVE  PixelsKept
<1> SUFFICES ASSUME NEW px \in Int, NEW py \in Int
             PROVE  Held(px, py)' <=> Held(px, py)
  BY DEF PixelsKept
<1>1. calls # <<>> /\ list # <<>>
  BY DEF NoCollision, Walking
<1>2. Xrect \in Rect /\ Xrect \in Rectangles /\ Node \in Nat \ {0} /\ list \in Seq(Rect)
  BY <1>1, Around, RectanglesAre, SeqMonotonic
<1>3. CallsHold(px, py) <=> Covers(Xrect, px, py) \/ Waiting(px, py)
  BY <1>1, HeldNow
<1>4. CASE AtLast
  <2>1. list' = Append(list, Xrect) /\ calls' = Tail(calls)
    BY <1>4 DEF NoCollision, Return
  <2>2. CallsHold(px, py)' <=> Waiting(px, py)
    BY <1>1, <2>1, ReturnHolds
  <2>3. ListHolds(px, py)' <=> ListHolds(px, py) \/ Covers(Xrect, px, py)
    BY <1>2, <2>1, AppendHolds DEF ListHolds
  <2> QED  BY <1>3, <2>2, <2>3 DEF Held
<1>5. CASE ~AtLast
  <2>1. UNCHANGED list /\ calls' = <<Call(Node + 1, Xrect)>> \o Tail(calls)
    BY <1>1, <1>5, NextNode DEF NoCollision
  <2>2. Call(Node + 1, Xrect) \in CallType /\ Call(Node + 1, Xrect).xrect = Xrect
    BY <1>2 DEF Call, CallType
  <2>3. CallsHold(px, py)' <=> Covers(Xrect, px, py) \/ Waiting(px, py)
    BY <1>1, <2>1, <2>2, GoesOnHolds
  <2>4. ListHolds(px, py)' <=> ListHolds(px, py)
    BY <2>1 DEF ListHolds
  <2> QED  BY <1>3, <2>3, <2>4 DEF Held
<1> QED  BY <1>4, <1>5

(* The node's pixels are among those of a rectangle that takes its place,  *)
(* or that the call goes on with: the new one, or both in a group.         *)
LEMMA PlaceTaken ==
    ASSUME IInv, calls # <<>>, list # <<>>,
           NEW r \in Rect, r \in Rectangles,
           \/ list' = [list EXCEPT ![Node] = r] /\ calls' = Tail(calls)
           \/ list' = RemoveAt(list, Node) /\ calls' = <<Call(Node, r)>> \o Tail(calls),
           NEW px \in Int, NEW py \in Int,
           Covers(r, px, py) <=> Covers(list[Node], px, py) \/ Covers(Xrect, px, py)
    PROVE  Held(px, py)' <=> Held(px, py)
<1>1. /\ CallsHold(px, py) <=> Covers(Xrect, px, py) \/ Waiting(px, py)
      /\ ListHolds(px, py) <=> Covers(list[Node], px, py) \/ Others(px, py)
  BY HeldNow
<1>2. CASE list' = [list EXCEPT ![Node] = r] /\ calls' = Tail(calls)
  <2>1. CallsHold(px, py)' <=> Waiting(px, py)
    BY <1>2, ReturnHolds
  <2>2. ListHolds(px, py)' <=> Others(px, py) \/ Covers(r, px, py)
    BY <1>2, ReplacedHolds DEF ListHolds
  <2> QED  BY <1>1, <2>1, <2>2 DEF Held
<1>3. CASE list' = RemoveAt(list, Node) /\ calls' = <<Call(Node, r)>> \o Tail(calls)
  <2>1. Call(Node, r) \in CallType /\ Call(Node, r).xrect = r
    BY CallRight DEF Call, CallType
  <2>2. CallsHold(px, py)' <=> Covers(r, px, py) \/ Waiting(px, py)
    BY <1>3, <2>1, GoesOnHolds
  <2>3. ListHolds(px, py)' <=> Others(px, py)
    BY <1>3, TakenOutHolds
  <2> QED  BY <1>1, <2>2, <2>3 DEF Held
<1> QED  BY <1>2, <1>3

LEMMA OldCoveredHolds ==
    ASSUME IInv, OldCovered
    PROVE  PixelsKept
<1> SUFFICES ASSUME NEW px \in Int, NEW py \in Int
             PROVE  Held(px, py)' <=> Held(px, py)
  BY DEF PixelsKept
<1>1. calls # <<>> /\ list # <<>> /\ Meeting.result = "covered"
  BY DEF OldCovered, Walking
<1>2. list[Node] \in Rect /\ Xrect \in Rect /\ Xrect \in Rectangles /\ Visible(Xrect)
  BY <1>1, Around
<1>3. Covers(Xrect, px, py) <=> Covers(list[Node], px, py) \/ Covers(Xrect, px, py)
  BY <1>1, <1>2, CoveredRight, CoversWithin DEF Meeting
<1>4. \/ list' = [list EXCEPT ![Node] = Xrect] /\ calls' = Tail(calls)
      \/ list' = RemoveAt(list, Node) /\ calls' = <<Call(Node, Xrect)>> \o Tail(calls)
  BY <1>2 DEF OldCovered, Return, Reenter, Inserted
<1> QED  BY <1>1, <1>2, <1>3, <1>4, PlaceTaken

LEMMA NewCoveredHolds ==
    ASSUME IInv, NewCovered
    PROVE  PixelsKept
<1> SUFFICES ASSUME NEW px \in Int, NEW py \in Int
             PROVE  Held(px, py)' <=> Held(px, py)
  BY DEF PixelsKept
<1>1. /\ calls # <<>> /\ list # <<>> /\ Meeting.result = "covers"
      /\ UNCHANGED list /\ calls' = Tail(calls)
  BY DEF NewCovered, Walking, Return
<1>2. list[Node] \in Rect /\ Xrect \in Rect
  BY <1>1, Around
<1>3. Covers(Xrect, px, py) => Covers(list[Node], px, py)
  BY <1>1, <1>2, CoversRight, CoversWithin DEF Meeting
<1>4. CallsHold(px, py)' <=> Waiting(px, py)
  BY <1>1, ReturnHolds
<1>5. /\ CallsHold(px, py) <=> Covers(Xrect, px, py) \/ Waiting(px, py)
      /\ ListHolds(px, py) <=> Covers(list[Node], px, py) \/ Others(px, py)
  BY <1>1, HeldNow
<1>6. ListHolds(px, py)' <=> ListHolds(px, py)
  BY <1>1 DEF ListHolds
<1> QED  BY <1>3, <1>4, <1>5, <1>6 DEF Held

LEMMA OldBrokenHolds ==
    ASSUME IInv, OldBroken
    PROVE  PixelsKept
<1> SUFFICES ASSUME NEW px \in Int, NEW py \in Int
             PROVE  Held(px, py)' <=> Held(px, py)
  BY DEF PixelsKept
<1> DEFINE rest == Meeting.rects[1]
           broken == [list EXCEPT ![Node] = rest]
<1>1. calls # <<>> /\ list # <<>> /\ Meeting.result = "oldBroken"
  BY DEF OldBroken, Walking
<1>2. list[Node] \in Rect /\ Xrect \in Rect /\ Xrect \in Rectangles /\ Visible(Xrect) /\ Node \in Nat \ {0}
  BY <1>1, Around
<1>3. rest \in Rect /\ Fits(rest, list[Node]) /\ Within(list[Node], {rest, Xrect})
  BY <1>1, <1>2, OldBrokenRight DEF Meeting
<1> HIDE DEF rest
<1>4. Covers(list[Node], px, py) \/ Covers(Xrect, px, py) <=> Covers(rest, px, py) \/ Covers(Xrect, px, py)
  <2>1. Covers(rest, px, py) => Covers(list[Node], px, py)
    BY <1>2, <1>3, CoversWithin
  <2>2. Covers(list[Node], px, py) => Covers(rest, px, py) \/ Covers(Xrect, px, py)
    BY <1>3 DEF Within
  <2> QED  BY <2>1, <2>2
<1>5. /\ CallsHold(px, py) <=> Covers(Xrect, px, py) \/ Waiting(px, py)
      /\ ListHolds(px, py) <=> Covers(list[Node], px, py) \/ Others(px, py)
  BY <1>1, HeldNow
<1>6. /\ broken \in Seq(Rect)
      /\ (\E i \in DOMAIN broken : Covers(broken[i], px, py)) <=> Others(px, py) \/ Covers(rest, px, py)
  BY <1>1, <1>3, ReplacedHolds
<1>7. CASE AtLast
  <2>1. broken = [list EXCEPT ![Node] = Meeting.rects[1]]
    BY DEF rest
  <2> HIDE DEF broken
  <2>2. list' = Append(broken, Xrect) /\ calls' = Tail(calls)
    BY <1>7, <2>1, Zenon DEF OldBroken, Return
  <2>3. CallsHold(px, py)' <=> Waiting(px, py)
    BY <1>1, <2>2, ReturnHolds
  <2>4. ListHolds(px, py)' <=> (Others(px, py) \/ Covers(rest, px, py)) \/ Covers(Xrect, px, py)
    BY <1>2, <1>6, <2>2, AppendHolds DEF ListHolds
  <2> QED  BY <1>4, <1>5, <2>3, <2>4 DEF Held
<1>8. CASE ~AtLast
  <2>1. list' = broken /\ calls' = <<Call(Node + 1, Xrect)>> \o Tail(calls)
    BY <1>1, <1>8, NextNode DEF OldBroken, rest
  <2> HIDE DEF broken
  <2>2. Call(Node + 1, Xrect) \in CallType /\ Call(Node + 1, Xrect).xrect = Xrect
    BY <1>2 DEF Call, CallType
  <2>3. CallsHold(px, py)' <=> Covers(Xrect, px, py) \/ Waiting(px, py)
    BY <1>1, <2>1, <2>2, GoesOnHolds
  <2>4. ListHolds(px, py)' <=> Others(px, py) \/ Covers(rest, px, py)
    BY <1>6, <2>1 DEF ListHolds
  <2> QED  BY <1>4, <1>5, <2>3, <2>4 DEF Held
<1> QED  BY <1>7, <1>8

LEMMA OldBrokenAwayHolds ==
    ASSUME IInv, OldBrokenAway
    PROVE  PixelsKept
<1> SUFFICES ASSUME NEW px \in Int, NEW py \in Int
             PROVE  Held(px, py)' <=> Held(px, py)
  BY DEF PixelsKept
<1>1. calls # <<>> /\ list # <<>> /\ Meeting.result = "oldBroken" /\ ~Visible(Meeting.rects[1])
  BY DEF OldBrokenAway, Walking
<1>2. list[Node] \in Rect /\ Xrect \in Rect /\ Xrect \in Rectangles /\ Visible(Xrect)
  BY <1>1, Around
<1>3. ~Visible(list[Node]) /\ Node # 1
  <2>1. ~Visible(list[Node]) /\ Node > 1
    BY <1>1, AwayIsThin
  <2> QED  BY <2>1
<1>4. ~Covers(list[Node], px, py)
  BY <1>2, <1>3 DEF Visible, Covers, Right, Bottom, Rect
<1>5. \/ list' = [list EXCEPT ![Node] = Xrect] /\ calls' = Tail(calls)
      \/ list' = RemoveAt(list, Node) /\ calls' = <<Call(Node, Xrect)>> \o Tail(calls)
  BY <1>2, <1>3 DEF OldBrokenAway, Return, Reenter, Inserted
<1> QED  BY <1>1, <1>2, <1>4, <1>5, PlaceTaken

LEMMA GroupedHolds ==
    ASSUME IInv, Grouped
    PROVE  PixelsKept
<1> SUFFICES ASSUME NEW px \in Int, NEW py \in Int
             PROVE  Held(px, py)' <=> Held(px, py)
  BY DEF PixelsKept
<1> DEFINE group == Meeting.rects[1]
<1>1. calls # <<>> /\ list # <<>> /\ Meeting.result = "grouped"
  BY DEF Grouped, Walking
<1>2. /\ list[Node] \in Rect /\ OnScreen(list[Node])
      /\ Xrect \in Rect /\ OnScreen(Xrect) /\ Visible(Xrect)
  BY <1>1, Around
<1>3. /\ group \in Rect /\ Visible(group) /\ OnScreen(group)
      /\ Fits(list[Node], group) /\ Fits(Xrect, group) /\ Within(group, {list[Node], Xrect})
  BY <1>1, <1>2, GroupedRight DEF Meeting
<1>4. group \in Rectangles
  BY <1>3, RectanglesAre
<1>5. \/ list' = [list EXCEPT ![Node] = group] /\ calls' = Tail(calls)
      \/ list' = RemoveAt(list, Node) /\ calls' = <<Call(Node, group)>> \o Tail(calls)
  BY <1>3 DEF Grouped, Return, Reenter, Inserted
<1> HIDE DEF group
<1>6. Covers(group, px, py) <=> Covers(list[Node], px, py) \/ Covers(Xrect, px, py)
  <2>1. Covers(list[Node], px, py) \/ Covers(Xrect, px, py) => Covers(group, px, py)
    BY <1>2, <1>3, CoversWithin
  <2>2. Covers(group, px, py) => Covers(list[Node], px, py) \/ Covers(Xrect, px, py)
    BY <1>3 DEF Within
  <2> QED  BY <2>1, <2>2
<1> QED  BY <1>1, <1>3, <1>4, <1>5, <1>6, PlaceTaken

LEMMA NewBrokenHolds ==
    ASSUME IInv, NewBroken
    PROVE  PixelsKept
<1> SUFFICES ASSUME NEW px \in Int, NEW py \in Int
             PROVE  Held(px, py)' <=> Held(px, py)
  BY DEF PixelsKept
<1> DEFINE parts == Meeting.rects
           p == parts[1]
           q == parts[2]
           PartsCover == Covers(p, px, py) \/ (parts = <<p, q>> /\ Covers(q, px, py))
<1>1. calls # <<>> /\ list # <<>> /\ Meeting.result = "newBroken"
  BY DEF NewBroken, Walking
<1>2. /\ list[Node] \in Rect
      /\ Xrect \in Rect /\ OnScreen(Xrect) /\ Visible(Xrect) /\ Node \in Nat \ {0}
      /\ list \in Seq(Rect)
  BY <1>1, Around, RectanglesAre, SeqMonotonic
<1>3. \/ /\ parts = <<p>>
         /\ p \in Rect /\ Visible(p) /\ Fits(p, Xrect) /\ Within(Xrect, {p, list[Node]})
      \/ parts = <<p, q>> /\ SplitRight(list[Node], Xrect, p, q)
  BY <1>1, <1>2, NewBrokenRight DEF Meeting
<1>4. parts = Meeting.rects /\ p = parts[1] /\ q = parts[2]
  OBVIOUS
<1> HIDE DEF parts, p, q
<1>5. /\ CallsHold(px, py) <=> Covers(Xrect, px, py) \/ Waiting(px, py)
      /\ ListHolds(px, py) <=> Covers(list[Node], px, py) \/ Others(px, py)
  BY <1>1, HeldNow
<1>6. p \in Rect /\ Visible(p) /\ Fits(p, Xrect)
      /\ (parts = <<p, q>> => q \in Rect /\ Fits(q, Xrect))
  <2>1. CASE parts = <<p>>
    <3>1. Len(parts) = 1
      BY <2>1
    <3>2. parts # <<p, q>>
      BY <3>1
    <3> QED  BY <1>3, <3>2
  <2>2. CASE parts # <<p>>
    BY <1>3, <2>2 DEF SplitRight
  <2> QED  BY <2>1, <2>2
<1>7. PartsCover \/ Covers(list[Node], px, py) <=> Covers(Xrect, px, py) \/ Covers(list[Node], px, py)
  <2>1. PartsCover => Covers(Xrect, px, py)
    BY <1>2, <1>6, CoversWithin
  <2>2. Covers(Xrect, px, py) => PartsCover \/ Covers(list[Node], px, py)
    BY <1>3 DEF SplitRight, Within
  <2> QED  BY <2>1, <2>2
<1>8. CASE AtLast
  <2>1. list' = list \o parts /\ calls' = Tail(calls)
    BY <1>4, <1>8 DEF NewBroken, Return
  <2>2. CallsHold(px, py)' <=> Waiting(px, py)
    BY <1>1, <2>1, ReturnHolds
  <2>3. ListHolds(px, py)' <=> ListHolds(px, py) \/ PartsCover
    <3>1. parts \in Seq(Rect) /\ Len(parts) \in Nat /\ DOMAIN parts = 1..Len(parts)
      <4>1. parts \in Seq(Rect)
        <5>1. CASE parts = <<p>>
          BY <1>6, <5>1
        <5>2. CASE parts = <<p, q>>
          BY <1>6, <5>2
        <5> QED  BY <1>3, <5>1, <5>2
      <4> QED  BY <4>1, LenProperties
    <3>2. (\E i \in DOMAIN parts : Covers(parts[i], px, py)) <=> PartsCover
      <4>1. CASE parts = <<p>>
        <5>1. DOMAIN parts = {1} /\ parts[1] = p /\ Len(parts) = 1
          BY <4>1
        <5>2. parts # <<p, q>>
          BY <5>1
        <5> QED  BY <5>1, <5>2
      <4>2. CASE parts = <<p, q>>
        <5>1. DOMAIN parts = {1, 2} /\ parts[1] = p /\ parts[2] = q
          BY <4>2
        <5> QED  BY <4>2, <5>1
      <4> QED  BY <1>3, <4>1, <4>2
    <3>3. /\ list' \in Seq(Rect) /\ Len(list') = Len(list) + Len(parts)
          /\ \A i \in 1..Len(list) + Len(parts) : list'[i] =
                 IF i <= Len(list) THEN list[i] ELSE parts[i - Len(list)]
      BY <1>2, <2>1, <3>1, ConcatProperties
    <3>4. /\ Len(list) \in Nat /\ DOMAIN list = 1..Len(list)
          /\ DOMAIN list' = 1..Len(list) + Len(parts)
      BY <1>2, <3>3, LenProperties
    <3> HIDE DEF PartsCover
    <3>5. ASSUME ListHolds(px, py)'
          PROVE  ListHolds(px, py) \/ PartsCover
      <4>1. PICK i \in DOMAIN list' : Covers(list'[i], px, py)
        BY <3>5 DEF ListHolds
      <4>2. CASE i <= Len(list)
        <5>1. i \in DOMAIN list /\ list'[i] = list[i]
          BY <3>1, <3>3, <3>4, <4>2
        <5> QED  BY <4>1, <5>1 DEF ListHolds
      <4>3. CASE ~(i <= Len(list))
        <5>1. i - Len(list) \in DOMAIN parts /\ list'[i] = parts[i - Len(list)]
          BY <3>1, <3>3, <3>4, <4>3
        <5> QED  BY <3>2, <4>1, <5>1
      <4> QED  BY <4>2, <4>3
    <3>6. ASSUME ListHolds(px, py)
          PROVE  ListHolds(px, py)'
      <4>1. PICK i \in DOMAIN list : Covers(list[i], px, py)
        BY <3>6 DEF ListHolds
      <4>2. i \in DOMAIN list' /\ list'[i] = list[i]
        BY <3>1, <3>3, <3>4
      <4> QED  BY <4>1, <4>2 DEF ListHolds
    <3>7. ASSUME NEW i \in DOMAIN parts, Covers(parts[i], px, py)
          PROVE  ListHolds(px, py)'
      <4>1. Len(list) + i \in DOMAIN list' /\ ~(Len(list) + i <= Len(list)) /\ (Len(list) + i) - Len(list) = i
        BY <3>1, <3>4
      <4>2. list'[Len(list) + i] = parts[i]
        BY <3>3, <3>4, <4>1
      <4> QED  BY <3>7, <4>1, <4>2 DEF ListHolds
    <3> QED  BY <3>2, <3>5, <3>6, <3>7
  <2> HIDE DEF PartsCover
  <2> QED  BY <1>5, <1>7, <2>2, <2>3 DEF Held
<1>9. CASE ~AtLast
  <2>1. /\ UNCHANGED list
        /\ calls' = Inserted(Node + 1, p)
                      \o (IF Len(parts) = 2 THEN Inserted(Node + 1, q) ELSE <<>>) \o Tail(calls)
    BY <1>4, <1>9 DEF NewBroken
  <2> DEFINE c == Call(Node + 1, p)
             d == Call(Node + 1, q)
  <2>2. \A r \in Rect : Fits(r, Xrect) => r \in Rectangles
    BY <1>2, RectanglesAre
  <2>3. c \in CallType /\ c.xrect = p /\ Inserted(Node + 1, p) = <<c>>
    BY <1>2, <1>6, <2>2 DEF Call, CallType, Inserted
  <2>4. parts = <<p, q>> => d \in CallType /\ d.xrect = q
    BY <1>2, <1>6, <2>2 DEF Call, CallType
  <2>5. ListHolds(px, py)' <=> ListHolds(px, py)
    BY <2>1 DEF ListHolds
  <2>6. CallsHold(px, py)' <=> PartsCover \/ Waiting(px, py)
    <3>1. CASE parts = <<p>> \/ (parts = <<p, q>> /\ ~Visible(q))
      <4>1. (IF Len(parts) = 2 THEN Inserted(Node + 1, q) ELSE <<>>) = <<>>
        BY <3>1 DEF Inserted
      <4>2. <<c>> \in Seq(CallType)
        BY <2>3
      <4>3. <<c>> \o <<>> = <<c>>
        BY <4>2, ConcatEmptySeq
      <4>4. calls' = <<c>> \o Tail(calls)
        BY <2>1, <2>3, <4>1, <4>3
      <4>5. CallsHold(px, py)' <=> Covers(c.xrect, px, py) \/ Waiting(px, py)
        <5> HIDE DEF c
        <5> QED  BY <1>1, <2>3, <4>4, GoesOnHolds
      <4>6. ~(parts = <<p, q>> /\ Covers(q, px, py))
        <5>1. CASE parts = <<p>>
          <6>1. Len(parts) = 1
            BY <5>1
          <6> QED  BY <6>1
        <5>2. CASE parts = <<p, q>> /\ ~Visible(q)
          BY <1>6, <5>2 DEF Visible, Covers, Right, Bottom, Rect
        <5> QED  BY <3>1, <5>1, <5>2
      <4>7. PartsCover <=> Covers(p, px, py)
        BY <4>6
      <4> QED  BY <2>3, <4>5, <4>7
    <3>2. CASE parts = <<p, q>> /\ Visible(q)
      <4>1. (IF Len(parts) = 2 THEN Inserted(Node + 1, q) ELSE <<>>) = <<d>>
        BY <3>2 DEF Inserted
      <4>2. d \in CallType /\ d.xrect = q
        BY <2>4, <3>2
      <4> HIDE DEF c, d
      <4>3. <<c>> \o <<d>> = <<c, d>>
        BY <2>3, <4>2, PairIs
      <4>4. calls' = <<c, d>> \o Tail(calls)
        BY <2>1, <2>3, <4>1, <4>3
      <4>5. CallsHold(px, py)' <=> Covers(c.xrect, px, py) \/ Covers(d.xrect, px, py) \/ Waiting(px, py)
        BY <1>1, <2>3, <4>2, <4>4, PartsGoOnHold
      <4>6. PartsCover <=> Covers(p, px, py) \/ Covers(q, px, py)
        BY <3>2
      <4> QED  BY <2>3, <4>2, <4>5, <4>6
    <3> QED  BY <1>3, <3>1, <3>2
  <2> HIDE DEF PartsCover
  <2> QED  BY <1>5, <1>7, <2>5, <2>6 DEF Held
<1> QED  BY <1>8, <1>9

LEMMA DamagedIs ==
    /\ \A p : p \in Damaged <=> p \in Pixels /\ Held(p[1], p[2])
    /\ \A p : p \in Damaged' <=> p \in Pixels /\ Held(p[1], p[2])'
<1>1. \A r, p : p \in PixelsOf(r) <=> p \in Pixels /\ Covers(r, p[1], p[2])
  BY DEF PixelsOf
<1>2. \A p : p \in Damaged <=> \/ \E i \in DOMAIN list : p \in PixelsOf(list[i])
                              \/ \E i \in DOMAIN calls : p \in PixelsOf(calls[i].xrect)
  BY DEF Damaged
<1>3. \A p : p \in Damaged' <=> \/ \E i \in DOMAIN list' : p \in PixelsOf(list'[i])
                               \/ \E i \in DOMAIN calls' : p \in PixelsOf(calls'[i].xrect)
  BY DEF Damaged, PixelsOf, Pixels
<1>4. \A p : p \in Damaged <=> p \in Pixels /\ Held(p[1], p[2])
  BY <1>1, <1>2 DEF Held, ListHolds, CallsHold
<1>5. \A p : p \in Damaged' <=> p \in Pixels /\ Held(p[1], p[2])'
  BY <1>1, <1>3 DEF Held, ListHolds, CallsHold
<1> QED  BY <1>4, <1>5

LEMMA KeptIsUnchanged ==
    ASSUME PixelsKept
    PROVE  UNCHANGED Damaged
<1>1. \A p \in Pixels : p[1] \in Int /\ p[2] \in Int
  BY ScreenAssumption DEF Pixels
<1>2. \A p : p \in Damaged' <=> p \in Damaged
  BY <1>1, DamagedIs DEF PixelsKept
<1> QED  BY <1>2

LEMMA StepHolds ==
    ASSUME IInv, Step
    PROVE  UNCHANGED Damaged
<1>1. PixelsKept
  BY FirstHolds, NoCollisionHolds, OldCoveredHolds, NewCoveredHolds, OldBrokenHolds,
     OldBrokenAwayHolds, NewBrokenHolds, GroupedHolds DEF Step
<1> QED  BY <1>1, KeptIsUnchanged

LEMMA InsertAdds ==
    ASSUME NEW r, rmdRectInsert(r)
    PROVE  Damaged' = Damaged \cup PixelsOf(r)
<1>1. calls = <<>> /\ calls' = <<Call(1, r)>> /\ list' = list
  BY DEF rmdRectInsert
<1>2. DOMAIN calls = {} /\ DOMAIN calls' = {1} /\ calls'[1].xrect = r
  BY <1>1 DEF Call
<1>3. \A px, py : Held(px, py)' <=> Held(px, py) \/ Covers(r, px, py)
  BY <1>1, <1>2 DEF Held, ListHolds, CallsHold
<1>4. \A p : p \in Damaged' <=> p \in Damaged \/ p \in PixelsOf(r)
  BY <1>3, DamagedIs DEF PixelsOf
<1> QED  BY <1>4

LEMMA ClearForgets ==
    ASSUME rmdClearList
    PROVE  Damaged' = {}
<1>1. calls' = <<>> /\ list' = <<>>
  BY DEF rmdClearList
<1> QED  BY <1>1 DEF Damaged

LEMMA DamagedStays ==
    ASSUME UNCHANGED rectVars
    PROVE  UNCHANGED Damaged
  BY DEF rectVars, Damaged, PixelsOf, Pixels

(* A step of an insertion comes from a call under way.                     *)
LEMMA StepIsBusy ==
    ASSUME Step
    PROVE  calls # <<>>
  BY DEF Step, First, NoCollision, OldCovered, NewCovered, OldBroken, OldBrokenAway, NewBroken,
         Grouped, Walking

(* A call from outside is Damage's Insert of the rectangle's own pixels,   *)
(* whichever rectangle it is ...                                           *)
LEMMA CallInserts ==
    ASSUME NEW r, rmdRectInsert(r)
    PROVE  D!Insert(PixelsOf(r))
<1>1. calls = <<>> /\ calls' = <<Call(1, r)>>
  BY DEF rmdRectInsert
<1>2. calls' # <<>>
  BY <1>1
<1> QED  BY <1>1, <1>2, InsertAdds DEF D!Insert

(* ... and clearing the list is its Forget.                                *)
LEMMA ClearIsForget ==
    ASSUME rmdClearList
    PROVE  D!Forget
<1>1. calls = <<>> /\ calls' = calls
  BY DEF rmdClearList
<1> QED  BY <1>1, ClearForgets DEF D!Forget

(* The list and the calls under way hold the pixels that were inserted     *)
(* since it was last cleared, no more and no less: rmdRectInsert(r) adds   *)
(* exactly the pixels of r, rmdClearList forgets all, and no iteration of  *)
(* an insertion, whichever case of rmdCollideRects, adds or loses one.     *)
THEOREM InsertsDamage == Spec => ImplementsDamage
<1>1. Init => D!DamageInit
  BY DEF Init, D!DamageInit, Damaged
<1>2. IInv /\ [Next]_rectVars => [D!DamageNext]_(D!damageVars)
  <2> SUFFICES ASSUME IInv, [Next]_rectVars
               PROVE  D!DamageNext \/ UNCHANGED D!damageVars
    BY DEF D!DamageNext
  <2>1. CASE Insertions
    <3>1. PICK r \in Rectangles : Visible(r) /\ OnScreen(r) /\ rmdRectInsert(r)
      BY <2>1 DEF Insertions
    <3>2. PixelsOf(r) \in Shapes
      BY <3>1 DEF Shapes
    <3> QED  BY <3>1, <3>2, CallInserts DEF D!DamageNext
  <2>2. CASE rmdClearList
    BY <2>2, ClearIsForget DEF D!DamageNext
  <2>3. CASE Step
    <3>1. D!Work
      BY <2>3, StepHolds, StepIsBusy DEF D!Work
    <3> QED  BY <3>1 DEF D!DamageNext
  <2>4. CASE UNCHANGED rectVars
    BY <2>4, DamagedStays DEF D!damageVars, rectVars
  <2> QED  BY <2>1, <2>2, <2>3, <2>4 DEF Next
<1>3. [Next]_rectVars => [AddsItsOwn /\ ForgetsAll]_rectVars
  <2>1. AddsItsOwn
    BY CallInserts DEF AddsItsOwn
  <2>2. ForgetsAll
    BY ClearIsForget DEF ForgetsAll
  <2> QED  BY <2>1, <2>2
<1> QED  BY <1>1, <1>2, <1>3, InsertInvariant, PTL DEF Spec, ImplementsDamage, D!DamageSpec

-----------------------------------------------------------------------------
(***************************************************************************)
(* The turn of rmdGetFrames that makes the list.                           *)
(***************************************************************************)
CallIn(rects) == [node : Nat \ {0}, xrect : rects]

LEMMA NextCall ==
    ASSUME NEW G, NEW k \in CallIn(G)
    PROVE  [k EXCEPT !.node = @ + 1] \in CallIn(G)
  BY DEF CallIn

(* A step of an insertion takes its rectangles from those that it has, or  *)
(* from what rmdCollideRects() makes of two of them.                       *)
LEMMA StepStaysIn ==
    ASSUME IInv, Step, NEW G \in SUBSET Rectangles,
           list \in Seq(G), calls \in Seq(CallIn(G)),
           \A r, s \in G : Visible(s) /\ (Visible(r) \/ Thin(r)) =>
               \A i \in DOMAIN Collide(r, s).rects : Collide(r, s).rects[i] \in G
    PROVE  list' \in Seq(G) /\ calls' \in Seq(CallIn(G))
<1>1. calls # <<>>
  BY DEF Step, First, NoCollision, OldCovered, NewCovered, OldBroken, OldBrokenAway, NewBroken,
         Grouped, Walking
<1>2. /\ Node \in Nat \ {0} /\ Xrect \in G /\ Visible(Xrect) /\ Xrect \in Rect
      /\ Tail(calls) \in Seq(CallIn(G))
  <2>1. calls[1] \in CallIn(G) /\ Tail(calls) \in Seq(CallIn(G))
    BY <1>1, CallRight, ElementOfSeq, HeadTailProperties
  <2> QED  BY <1>1, <2>1, CallRight DEF CallIn
<1>3. ASSUME list # <<>>
      PROVE  Node \in 1..Len(list) /\ list[Node] \in G /\ list[Node] \in Rect
             /\ (Visible(list[Node]) \/ Thin(list[Node]))
  <2>1. Node \in 1..Len(list) /\ list[Node] \in Rect
    BY <1>1, <1>3, CallRight
  <2>2. list[Node] \in G
    BY <2>1, ElementOfSeq
  <2>3. Visible(list[Node]) \/ Thin(list[Node])
    BY <2>1, ListIs DEF IInv, ThinNodes, ThinNode
  <2> QED  BY <2>1, <2>2, <2>3
<1>4. \A new \in Seq(CallIn(G)) : new \o Tail(calls) \in Seq(CallIn(G))
  BY <1>2, ConcatProperties
<1>5. \A n \in Nat \ {0}, r \in G : Inserted(n, r) \in Seq(CallIn(G))
  <2>1. ASSUME NEW n \in Nat \ {0}, NEW r \in G
        PROVE  Inserted(n, r) \in Seq(CallIn(G))
    <3>1. Call(n, r) \in CallIn(G)
      BY DEF Call, CallIn
    <3>2. <<Call(n, r)>> \in Seq(CallIn(G)) /\ <<>> \in Seq(CallIn(G))
      BY <3>1, EmptySeq
    <3> QED  BY <3>2 DEF Inserted
  <2> QED  BY <2>1
<1>6. \A n \in Nat \ {0}, r \in G : Inserted(n, r) \o Tail(calls) \in Seq(CallIn(G))
  BY <1>4, <1>5
<1>7. \A i \in 1..Len(list), r \in G : [list EXCEPT ![i] = r] \in Seq(G)
  BY ExceptSeq
<1>8. \A i \in 1..Len(list) : RemoveAt(list, i) \in Seq(G)
  BY RemoveAtRight
<1>9. \A l \in Seq(G), r \in G : Append(l, r) \in Seq(G)
  BY AppendProperties
<1>10. ASSUME calls' = [calls EXCEPT ![1].node = @ + 1]
       PROVE  calls' \in Seq(CallIn(G))
  <2>1. 1 \in 1..Len(calls) /\ calls[1] \in CallIn(G) /\ calls[1].node \in Nat \ {0}
    BY <1>1, CallRight, ElementOfSeq
  <2> DEFINE c == [calls[1] EXCEPT !.node = @ + 1]
  <2>2. \A k \in CallIn(G) : [k EXCEPT !.node = @ + 1] \in CallIn(G)
    BY NextCall
  <2>3. calls' = [calls EXCEPT ![1] = c] /\ c \in CallIn(G)
    BY <1>10, <2>1, <2>2
  <2> HIDE DEF c
  <2> QED  BY <2>1, <2>2, <2>3, ExceptSeq
<1> HIDE DEF CallIn
<1>11. CASE First
  <2>1. list' = <<Xrect>> /\ calls' = Tail(calls)
    BY <1>11 DEF First, Return
  <2> QED  BY <1>2, <2>1
<1>12. CASE NoCollision
  BY <1>2, <1>9, <1>10, <1>12 DEF NoCollision, Return
<1>13. CASE OldCovered
  <2>1. list # <<>>
    BY <1>13 DEF OldCovered, Walking
  <2> QED  BY <1>2, <1>3, <1>6, <1>7, <1>8, <1>13, <2>1 DEF OldCovered, Return, Reenter
<1>14. CASE NewCovered
  BY <1>2, <1>14 DEF NewCovered, Return
<1>15. CASE OldBroken
  <2>1. list # <<>> /\ Meeting.result = "oldBroken"
    BY <1>15 DEF OldBroken, Walking
  <2>2. Collide(list[Node], Xrect) = Outcome("oldBroken", <<BreakOff(list[Node], Xrect)>>)
    BY <2>1, CollideCases DEF Meeting, Outcome
  <2>3. DOMAIN Collide(list[Node], Xrect).rects = {1}
    BY <2>2 DEF Outcome
  <2>4. Meeting.rects[1] \in G
    BY <1>2, <1>3, <2>1, <2>3 DEF Meeting
  <2>5. [list EXCEPT ![Node] = Meeting.rects[1]] \in Seq(G)
    BY <1>3, <1>7, <2>1, <2>4
  <2> QED  BY <1>2, <1>9, <1>10, <1>15, <2>5 DEF OldBroken, Return
<1>16. CASE OldBrokenAway
  <2>1. list # <<>>
    BY <1>16 DEF OldBrokenAway, Walking
  <2> QED  BY <1>2, <1>3, <1>6, <1>7, <1>8, <1>16, <2>1 DEF OldBrokenAway, Return, Reenter
<1>17. CASE NewBroken
  <2>1. list # <<>> /\ Meeting.result = "newBroken"
    BY <1>17 DEF NewBroken, Walking
  <2> DEFINE parts == Meeting.rects
  <2>2. parts = <<parts[1]>> \/ parts = <<parts[1], parts[2]>>
    BY <1>2, <1>3, <2>1, NewBrokenRight DEF Meeting
  <2>3. \A i \in DOMAIN parts : parts[i] \in G
    BY <1>2, <1>3, <2>1 DEF Meeting
  <2>4. Node + 1 \in Nat \ {0}
    BY <1>2
  <2>5. /\ AtLast => list' = list \o parts /\ calls' = Tail(calls)
        /\ ~AtLast => /\ list' = list
                      /\ calls' = Inserted(Node + 1, parts[1])
                                    \o (IF Len(parts) = 2 THEN Inserted(Node + 1, parts[2]) ELSE <<>>)
                                    \o Tail(calls)
    BY <1>17 DEF NewBroken, Return
  <2> HIDE DEF parts
  <2>6. parts[1] \in G /\ parts \in Seq(G) /\ (Len(parts) = 2 => parts[2] \in G)
    <3>1. CASE parts = <<parts[1]>>
      <4>1. DOMAIN parts = {1} /\ Len(parts) = 1
        BY <3>1
      <4>2. <<parts[1]>> \in Seq(G)
        BY <2>3, <4>1
      <4> QED  BY <2>3, <3>1, <4>1, <4>2
    <3>2. CASE parts = <<parts[1], parts[2]>>
      <4>1. DOMAIN parts = {1, 2}
        BY <3>2
      <4>2. <<parts[1], parts[2]>> \in Seq(G)
        BY <2>3, <4>1
      <4> QED  BY <2>3, <3>2, <4>1, <4>2
    <3> QED  BY <2>2, <3>1, <3>2
  <2>7. list \o parts \in Seq(G)
    BY <2>6, ConcatProperties
  <2>8. (IF Len(parts) = 2 THEN Inserted(Node + 1, parts[2]) ELSE <<>>) \in Seq(CallIn(G))
    BY <1>5, <2>4, <2>6, EmptySeq
  <2>9. Inserted(Node + 1, parts[1])
          \o (IF Len(parts) = 2 THEN Inserted(Node + 1, parts[2]) ELSE <<>>) \in Seq(CallIn(G))
    BY <1>5, <2>4, <2>6, <2>8, ConcatProperties
  <2> QED  BY <1>2, <1>4, <2>5, <2>7, <2>9
<1>18. CASE Grouped
  <2>1. list # <<>> /\ Meeting.result = "grouped"
    BY <1>18 DEF Grouped, Walking
  <2>2. Collide(list[Node], Xrect) = Outcome("grouped", <<Group(list[Node], Xrect)>>)
    BY <2>1, CollideCases DEF Meeting, Outcome
  <2>3. DOMAIN Collide(list[Node], Xrect).rects = {1}
    BY <2>2 DEF Outcome
  <2>4. Meeting.rects[1] \in G
    BY <1>2, <1>3, <2>1, <2>3 DEF Meeting
  <2> QED  BY <1>2, <1>3, <1>6, <1>7, <1>8, <1>18, <2>1, <2>4 DEF Grouped, Return, Reenter
<1> QED  BY <1>11, <1>12, <1>13, <1>14, <1>15, <1>16, <1>17, <1>18 DEF Step

-----------------------------------------------------------------------------
(* Where the borders of the results of rmdCollideRects() come from: those  *)
(* of the two rectangles; a right one becomes a left one only where pixels *)
(* follow.                                                                 *)
Borders(from, to, from1, to1, from2, to2) ==
    /\ from \in {from1, from2} \/ (from \in {to1, to2} /\ from < to)
    /\ to \in {from1, from2, to1, to2}
BordersOf(q, r, s) ==
    /\ Borders(q.x, Right(q), r.x, Right(r), s.x, Right(s))
    /\ Borders(q.y, Bottom(q), r.y, Bottom(r), s.y, Bottom(s))

LEMMA BreakOffBorders ==
    ASSUME NEW r \in Rect, NEW s \in Rect, Visible(r) \/ Thin(r), ~Fits(r, s)
    PROVE  BordersOf(BreakOff(r, s), r, s)
<1> DEFINE q == BreakOff(r, s)
<1>1. r.x \in Nat /\ r.y \in Nat /\ r.width \in Nat /\ r.height \in Nat
      /\ s.x \in Nat /\ s.y \in Nat /\ s.width \in Nat /\ s.height \in Nat
  BY DEF Rect
<1> SUFFICES BordersOf(q, r, s)
  OBVIOUS
<1> USE DEF BordersOf, Borders, Right, Bottom
<1>2. CASE TopIn(r, s)
  <2>1. q = [r EXCEPT !.y = Bottom(s), !.height = Bottom(r) - Bottom(s)]
    BY <1>2 DEF BreakOff, Below
  <2>2. q.x = r.x /\ q.width = r.width /\ q.y = Bottom(s) /\ q.height = Bottom(r) - Bottom(s)
    BY <2>1 DEF Rect
  <2>3. Bottom(s) < Bottom(r)
    BY <1>1, <1>2 DEF TopIn, Corner0, Corner1, InX, InY, Fits
  <2> HIDE DEF q
  <2> QED  BY <1>1, <2>2, <2>3
<1>3. CASE ~TopIn(r, s) /\ LeftIn(r, s)
  <2>1. q = [r EXCEPT !.x = Right(s), !.width = Right(r) - Right(s)]
    BY <1>3 DEF BreakOff, RightOf
  <2>2. q.y = r.y /\ q.height = r.height /\ q.x = Right(s) /\ q.width = Right(r) - Right(s)
    BY <2>1 DEF Rect
  <2>3. Right(s) < Right(r)
    BY <1>1, <1>3 DEF LeftIn, Corner0, Corner2, InX, InY, Fits
  <2> HIDE DEF q
  <2> QED  BY <1>1, <2>2, <2>3
<1>4. CASE ~TopIn(r, s) /\ ~LeftIn(r, s) /\ RightIn(r, s)
  <2>1. q = [r EXCEPT !.width = s.x - r.x]
    BY <1>4 DEF BreakOff, LeftOf
  <2>2. q.y = r.y /\ q.height = r.height /\ q.x = r.x /\ q.width = s.x - r.x
    BY <2>1 DEF Rect
  <2> HIDE DEF q
  <2> QED  BY <1>1, <2>2
<1>5. CASE ~TopIn(r, s) /\ ~LeftIn(r, s) /\ ~RightIn(r, s) /\ BottomIn(r, s)
  <2>1. q = [r EXCEPT !.height = s.y - r.y]
    BY <1>5 DEF BreakOff, Above
  <2>2. q.x = r.x /\ q.width = r.width /\ q.y = r.y /\ q.height = s.y - r.y
    BY <2>1 DEF Rect
  <2> HIDE DEF q
  <2> QED  BY <1>1, <2>2
<1>6. CASE ~TopIn(r, s) /\ ~LeftIn(r, s) /\ ~RightIn(r, s) /\ ~BottomIn(r, s)
  <2>1. q = r
    BY <1>6 DEF BreakOff
  <2> HIDE DEF q
  <2> QED  BY <1>1, <2>1
<1> HIDE DEF q, BordersOf, Borders
<1> QED  BY <1>2, <1>3, <1>4, <1>5, <1>6

LEMMA CutBorders ==
    ASSUME NEW r \in Rect, NEW s \in Rect, NEW p \in Rect, NEW q \in Rect, Visible(s),
           CutBeside(r, s, p, q), CutAcross(r, s, q)
    PROVE  BordersOf(p, r, s) /\ BordersOf(q, r, s)
  BY DEF CutBeside, CutAcross, BordersOf, Borders, Right, Bottom, Visible, Rect

LEMMA CornerBorders ==
    ASSUME NEW r \in Rect, NEW s \in Rect, Visible(s), NewSplits(r, s), Enclosed(s, r) = 1
    PROVE  /\ BordersOf(BreakCorner(s, r)[1], r, s)
           /\ BordersOf(BreakCorner(s, r)[2], r, s)
  BY CornerRight, CornerIs, CutBorders DEF SplitRight

LEMMA CrossBorders ==
    ASSUME NEW r \in Rect, NEW s \in Rect, Visible(s), NewSplits(r, s), Enclosed(s, r) # 1
    PROVE  /\ BordersOf(BreakCross(s, r)[1], r, s)
           /\ BordersOf(BreakCross(s, r)[2], r, s)
<1>1. Visible(BreakCross(s, r)[1]) /\ Visible(BreakCross(s, r)[2])
  BY CrossRight DEF SplitRight
<1> QED  BY <1>1 DEF BreakCross, Above, Below, LeftOf, RightOf, BordersOf, Borders, Right, Bottom,
                     Visible, Rect

LEMMA GroupBorders ==
    ASSUME NEW r \in Rect, NEW s \in Rect, Visible(s)
    PROVE  BordersOf(Group(r, s), r, s)
  BY DEF Group, Stacked, Adjacent, XRectangle, BordersOf, Borders, Right, Bottom, Visible, Rect,
         TopIn, BottomIn, LeftIn, RightIn, Corner0, Corner1, Corner2, Corner3, InX, InY

LEMMA CollideBorders ==
    ASSUME NEW r \in Rect, NEW s \in Rect, Visible(s), Visible(r) \/ Thin(r),
           NEW i \in DOMAIN Collide(r, s).rects
    PROVE  Collide(r, s).rects[i] \in Rect /\ BordersOf(Collide(r, s).rects[i], r, s)
<1> DEFINE o == Collide(r, s)
<1>1. CASE o.rects = <<>>
  <2>1. DOMAIN o.rects = {}
    BY <1>1
  <2> QED  BY <2>1
<1>2. CASE o = Outcome("grouped", <<Group(r, s)>>) /\ Meet(r, s) /\ Groupable(r, s)
  <2>1. o.rects[i] = Group(r, s)
    BY <1>2 DEF Outcome
  <2> QED  BY <1>2, <2>1, GroupRight, GroupBorders
<1>3. CASE o = Outcome("newBroken", <<BreakOff(s, r)>>) /\ NewLoses(r, s)
  <2>1. o.rects[i] = BreakOff(s, r)
    BY <1>3 DEF Outcome
  <2>2. ~Fits(s, r)
    BY <1>3 DEF NewLoses, Meet
  <2>3. BordersOf(BreakOff(s, r), s, r)
    BY <2>2, BreakOffBorders
  <2>4. BordersOf(BreakOff(s, r), r, s)
    BY <2>3 DEF BordersOf, Borders
  <2> QED  BY <1>3, <2>1, <2>4, NewLosesRight
<1>4. CASE o = Outcome("oldBroken", <<BreakOff(r, s)>>) /\ OldBreaks(r, s)
  <2>1. o.rects[i] = BreakOff(r, s)
    BY <1>4 DEF Outcome
  <2>2. ~Fits(r, s)
    BY <1>4 DEF OldBreaks, Meet
  <2> QED  BY <1>4, <2>1, <2>2, OldBreaksRight, BreakOffBorders
<1>5. CASE o = Outcome("newBroken", BreakCorner(s, r)) /\ NewSplits(r, s) /\ Enclosed(s, r) = 1
  <2>1. BreakCorner(s, r) = <<BreakCorner(s, r)[1], BreakCorner(s, r)[2]>>
    BY DEF BreakCorner
  <2>2. o.rects = BreakCorner(s, r) /\ i \in {1, 2}
    BY <1>5, <2>1 DEF Outcome
  <2> QED  BY <1>5, <2>2, CornerRight, CornerBorders DEF SplitRight
<1>6. CASE o = Outcome("newBroken", BreakCross(s, r)) /\ NewSplits(r, s) /\ Enclosed(s, r) # 1
  <2>1. BreakCross(s, r) = <<BreakCross(s, r)[1], BreakCross(s, r)[2]>>
    BY DEF BreakCross
  <2>2. o.rects = BreakCross(s, r) /\ i \in {1, 2}
    BY <1>6, <2>1 DEF Outcome
  <2> QED  BY <1>6, <2>2, CrossRight, CrossBorders DEF SplitRight
<1> HIDE DEF o
<1>7. \/ o.rects = <<>>
      \/ o = Outcome("grouped", <<Group(r, s)>>) /\ Meet(r, s) /\ Groupable(r, s)
      \/ o = Outcome("newBroken", <<BreakOff(s, r)>>) /\ NewLoses(r, s)
      \/ o = Outcome("oldBroken", <<BreakOff(r, s)>>) /\ OldBreaks(r, s)
      \/ o = Outcome("newBroken", BreakCorner(s, r)) /\ NewSplits(r, s) /\ Enclosed(s, r) = 1
      \/ o = Outcome("newBroken", BreakCross(s, r)) /\ NewSplits(r, s) /\ Enclosed(s, r) # 1
  BY CollideCases DEF Outcome, o
<1> QED  BY <1>1, <1>2, <1>3, <1>4, <1>5, <1>6, <1>7

-----------------------------------------------------------------------------
(* The inductive invariant.  A rectangle on the list, or about to join it, *)
(* is inside of what is recorded and, without a pointer, on whole samples; *)
(* rmdCollideRects() makes no other borders than those two have.           *)
SampledSide(from, to, limit) == ~Odd(from) /\ (~Odd(to) \/ to = limit)
Sampled(r) ==
    /\ SampledSide(r.x - rrect.x, Right(r) - rrect.x, rrect.width)
    /\ SampledSide(r.y - rrect.y, Bottom(r) - rrect.y, rrect.height)
InTurn(r) == Fits(r, rrect) /\ (cursor = "none" => Sampled(r))
Turn == { r \in Rectangles : InTurn(r) }

(* Where the dummy pointer starts.                                         *)
Corner == XRectangle(0, 0, dummy_p_size, dummy_p_size)
DummyInside == cursor = "dummy" => Fits(Corner, rrect)

PointerRight ==
    \/ mouse_pos_temp = Nowhere
    \/ /\ mouse_pos_temp \in Rectangles /\ OnScreen(mouse_pos_temp)
       /\ cursor # "none" /\ Placed(mouse_pos_temp) => Fits(mouse_pos_temp, rrect)
PointerPixels == IF cursor # "none" /\ Placed(mouse_pos_temp) THEN PixelsOf(mouse_pos_temp) ELSE {}

TurnType ==
    /\ [area |-> rrect, cursor |-> cursor] \in Settings
    /\ pc \in {"events", "pointer", "update"}
    /\ PointerRight
    /\ reported \subseteq PixelsOf(rrect) /\ drawn \subseteq PixelsOf(rrect)
ListInTurn == list \in Seq(Turn) /\ calls \in Seq(CallIn(Turn))
Remembered ==
    /\ reported \subseteq Damaged
    /\ drawn \subseteq IF pc = "events" THEN PointerPixels ELSE Damaged
    /\ pc = "update" => PointerPixels \subseteq Damaged
TurnInv == IInv /\ TurnType /\ ListInTurn /\ Remembered
EventInv == DummyInside => TurnInv

LEMMA BordersFit ==
    ASSUME NEW q \in Rect, NEW r \in Rect, NEW s \in Rect, NEW a \in Rect,
           BordersOf(q, r, s), Fits(r, a), Fits(s, a)
    PROVE  Fits(q, a)
  BY DEF BordersOf, Borders, Fits, Right, Bottom, Rect

LEMMA SideSampled ==
    ASSUME NEW from \in Int, NEW to \in Int, NEW from1 \in Int, NEW to1 \in Int,
           NEW from2 \in Int, NEW to2 \in Int, NEW start \in Int, NEW limit \in Int,
           Borders(from, to, from1, to1, from2, to2), to - start <= limit,
           SampledSide(from1 - start, to1 - start, limit),
           SampledSide(from2 - start, to2 - start, limit)
    PROVE  SampledSide(from - start, to - start, limit)
  BY DEF Borders, SampledSide

(* What rmdCollideRects() makes of two that belong in the turn does too.   *)
LEMMA TurnStays ==
    ASSUME rrect \in Rectangles, OnScreen(rrect),
           NEW r \in Turn, NEW s \in Turn, Visible(s), Visible(r) \/ Thin(r),
           NEW i \in DOMAIN Collide(r, s).rects
    PROVE  Collide(r, s).rects[i] \in Turn
<1> DEFINE q == Collide(r, s).rects[i]
<1>1. /\ r \in Rect /\ s \in Rect /\ rrect \in Rect
      /\ Fits(r, rrect) /\ Fits(s, rrect)
  BY RectanglesAre DEF Turn, InTurn
<1>2. q \in Rect /\ BordersOf(q, r, s)
  BY <1>1, CollideBorders
<1> HIDE DEF q
<1>3. Fits(q, rrect)
  BY <1>1, <1>2, BordersFit
<1>4. q \in Rectangles
  BY <1>1, <1>2, <1>3, RectanglesAre
<1>5. ASSUME cursor = "none"
      PROVE  Sampled(q)
  <2>1. Sampled(r) /\ Sampled(s)
    BY <1>5 DEF Turn, InTurn
  <2>2. /\ q.x \in Int /\ Right(q) \in Int /\ q.y \in Int /\ Bottom(q) \in Int
        /\ r.x \in Int /\ Right(r) \in Int /\ r.y \in Int /\ Bottom(r) \in Int
        /\ s.x \in Int /\ Right(s) \in Int /\ s.y \in Int /\ Bottom(s) \in Int
        /\ rrect.x \in Int /\ rrect.y \in Int /\ rrect.width \in Int /\ rrect.height \in Int
    BY <1>1, <1>2 DEF Rect, Right, Bottom
  <2>3. Right(q) - rrect.x <= rrect.width /\ Bottom(q) - rrect.y <= rrect.height
    BY <1>3, <2>2 DEF Fits, Right, Bottom
  <2>4. SampledSide(q.x - rrect.x, Right(q) - rrect.x, rrect.width)
    BY <1>2, <2>1, <2>2, <2>3, SideSampled DEF BordersOf, Sampled
  <2>5. SampledSide(q.y - rrect.y, Bottom(q) - rrect.y, rrect.height)
    BY <1>2, <2>1, <2>2, <2>3, SideSampled DEF BordersOf, Sampled
  <2> QED  BY <2>4, <2>5 DEF Sampled
<1>6. q \in Turn
  BY <1>3, <1>4, <1>5 DEF Turn, InTurn
<1> QED  BY <1>6 DEF q

-----------------------------------------------------------------------------
(* What joins the list: areas that were clipped and aligned, the pointer.  *)
LEMMA GrownRight ==
    ASSUME NEW from \in Nat, NEW length \in Nat \ {0}, NEW limit \in Nat, from + length <= limit
    PROVE  LET start == from - (from % 2)
               to == start + Grown(from, length, limit)
           IN  /\ start \in Nat /\ start <= from /\ Grown(from, length, limit) \in Nat \ {0}
               /\ from + length <= to /\ to <= limit
               /\ SampledSide(start, to, limit)
  BY DEF Grown, SampledSide, Odd

(* clip_event_area(): what it lets through has pixels, all of them inside, *)
(* and all those of the area that are recorded.                            *)
LEMMA ClipRight ==
    ASSUME NEW area \in [x : Int, y : Int, width : Nat \ {0}, height : Nat \ {0}],
           NEW clip \in Rect, Visible(clip), LetThrough(area, clip)
    PROVE  /\ Clip(area, clip) \in Rect /\ Visible(Clip(area, clip)) /\ Fits(Clip(area, clip), clip)
           /\ \A px, py \in Int : Covers(area, px, py) /\ Covers(clip, px, py)
                                    => Covers(Clip(area, clip), px, py)
  BY DEF Clip, LetThrough, Fits, Covers, Visible, Right, Bottom, Rect, XRectangle, Minimum, Maximum

LEMMA PointerClipped ==
    ASSUME NEW area \in [x : Int, y : Int, width : Nat, height : Nat],
           NEW clip \in Rect, ~Apart(area, clip)
    PROVE  Clip(area, clip) \in Rect /\ Fits(Clip(area, clip), clip)
  BY DEF Clip, Apart, Fits, Right, Bottom, Rect, XRectangle, Minimum, Maximum

LEMMA TurnIs ==
    ASSUME TurnType
    PROVE  /\ rrect \in Rectangles /\ rrect \in Rect /\ Visible(rrect) /\ OnScreen(rrect)
           /\ cursor \in {"none", "xfixes", "dummy"}
<1> DEFINE set == [area |-> rrect, cursor |-> cursor]
<1>1. set \in Settings /\ set.area = rrect /\ set.cursor = cursor
  BY DEF TurnType
<1> HIDE DEF set
<1>2. set.area \in Rectangles /\ set.cursor \in {"none", "xfixes", "dummy"}
      /\ Visible(set.area) /\ OnScreen(set.area)
  BY <1>1, AreasAssumption
<1> QED  BY <1>1, <1>2, RectanglesAre

(* uv_align(): whole samples, within what is recorded.                     *)
LEMMA AlignedRight ==
    ASSUME TurnType, NEW c \in Rect, Visible(c), Fits(c, rrect)
    PROVE  LET a == uv_align(rrect, c) IN
           a \in Turn /\ Visible(a) /\ OnScreen(a) /\ a \in Rect /\ Fits(c, a)
<1> DEFINE a == uv_align(rrect, c)
           x == c.x - rrect.x
           y == c.y - rrect.y
           w == Grown(x, c.width, rrect.width)
           h == Grown(y, c.height, rrect.height)
<1>1. rrect \in Rect /\ OnScreen(rrect)
  BY TurnIs
<1>2. /\ x \in Nat /\ c.width \in Nat \ {0} /\ rrect.width \in Nat /\ x + c.width <= rrect.width
      /\ y \in Nat /\ c.height \in Nat \ {0} /\ rrect.height \in Nat /\ y + c.height <= rrect.height
  BY <1>1 DEF Visible, Fits, Right, Bottom, Rect
<1>3. /\ c.x \in Nat /\ c.y \in Nat /\ rrect.x \in Nat /\ rrect.y \in Nat
      /\ c.x = rrect.x + x /\ c.y = rrect.y + y
  BY <1>1 DEF Rect
<1>4. /\ a.x = c.x - (x % 2) /\ a.y = c.y - (y % 2) /\ a.width = w /\ a.height = h
      /\ a = [x |-> a.x, y |-> a.y, width |-> w, height |-> h]
  BY DEF uv_align, XRectangle
<1> DEFINE sx == x - (x % 2)
           sy == y - (y % 2)
<1> HIDE DEF x, y, w, h, a
<1>5. /\ sx \in Nat /\ sx <= x /\ w \in Nat \ {0}
      /\ x + c.width <= sx + w /\ sx + w <= rrect.width /\ SampledSide(sx, sx + w, rrect.width)
  BY <1>2, GrownRight DEF w
<1>6. /\ sy \in Nat /\ sy <= y /\ h \in Nat \ {0}
      /\ y + c.height <= sy + h /\ sy + h <= rrect.height /\ SampledSide(sy, sy + h, rrect.height)
  BY <1>2, GrownRight DEF h
<1>7. x % 2 \in Int /\ y % 2 \in Int
  BY <1>2
<1>8. a.x = rrect.x + sx /\ a.y = rrect.y + sy
  BY <1>2, <1>3, <1>4, <1>7
<1> HIDE DEF sx, sy
<1>9. a \in Rect
  <2>1. a.x \in Nat /\ a.y \in Nat
    BY <1>3, <1>5, <1>6, <1>8
  <2> QED  BY <1>4, <1>5, <1>6, <2>1 DEF Rect
<1>10. Visible(a)
  BY <1>4, <1>5, <1>6 DEF Visible
<1>11. Fits(a, rrect) /\ Fits(c, a)
  BY <1>2, <1>3, <1>4, <1>5, <1>6, <1>8 DEF Fits, Right, Bottom
<1>12. OnScreen(a) /\ a \in Rectangles
  BY <1>1, <1>9, <1>11, RectanglesAre
<1>13. Sampled(a)
  <2>1. /\ a.x - rrect.x = sx /\ Right(a) - rrect.x = sx + w
        /\ a.y - rrect.y = sy /\ Bottom(a) - rrect.y = sy + h
    BY <1>3, <1>4, <1>5, <1>6, <1>8 DEF Right, Bottom
  <2> QED  BY <1>5, <1>6, <2>1 DEF Sampled
<1>14. a \in Turn
  BY <1>11, <1>12, <1>13 DEF Turn, InTurn
<1> QED  BY <1>9, <1>10, <1>11, <1>12, <1>14 DEF a

(* A rectangle that belongs in the turn joins the list.                    *)
LEMMA JoinsTurn ==
    ASSUME IInv, ListInTurn, UNCHANGED <<rrect, cursor>>,
           NEW r \in Turn, Visible(r), OnScreen(r), rmdRectInsert(r)
    PROVE  IInv' /\ ListInTurn' /\ Damaged' = Damaged \cup PixelsOf(r)
<1>1. r \in Rectangles
  BY DEF Turn
<1>2. Turn' = Turn
  BY DEF Turn, InTurn, Sampled
<1>3. calls' = <<Call(1, r)>> /\ list' = list
  BY DEF rmdRectInsert
<1>4. Call(1, r) \in CallIn(Turn)
  BY DEF Call, CallIn
<1>5. calls' \in Seq(CallIn(Turn))
  BY <1>3, <1>4
<1>6. CallIn(Turn)' = CallIn(Turn)
  BY <1>2 DEF CallIn
<1>7. ListInTurn'
  BY <1>2, <1>3, <1>5, <1>6 DEF ListInTurn
<1> QED  BY <1>1, <1>7, InsertKeeps, InsertAdds

LEMMA PlaceJoinsTurn ==
    ASSUME IInv, ListInTurn, UNCHANGED <<rrect, cursor>>,
           NEW r, Placed(r) => r \in Turn /\ OnScreen(r), Insert(r)
    PROVE  /\ IInv' /\ ListInTurn'
           /\ Damaged' = Damaged \cup (IF Placed(r) THEN PixelsOf(r) ELSE {})
<1>1. CASE Placed(r)
  <2>1. Visible(r) /\ rmdRectInsert(r) /\ r \in Turn /\ OnScreen(r)
    BY <1>1 DEF Insert, Placed
  <2> QED  BY <1>1, <2>1, JoinsTurn
<1>2. CASE ~Placed(r)
  <2>1. UNCHANGED rectVars
    BY <1>2 DEF Insert
  <2>2. Turn' = Turn
    BY DEF Turn, InTurn, Sampled
  <2>3. CallIn(Turn)' = CallIn(Turn)
    BY <2>2 DEF CallIn
  <2>4. ListInTurn'
    BY <2>1, <2>2, <2>3 DEF ListInTurn, rectVars
  <2> QED  BY <1>2, <2>1, <2>4, StandsStill, DamagedStays
<1> QED  BY <1>1, <1>2

(* The pixels of what fits in another.                                     *)
LEMMA PixelsFit ==
    ASSUME NEW r \in Rect, NEW s \in Rect, Fits(r, s)
    PROVE  PixelsOf(r) \subseteq PixelsOf(s)
<1>1. \A p \in Pixels : p[1] \in Int /\ p[2] \in Int
  BY ScreenAssumption DEF Pixels
<1> QED  BY <1>1, CoversWithin DEF PixelsOf

-----------------------------------------------------------------------------
(* The invariant is kept by every action of the turn.                      *)
LEMMA NotifyInTurn ==
    ASSUME TurnInv, NEW area \in Areas, DamageNotify(area)
    PROVE  TurnInv'
<1> DEFINE c == Clip(area, rrect)
           r == uv_align(rrect, c)
<1>1. IInv /\ TurnType /\ ListInTurn /\ Remembered
  BY DEF TurnInv
<1>2. rrect \in Rect /\ Visible(rrect)
  BY <1>1, TurnIs
<1>3. area \in [x : Int, y : Int, width : Nat \ {0}, height : Nat \ {0}]
  BY ScreenAssumption DEF Areas, XRectangle
<1>4. LetThrough(area, rrect)
  BY DEF DamageNotify
<1>5. /\ c \in Rect /\ Visible(c) /\ Fits(c, rrect)
      /\ \A px, py \in Int : Covers(area, px, py) /\ Covers(rrect, px, py) => Covers(c, px, py)
  BY <1>2, <1>3, <1>4, ClipRight
<1>6. r \in Turn /\ Visible(r) /\ OnScreen(r) /\ r \in Rect /\ Fits(c, r)
  BY <1>1, <1>5, AlignedRight
<1>7. /\ rmdRectInsert(r) /\ reported' = reported \cup Recorded(area)
      /\ UNCHANGED <<rrect, cursor, pc, mouse_pos_temp, drawn>> /\ pc = "events"
  BY DEF DamageNotify
<1>8. Recorded(area) \subseteq PixelsOf(r) /\ Recorded(area) \subseteq PixelsOf(rrect)
  <2>1. Recorded(area) \subseteq PixelsOf(c)
    <3>1. \A p \in Pixels : p[1] \in Int /\ p[2] \in Int
      BY ScreenAssumption DEF Pixels
    <3> HIDE DEF c
    <3> QED  BY <1>5, <3>1 DEF Recorded, PixelsOf
  <2>2. PixelsOf(c) \subseteq PixelsOf(r)
    BY <1>5, <1>6, PixelsFit
  <2>3. Recorded(area) \subseteq PixelsOf(rrect)
    BY DEF Recorded
  <2> QED  BY <2>1, <2>2, <2>3
<1> HIDE DEF c, r
<1>9. IInv' /\ ListInTurn' /\ Damaged' = Damaged \cup PixelsOf(r)
  BY <1>1, <1>6, <1>7, JoinsTurn
<1>10. TurnType'
  BY <1>1, <1>7, <1>8 DEF TurnType, PointerRight, PixelsOf, Pixels
<1>11. PointerPixels' = PointerPixels
  BY <1>7 DEF PointerPixels, PixelsOf, Pixels
<1>12. Remembered'
  <2>1. reported \subseteq Damaged /\ drawn \subseteq PointerPixels
    BY <1>1, <1>7 DEF Remembered
  <2>2. reported' \subseteq Damaged' /\ drawn' \subseteq PointerPixels' /\ pc' = "events"
    BY <1>7, <1>8, <1>9, <1>11, <2>1
  <2> QED  BY <2>2 DEF Remembered
<1> QED  BY <1>9, <1>10, <1>12 DEF TurnInv

(* The pointer, when it is on the screen, is a rectangle of the turn.      *)
LEMMA PointerInTurn ==
    ASSUME TurnType, cursor # "none", Placed(mouse_pos_temp)
    PROVE  mouse_pos_temp \in Turn /\ OnScreen(mouse_pos_temp)
<1>1. mouse_pos_temp # Nowhere
  BY DEF Nowhere, Placed, XRectangle
<1> QED  BY <1>1 DEF TurnType, PointerRight, Turn, InTurn

LEMMA OldPlaceInTurn ==
    ASSUME TurnInv, OldPlace
    PROVE  TurnInv'
<1>1. IInv /\ TurnType /\ ListInTurn /\ Remembered
  BY DEF TurnInv
<1>2. /\ pc = "events" /\ pc' = "pointer"
      /\ UNCHANGED <<rrect, cursor, mouse_pos_temp, reported, drawn>>
  BY DEF OldPlace
<1>3. IInv' /\ ListInTurn' /\ Damaged' = Damaged \cup PointerPixels
  <2>1. CASE cursor = "none"
    <3>1. UNCHANGED rectVars
      BY <2>1 DEF OldPlace
    <3>2. Turn' = Turn
      BY <1>2 DEF Turn, InTurn, Sampled
    <3>3. CallIn(Turn)' = CallIn(Turn)
      BY <3>2 DEF CallIn
    <3>4. ListInTurn'
      BY <1>1, <3>1, <3>2, <3>3 DEF ListInTurn, rectVars
    <3> QED  BY <1>1, <2>1, <3>1, <3>4, StandsStill, DamagedStays DEF PointerPixels
  <2>2. CASE cursor # "none"
    <3>1. Insert(mouse_pos_temp)
      BY <2>2 DEF OldPlace
    <3>2. Placed(mouse_pos_temp) => mouse_pos_temp \in Turn /\ OnScreen(mouse_pos_temp)
      BY <1>1, <2>2, PointerInTurn
    <3> QED  BY <1>1, <1>2, <2>2, <3>1, <3>2, PlaceJoinsTurn DEF PointerPixels
  <2> QED  BY <2>1, <2>2
<1>4. TurnType'
  BY <1>1, <1>2 DEF TurnType, PointerRight, PixelsOf, Pixels
<1>5. Remembered'
  <2>1. reported \subseteq Damaged /\ drawn \subseteq PointerPixels
    BY <1>1, <1>2 DEF Remembered
  <2>2. reported' \subseteq Damaged' /\ drawn' \subseteq Damaged' /\ pc' = "pointer"
    BY <1>2, <1>3, <2>1
  <2> QED  BY <2>2 DEF Remembered
<1> QED  BY <1>3, <1>4, <1>5 DEF TurnInv

(* clip_dummy_pointer_area() leaves the pointer inside, or nowhere.        *)
LEMMA ClippedInTurn ==
    ASSUME TurnType, NEW mouse_pos_abs \in Pointers
    PROVE  LET r == ClipPointer(mouse_pos_abs, rrect) IN
           \/ r = Nowhere
           \/ r \in Rectangles /\ OnScreen(r) /\ Fits(r, rrect)
<1>1. rrect \in Rect /\ OnScreen(rrect)
  BY TurnIs
<1>2. mouse_pos_abs \in [x : Int, y : Int, width : Nat, height : Nat]
  BY ScreenAssumption, AreasAssumption DEF Pointers, XRectangle
<1>3. CASE ~Apart(mouse_pos_abs, rrect)
  <2>1. Clip(mouse_pos_abs, rrect) \in Rect /\ Fits(Clip(mouse_pos_abs, rrect), rrect)
    BY <1>1, <1>2, <1>3, PointerClipped
  <2> QED  BY <1>1, <1>3, <2>1, RectanglesAre DEF ClipPointer
<1> QED  BY <1>3 DEF ClipPointer

LEMMA NewPlaceInTurn ==
    ASSUME TurnInv, NEW mouse_pos_abs \in Pointers, NewPlace(mouse_pos_abs)
    PROVE  TurnInv'
<1> DEFINE r == ClipPointer(mouse_pos_abs, rrect)
<1>1. IInv /\ TurnType /\ ListInTurn /\ Remembered
  BY DEF TurnInv
<1>2. /\ pc = "pointer" /\ cursor # "none" /\ pc' = "update" /\ mouse_pos_temp' = r
      /\ Insert(r) /\ UNCHANGED <<rrect, cursor, reported, drawn>>
  BY DEF NewPlace
<1>3. r = Nowhere \/ (r \in Rectangles /\ OnScreen(r) /\ Fits(r, rrect))
  BY <1>1, ClippedInTurn
<1> HIDE DEF r
<1>4. Placed(r) => r \in Turn /\ OnScreen(r)
  <2>1. ~Placed(Nowhere)
    BY DEF Placed, Nowhere, XRectangle
  <2> QED  BY <1>2, <1>3, <2>1 DEF Turn, InTurn
<1>5. /\ IInv' /\ ListInTurn'
      /\ Damaged' = Damaged \cup (IF Placed(r) THEN PixelsOf(r) ELSE {})
  BY <1>1, <1>2, <1>4, PlaceJoinsTurn
<1>6. PointerPixels' = IF Placed(r) THEN PixelsOf(r) ELSE {}
  BY <1>2 DEF PointerPixels, PixelsOf, Pixels
<1>7. PointerRight'
  BY <1>2, <1>3 DEF PointerRight
<1>8. TurnType'
  BY <1>1, <1>2, <1>7 DEF TurnType, PixelsOf, Pixels
<1>9. Remembered'
  <2>1. reported \subseteq Damaged /\ drawn \subseteq Damaged
    BY <1>1, <1>2 DEF Remembered
  <2>2. /\ reported' \subseteq Damaged' /\ drawn' \subseteq Damaged' /\ pc' = "update"
        /\ PointerPixels' \subseteq Damaged'
    BY <1>2, <1>5, <1>6, <2>1
  <2> QED  BY <2>2 DEF Remembered
<1> QED  BY <1>5, <1>8, <1>9 DEF TurnInv

LEMMA TurnStandsStill ==
    ASSUME TurnInv, UNCHANGED <<list, calls, rrect, cursor, mouse_pos_temp, reported, drawn>>,
           pc' = pc \/ (pc = "pointer" /\ pc' = "update" /\ cursor = "none")
    PROVE  TurnInv'
<1>1. IInv /\ TurnType /\ ListInTurn /\ Remembered
  BY DEF TurnInv
<1>2. UNCHANGED rectVars
  BY DEF rectVars
<1>3. Turn' = Turn
  BY DEF Turn, InTurn, Sampled
<1>4. CallIn(Turn)' = CallIn(Turn)
  BY <1>3 DEF CallIn
<1>5. ListInTurn'
  BY <1>1, <1>3, <1>4 DEF ListInTurn
<1>6. IInv' /\ Damaged' = Damaged
  BY <1>1, <1>2, StandsStill, DamagedStays
<1>7. PointerPixels' = PointerPixels
  BY DEF PointerPixels, PixelsOf, Pixels
<1>8. TurnType'
  BY <1>1 DEF TurnType, PointerRight, PixelsOf, Pixels
<1>9. Remembered'
  <2>1. CASE pc' = pc
    BY <1>1, <1>6, <1>7, <2>1 DEF Remembered
  <2>2. CASE pc = "pointer" /\ pc' = "update" /\ cursor = "none"
    <3>1. PointerPixels = {}
      BY <2>2 DEF PointerPixels
    <3>2. reported \subseteq Damaged /\ drawn \subseteq Damaged
      BY <1>1, <2>2 DEF Remembered
    <3> QED  BY <1>6, <1>7, <2>2, <3>1, <3>2 DEF Remembered
  <2> QED  BY <2>1, <2>2
<1> QED  BY <1>5, <1>6, <1>8, <1>9 DEF TurnInv

LEMMA UpdateInTurn ==
    ASSUME TurnInv, UpdateImage
    PROVE  TurnInv'
<1>1. IInv /\ TurnType /\ ListInTurn /\ Remembered
  BY DEF TurnInv
<1>2. /\ pc' = "events" /\ rmdClearList /\ reported' = {} /\ drawn' = PointerPixels
      /\ UNCHANGED <<rrect, cursor, mouse_pos_temp>>
  BY DEF UpdateImage, PointerPixels
<1>3. list' = <<>> /\ calls' = <<>>
  BY <1>2 DEF rmdClearList
<1>4. ListInTurn'
  BY <1>3, EmptySeq DEF ListInTurn
<1>5. IInv'
  BY <1>1, <1>2, ClearKeeps
<1>6. PointerPixels \subseteq PixelsOf(rrect)
  <2>1. CASE cursor # "none" /\ Placed(mouse_pos_temp)
    <3>1. mouse_pos_temp \in Rect /\ Fits(mouse_pos_temp, rrect) /\ rrect \in Rect
      BY <1>1, <2>1, PointerInTurn, TurnIs, RectanglesAre DEF Turn, InTurn
    <3> QED  BY <2>1, <3>1, PixelsFit DEF PointerPixels
  <2> QED  BY <2>1 DEF PointerPixels
<1>7. PointerPixels' = PointerPixels
  BY <1>2 DEF PointerPixels, PixelsOf, Pixels
<1>8. TurnType'
  <2>1. PixelsOf(rrect)' = PixelsOf(rrect) /\ PointerRight'
    BY <1>1, <1>2 DEF PixelsOf, Pixels, TurnType, PointerRight
  <2>2. reported' \subseteq PixelsOf(rrect)' /\ drawn' \subseteq PixelsOf(rrect)'
    BY <1>2, <1>6, <2>1
  <2> QED  BY <1>1, <1>2, <2>1, <2>2 DEF TurnType
<1>9. Remembered'
  BY <1>2, <1>7 DEF Remembered
<1> QED  BY <1>4, <1>5, <1>8, <1>9 DEF TurnInv

LEMMA InsertingInTurn ==
    ASSUME TurnInv, Inserting
    PROVE  TurnInv'
<1>1. IInv /\ TurnType /\ ListInTurn /\ Remembered
  BY DEF TurnInv
<1>2. Step /\ UNCHANGED <<rrect, cursor, pc, mouse_pos_temp, reported, drawn>>
  BY DEF Inserting, turnVars
<1>3. Turn' = Turn
  BY <1>2 DEF Turn, InTurn, Sampled
<1>4. CallIn(Turn)' = CallIn(Turn)
  BY <1>3 DEF CallIn
<1>5. list' \in Seq(Turn) /\ calls' \in Seq(CallIn(Turn))
  <2>1. Turn \in SUBSET Rectangles
    BY DEF Turn
  <2>2. rrect \in Rectangles /\ OnScreen(rrect)
    BY <1>1, TurnIs
  <2>3. list \in Seq(Turn) /\ calls \in Seq(CallIn(Turn))
    BY <1>1 DEF ListInTurn
  <2>4. \A r, s \in Turn : Visible(s) /\ (Visible(r) \/ Thin(r)) =>
            \A i \in DOMAIN Collide(r, s).rects : Collide(r, s).rects[i] \in Turn
    BY <2>2, TurnStays
  <2> QED  BY <1>1, <1>2, <2>1, <2>3, <2>4, StepStaysIn
<1>6. ListInTurn'
  BY <1>3, <1>4, <1>5 DEF ListInTurn
<1>7. IInv' /\ Damaged' = Damaged
  BY <1>1, <1>2, StepKeeps, StepHolds
<1>8. TurnType'
  BY <1>1, <1>2 DEF TurnType, PointerRight, PixelsOf, Pixels
<1>9. PointerPixels' = PointerPixels
  BY <1>2 DEF PointerPixels, PixelsOf, Pixels
<1>10. Remembered'
  BY <1>1, <1>2, <1>7, <1>9 DEF Remembered
<1> QED  BY <1>6, <1>7, <1>8, <1>10 DEF TurnInv

(* The pointer starts inside of what is recorded, or not at all.           *)
LEMMA TurnStarts ==
    ASSUME EventInit, DummyInside
    PROVE  TurnInv
<1>1. Init /\ pc = "events" /\ reported = {} /\ drawn = {}
  BY DEF EventInit
<1>2. PICK set \in Settings : rrect = set.area /\ cursor = set.cursor
  BY DEF EventInit
<1>3. /\ set = [area |-> rrect, cursor |-> cursor]
      /\ rrect \in Rectangles /\ OnScreen(rrect)
  BY <1>2, AreasAssumption
<1>4. list = <<>> /\ calls = <<>>
  BY <1>1 DEF Init
<1>5. IInv
  BY <1>4 DEF IInv, TypeOK, NodesThere, NodesClear, CallsClear, CallsVisible, InnerFirst, ThinNodes
<1>6. ListInTurn
  BY <1>4, EmptySeq DEF ListInTurn
<1>7. PointerRight
  <2>1. CASE cursor = "dummy"
    <3>1. mouse_pos_temp = Corner /\ Fits(Corner, rrect)
      BY <2>1 DEF EventInit, Corner, DummyInside
    <3>2. Corner \in Rect /\ rrect \in Rect
      BY <1>3, AreasAssumption, RectanglesAre DEF Corner, XRectangle, Rect
    <3>3. OnScreen(Corner) /\ Corner \in Rectangles
      BY <1>3, <3>1, <3>2, RectanglesAre
    <3> QED  BY <3>1, <3>3 DEF PointerRight
  <2>2. CASE cursor # "dummy"
    <3>1. mouse_pos_temp = XRectangle(0, 0, 0, 0)
      BY <2>2 DEF EventInit
    <3>2. /\ mouse_pos_temp \in Rect /\ OnScreen(mouse_pos_temp) /\ ~Placed(mouse_pos_temp)
      BY <3>1, ScreenAssumption DEF XRectangle, Rect, OnScreen, Right, Bottom, Placed, Visible
    <3> QED  BY <3>2, RectanglesAre DEF PointerRight
  <2> QED  BY <2>1, <2>2
<1>8. TurnType
  BY <1>1, <1>2, <1>3, <1>7 DEF TurnType
<1>9. Remembered
  BY <1>1 DEF Remembered
<1> QED  BY <1>5, <1>6, <1>8, <1>9 DEF TurnInv

(* EventInv holds at the start and is kept by every step of the turn.      *)
THEOREM TurnInvariant == EventSpec => []EventInv
<1>1. EventInit => EventInv
  BY TurnStarts DEF EventInv
<1>2. EventInv /\ [EventNext]_eventVars => EventInv'
  <2> SUFFICES ASSUME EventInv, [EventNext]_eventVars, DummyInside'
               PROVE  TurnInv'
    BY DEF EventInv
  <2>1. UNCHANGED <<rrect, cursor>>
    BY DEF EventNext, DamageNotify, OldPlace, NewPlace, NoPointer, UpdateImage, Inserting,
           eventVars, turnVars
  <2>2. TurnInv
    BY <2>1 DEF EventInv, DummyInside, Corner
  <2>3. CASE \E area \in Areas : DamageNotify(area)
    BY <2>2, <2>3, NotifyInTurn
  <2>4. CASE OldPlace
    BY <2>2, <2>4, OldPlaceInTurn
  <2>5. CASE \E mouse_pos_abs \in Pointers : NewPlace(mouse_pos_abs)
    BY <2>2, <2>5, NewPlaceInTurn
  <2>6. CASE NoPointer
    BY <2>2, <2>6, TurnStandsStill DEF NoPointer
  <2>7. CASE UpdateImage
    BY <2>2, <2>7, UpdateInTurn
  <2>8. CASE Inserting
    BY <2>2, <2>8, InsertingInTurn
  <2>9. CASE UNCHANGED eventVars
    BY <2>2, <2>9, TurnStandsStill DEF eventVars, turnVars
  <2> QED  BY <2>3, <2>4, <2>5, <2>6, <2>7, <2>8, <2>9 DEF EventNext
<1> QED  BY <1>1, <1>2, PTL DEF EventSpec

-----------------------------------------------------------------------------
(* What the invariant says of the list that an update works off.           *)
LEMMA NodesInTurn ==
    ASSUME TurnInv
    PROVE  \A i \in DOMAIN list : /\ list[i] \in Rect /\ InTurn(list[i])
                                  /\ Visible(list[i]) \/ Thin(list[i])
<1>1. IInv /\ list \in Seq(Turn)
  BY DEF TurnInv, ListInTurn
<1> SUFFICES ASSUME NEW i \in DOMAIN list
             PROVE  /\ list[i] \in Rect /\ InTurn(list[i])
                    /\ Visible(list[i]) \/ Thin(list[i])
  OBVIOUS
<1>2. list[i] \in Turn
  BY <1>1, LenProperties, ElementOfSeq
<1>3. Visible(list[i]) \/ Thin(list[i])
  BY <1>1 DEF IInv, ThinNodes, ThinNode
<1> QED  BY <1>2, <1>3, RectanglesAre DEF Turn

LEMMA FetchedIsDamaged ==
    ASSUME Updating
    PROVE  Fetched = Damaged
<1>1. DOMAIN calls = {}
  BY DEF Updating
<1> QED  BY <1>1 DEF Fetched, Damaged

(* Integer division, as the numbers of the blocks need it.                 *)
LEMMA DivIs ==
    ASSUME NEW n \in Int, NEW u \in Nat \ {0}
    PROVE  n \div u \in Int /\ u * (n \div u) <= n /\ n < u * (n \div u) + u
  OBVIOUS

LEMMA MultiplesGrow ==
    ASSUME NEW p \in Int, NEW q \in Int, NEW u \in Nat \ {0}, u * p < u * (q + 1)
    PROVE  p <= q
<1>1. ASSUME p >= q + 1
      PROVE  FALSE
  <2>1. u * p >= u * (q + 1)
    BY <1>1
  <2> QED  BY <2>1
<1> QED  BY <1>1

LEMMA DivGrows ==
    ASSUME NEW m \in Int, NEW n \in Int, m <= n, NEW u \in Nat \ {0}
    PROVE  m \div u <= n \div u
<1> DEFINE p == m \div u
           q == n \div u
<1>1. p \in Int /\ u * p <= m /\ q \in Int /\ n < u * q + u
  BY DivIs
<1> HIDE DEF p, q
<1>2. u * p < u * (q + 1)
  BY <1>1
<1>3. p <= q
  BY <1>1, <1>2, MultiplesGrow
<1> QED  BY <1>3 DEF p, q

LEMMA DivOfNat ==
    ASSUME NEW n \in Nat, NEW u \in Nat \ {0}
    PROVE  n \div u \in Nat
<1> DEFINE q == n \div u
<1>1. q \in Int /\ n < u * q + u
  BY DivIs
<1> HIDE DEF q
<1>2. u * 0 < u * (q + 1)
  BY <1>1
<1>3. 0 <= q
  BY <1>1, <1>2, MultiplesGrow
<1> QED  BY <1>1, <1>3 DEF q

(* The last pixel's block is the last of those that are counted.           *)
LEMMA LastBlock ==
    ASSUME NEW n \in Nat \ {0}, NEW u \in Nat \ {0}
    PROVE  (n + u - 1) \div u \in Nat /\ (n - 1) \div u <= (n + u - 1) \div u - 1
<1> DEFINE p == (n - 1) \div u
           q == (n + u - 1) \div u
<1>1. p \in Int /\ u * p <= n - 1 /\ q \in Int /\ n + u - 1 < u * q + u
  BY DivIs
<1>2. q \in Nat
  BY DivOfNat
<1> HIDE DEF p, q
<1>3. u * (p + 1) < u * (q + 1)
  BY <1>1
<1>4. p + 1 <= q
  BY <1>1, <1>3, MultiplesGrow
<1> QED  BY <1>1, <1>2, <1>4 DEF p, q

LEMMA BlockNumber ==
    ASSUME NEW w \in Nat, NEW h \in Nat, NEW i \in Int, NEW j \in Int,
           0 <= i, i <= h - 1, 0 <= j, j <= w - 1
    PROVE  i * w + j \in 0 .. w * h - 1
<1>1. i * w >= 0
  OBVIOUS
<1>2. i * w <= (h - 1) * w
  OBVIOUS
<1>3. (h - 1) * w = w * h - w
  OBVIOUS
<1> QED  BY <1>1, <1>2, <1>3

(* The list of an update stays inside of what is recorded, whatever was    *)
(* let through, aligned, broken and grouped; with a dummy pointer that is  *)
(* so when the screen's corner, where that one starts, is recorded.        *)
THEOREM UpdatesInside == EventSpec => [](DummyInside => ListInside)
<1>1. EventInv => (DummyInside => ListInside)
  <2> SUFFICES ASSUME TurnInv
               PROVE  ListInside
    BY DEF EventInv
  <2>1. TypeOK /\ TurnType
    BY DEF TurnInv, IInv
  <2>2. EventTypeOK
    BY <2>1 DEF EventTypeOK, TurnType, PointerRight
  <2>3. InsideRrect
    BY NodesInTurn DEF InsideRrect, InTurn
  <2> QED  BY <2>2, <2>3 DEF ListInside
<1> QED  BY <1>1, TurnInvariant, PTL

(* An update fetches all that was let through since the last one, what the *)
(* pointer was drawn over, and the place it is drawn at next.              *)
THEOREM AllRefetched == EventSpec => [](DummyInside => Refetched)
<1>1. EventInv => (DummyInside => Refetched)
  <2> SUFFICES ASSUME TurnInv, Updating
               PROVE  reported \cup drawn \cup PointerPixels \subseteq Fetched
    BY DEF EventInv, Refetched, PointerPixels
  <2>1. pc = "update" /\ Remembered
    BY DEF Updating, TurnInv
  <2>2. reported \subseteq Damaged /\ drawn \subseteq Damaged /\ PointerPixels \subseteq Damaged
    BY <2>1 DEF Remembered
  <2> QED  BY <2>2, FetchedIsDamaged
<1> QED  BY <1>1, TurnInvariant, PTL

(* The marked blocks are those of the pixels that are fetched, each one    *)
(* within the image, whatever its size.                                    *)
THEOREM BlocksAreMarked == EventSpec => [](DummyInside => BlocksMarked)
<1>1. ASSUME TurnInv
      PROVE  BlocksMarked
  <2> DEFINE U == Y_UNIT_WIDTH
             X(n) == (n - rrect.x) \div U
             Y(n) == (n - rrect.y) \div U
             marked == rmdBlocksFromList({ list[i] : i \in DOMAIN list })
  <2>1. /\ rrect \in Rect /\ Visible(rrect) /\ U \in Nat \ {0}
        /\ rrect.x \in Nat /\ rrect.y \in Nat
        /\ rrect.width \in Nat \ {0} /\ rrect.height \in Nat \ {0}
    BY <1>1, TurnIs, AreasAssumption DEF TurnInv, Visible, Rect
  <2>2. \A b : b \in marked <=> \E k \in DOMAIN list :
            \E i \in Y(list[k].y) .. Y(Bottom(list[k]) - 1),
               j \in X(list[k].x) .. X(Right(list[k]) - 1) : b = i * blocks_w + j
    BY DEF rmdBlocksFromList
  <2>3. \A m, n \in Int : m <= n => X(m) <= X(n) /\ Y(m) <= Y(n)
    <3>1. ASSUME NEW m \in Int, NEW n \in Int, m <= n
          PROVE  X(m) <= X(n) /\ Y(m) <= Y(n)
      <4>1. /\ m - rrect.x \in Int /\ n - rrect.x \in Int /\ m - rrect.x <= n - rrect.x
            /\ m - rrect.y \in Int /\ n - rrect.y \in Int /\ m - rrect.y <= n - rrect.y
        BY <2>1, <3>1
      <4> QED  BY <2>1, <4>1, DivGrows
    <3> QED  BY <3>1
  <2>4. \A n \in Int : X(n) \in Int /\ Y(n) \in Int
    BY <2>1
  <2>5. \A n \in Nat : /\ n >= rrect.x => X(n) \in Nat
                       /\ n >= rrect.y => Y(n) \in Nat
    <3>1. \A n \in Nat : /\ n >= rrect.x => n - rrect.x \in Nat
                         /\ n >= rrect.y => n - rrect.y \in Nat
      BY <2>1
    <3> QED  BY <2>1, <3>1, DivOfNat
  <2>6. /\ blocks_w \in Nat /\ X(Right(rrect) - 1) <= blocks_w - 1
        /\ blocks_h \in Nat /\ Y(Bottom(rrect) - 1) <= blocks_h - 1
    <3>1. /\ (Right(rrect) - 1) - rrect.x = rrect.width - 1
          /\ (Bottom(rrect) - 1) - rrect.y = rrect.height - 1
      BY <2>1 DEF Right, Bottom
    <3> QED  BY <2>1, <3>1, LastBlock DEF blocks_w, blocks_h
  <2>7. \A p : BlockOf(p) = Y(p[2]) * blocks_w + X(p[1])
    BY DEF BlockOf
  <2> HIDE DEF X, Y, marked
  <2>8. ASSUME NEW p \in Fetched
        PROVE  BlockOf(p) \in marked
    <3>1. PICK k \in DOMAIN list : p \in PixelsOf(list[k])
      BY DEF Fetched
    <3> DEFINE r == list[k]
    <3>2. r \in Rect
      BY <1>1, NodesInTurn
    <3>3. /\ p[1] \in Int /\ r.x <= p[1] /\ p[1] <= Right(r) - 1
          /\ p[2] \in Int /\ r.y <= p[2] /\ p[2] <= Bottom(r) - 1
          /\ r.x \in Int /\ r.y \in Int /\ Right(r) - 1 \in Int /\ Bottom(r) - 1 \in Int
      BY <3>1, <3>2, ScreenAssumption DEF PixelsOf, Pixels, Covers, Right, Bottom, Rect
    <3> DEFINE px == p[1]
               py == p[2]
               left == r.x
               right == Right(r) - 1
               top == r.y
               bottom == Bottom(r) - 1
    <3>4. X(px) \in X(left) .. X(right) /\ Y(py) \in Y(top) .. Y(bottom)
      <4>1. /\ px \in Int /\ left \in Int /\ right \in Int /\ left <= px /\ px <= right
            /\ py \in Int /\ top \in Int /\ bottom \in Int /\ top <= py /\ py <= bottom
        BY <3>3
      <4> HIDE DEF px, py, left, right, top, bottom
      <4>2. X(left) <= X(px) /\ X(px) <= X(right) /\ Y(top) <= Y(py) /\ Y(py) <= Y(bottom)
        BY <2>3, <4>1
      <4>3. /\ X(px) \in Int /\ X(left) \in Int /\ X(right) \in Int
            /\ Y(py) \in Int /\ Y(top) \in Int /\ Y(bottom) \in Int
        BY <2>4, <4>1
      <4> QED  BY <4>2, <4>3
    <3> QED  BY <2>2, <2>7, <3>4
  <2>9. ASSUME NEW b \in marked
        PROVE  b \in 0 .. blocks_w * blocks_h - 1
    <3>1. PICK k \in DOMAIN list :
              \E i \in Y(list[k].y) .. Y(Bottom(list[k]) - 1),
                 j \in X(list[k].x) .. X(Right(list[k]) - 1) : b = i * blocks_w + j
      BY <2>2
    <3> DEFINE r == list[k]
    <3>2. PICK i \in Y(r.y) .. Y(Bottom(r) - 1), j \in X(r.x) .. X(Right(r) - 1) :
              b = i * blocks_w + j
      BY <3>1
    <3>3. r \in Rect /\ Fits(r, rrect)
      BY <1>1, NodesInTurn DEF InTurn
    <3> HIDE DEF r
    <3>4. /\ r.x \in Nat /\ rrect.x <= r.x /\ r.y \in Nat /\ rrect.y <= r.y
          /\ Right(r) - 1 \in Int /\ Right(rrect) - 1 \in Int /\ Right(r) - 1 <= Right(rrect) - 1
          /\ Bottom(r) - 1 \in Int /\ Bottom(rrect) - 1 \in Int /\ Bottom(r) - 1 <= Bottom(rrect) - 1
      BY <2>1, <3>3 DEF Fits, Right, Bottom, Rect
    <3>5. /\ X(r.x) \in Nat /\ Y(r.y) \in Nat
          /\ X(Right(r) - 1) <= X(Right(rrect) - 1) /\ Y(Bottom(r) - 1) <= Y(Bottom(rrect) - 1)
      BY <2>3, <2>5, <3>4
    <3>6. /\ X(Right(r) - 1) \in Int /\ X(Right(rrect) - 1) \in Int
          /\ Y(Bottom(r) - 1) \in Int /\ Y(Bottom(rrect) - 1) \in Int
      BY <2>4, <3>4
    <3>7. /\ i \in Int /\ 0 <= i /\ i <= blocks_h - 1
          /\ j \in Int /\ 0 <= j /\ j <= blocks_w - 1
      BY <2>6, <3>2, <3>5, <3>6
    <3> QED  BY <2>6, <3>2, <3>7, BlockNumber
  <2> QED  BY <2>8, <2>9 DEF BlocksMarked, marked
<1>2. EventInv => (DummyInside => BlocksMarked)
  BY <1>1 DEF EventInv
<1> QED  BY <1>2, TurnInvariant, PTL

(* Without a pointer the list is made of whole chroma samples.             *)
THEOREM SamplesStayWhole == EventSpec => []ChromaWhole
<1>1. EventInv => ChromaWhole
  <2> SUFFICES ASSUME EventInv, Updating, cursor = "none", NEW i \in DOMAIN list
               PROVE  /\ WholeSamples(list[i].x - rrect.x, list[i].width, rrect.width)
                      /\ WholeSamples(list[i].y - rrect.y, list[i].height, rrect.height)
    BY DEF ChromaWhole
  <2>1. TurnInv
    BY DEF EventInv, DummyInside
  <2>2. list[i] \in Rect /\ Sampled(list[i]) /\ rrect \in Rect
    BY <2>1, NodesInTurn, TurnIs DEF InTurn, TurnInv
  <2> QED  BY <2>2 DEF Sampled, SampledSide, WholeSamples, Odd, Right, Bottom, Rect
<1> QED  BY <1>1, TurnInvariant, PTL

=============================================================================
