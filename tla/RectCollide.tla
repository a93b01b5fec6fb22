---------------------------- MODULE RectCollide ----------------------------
(***************************************************************************)
(* rmdCollideRects(): how a rectangle of the damage list and one about to  *)
(* join it meet, and what to keep of them so that they no longer overlap.  *)
(* A rectangle is an XRectangle: its corner and the pixels it spans, none  *)
(* when one of them is zero.                                               *)
(***************************************************************************)
EXTENDS Integers

XRectangle(x, y, width, height) == [x |-> x, y |-> y, width |-> width, height |-> height]

Right(r)  == r.x + r.width
Bottom(r) == r.y + r.height
Visible(r) == r.width > 0 /\ r.height > 0

Covers(r, px, py) == r.x <= px /\ px < Right(r) /\ r.y <= py /\ py < Bottom(r)

Fits(r, s) == r.x >= s.x /\ Right(r) <= Right(s) /\ r.y >= s.y /\ Bottom(r) <= Bottom(s)
Apart(r, s) == \/ Right(r) < s.x \/ Right(s) < r.x
               \/ Bottom(r) < s.y \/ Bottom(s) < r.y

(* The corners 0 1                                                         *)
(*             2 3  of r that are enclosed in s, borders included.         *)
InX(px, s) == s.x <= px /\ px <= Right(s)
InY(py, s) == s.y <= py /\ py <= Bottom(s)
Corner0(r, s) == InX(r.x, s) /\ InY(r.y, s)
Corner1(r, s) == InX(Right(r), s) /\ InY(r.y, s)
Corner2(r, s) == InX(r.x, s) /\ InY(Bottom(r), s)
Corner3(r, s) == InX(Right(r), s) /\ InY(Bottom(r), s)

One(enclosed) == IF enclosed THEN 1 ELSE 0
Enclosed(r, s) == One(Corner0(r, s)) + One(Corner1(r, s))
                    + One(Corner2(r, s)) + One(Corner3(r, s))

(* The edges of r, as the pairs of corners the code tests.                 *)
TopIn(r, s)    == Corner0(r, s) /\ Corner1(r, s)
LeftIn(r, s)   == Corner0(r, s) /\ Corner2(r, s)
RightIn(r, s)  == Corner3(r, s) /\ Corner1(r, s)
BottomIn(r, s) == Corner3(r, s) /\ Corner2(r, s)
-----------------------------------------------------------------------------
(* Deviation: the part below reaches into the other rectangle.             *)
BelowOverlapping(r, s) == [r EXCEPT !.y = Bottom(s) - 1, !.height = Bottom(r) - Bottom(s) + 1]

(* The parts of r on each side of s.                                       *)
Above(r, s)   == [r EXCEPT !.height = s.y - r.y]
Below(r, s)   == [r EXCEPT !.y = Bottom(s), !.height = Bottom(r) - Bottom(s)]
LeftOf(r, s)  == [r EXCEPT !.width = s.x - r.x]
RightOf(r, s) == [r EXCEPT !.x = Right(s), !.width = Right(r) - Right(s)]

(* What is left of r when the edge that is enclosed in s is taken off.     *)
BreakOff(r, s) ==
    IF TopIn(r, s) THEN Below(r, s)
    ELSE IF LeftIn(r, s) THEN RightOf(r, s)
    ELSE IF RightIn(r, s) THEN LeftOf(r, s)
    ELSE IF BottomIn(r, s) THEN Above(r, s)
    ELSE r

(* r without the corner that is enclosed in s: the columns beside s, and   *)
(* of the columns they share the part above or below it.                   *)
SharedColumns(r, s) ==
    IF Corner0(r, s) \/ Corner2(r, s) THEN [r EXCEPT !.width = Right(s) - r.x]
                                       ELSE [r EXCEPT !.x = s.x, !.width = Right(r) - s.x]
BreakCorner(r, s) ==
    IF Corner0(r, s) THEN <<RightOf(r, s), Below(SharedColumns(r, s), s)>>
    ELSE IF Corner1(r, s) THEN <<LeftOf(r, s), Below(SharedColumns(r, s), s)>>
    ELSE IF Corner2(r, s) THEN <<RightOf(r, s), Above(SharedColumns(r, s), s)>>
    ELSE <<LeftOf(r, s), Above(SharedColumns(r, s), s)>>

(* r crosses s: what sticks out on both sides.                             *)
BreakCross(r, s) == IF r.y < s.y THEN <<Above(r, s), Below(r, s)>>
                                 ELSE <<LeftOf(r, s), RightOf(r, s)>>

(* Two that meet along an edge of the same length make one, s the last.    *)
Stacked(r, s)  == XRectangle(r.x, r.y, r.width, Bottom(s) - r.y)
Adjacent(r, s) == XRectangle(r.x, r.y, Right(s) - r.x, r.height)

Groupable(r, s) ==
    /\ Enclosed(r, s) = 2 /\ Enclosed(s, r) = 2
    /\ \/ (TopIn(s, r) \/ BottomIn(s, r)) /\ r.width = s.width
       \/ (LeftIn(s, r) \/ RightIn(s, r)) /\ r.height = s.height
Group(r, s) ==
    IF TopIn(s, r) /\ r.width = s.width THEN Stacked(r, s)
    ELSE IF LeftIn(s, r) /\ r.height = s.height THEN Adjacent(r, s)
    ELSE IF RightIn(s, r) /\ r.height = s.height THEN Adjacent(s, r)
    ELSE Stacked(s, r)

(* The code's results: 0, 1, 2, -1, -2 and -10, with what it returns.      *)
Outcome(result, rects) == [result |-> result, rects |-> rects]

Collide(xrect1, xrect2) ==
    IF Fits(xrect1, xrect2) THEN Outcome("covered", <<>>)
    ELSE IF Fits(xrect2, xrect1) THEN Outcome("covers", <<>>)
    ELSE IF Apart(xrect1, xrect2) THEN Outcome("apart", <<>>)
    ELSE IF Groupable(xrect1, xrect2)
         THEN Outcome("grouped", <<Group(xrect1, xrect2)>>)
    ELSE IF Enclosed(xrect2, xrect1) = 2
         THEN Outcome("newBroken", <<BreakOff(xrect2, xrect1)>>)
    ELSE IF Enclosed(xrect1, xrect2) = 2
         THEN Outcome("oldBroken", <<BreakOff(xrect1, xrect2)>>)
    ELSE IF Enclosed(xrect2, xrect1) = 1
         THEN Outcome("newBroken", BreakCorner(xrect2, xrect1))
    ELSE Outcome("newBroken", BreakCross(xrect2, xrect1))
=============================================================================
