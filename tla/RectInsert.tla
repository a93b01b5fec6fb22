----------------------------- MODULE RectInsert -----------------------------
(***************************************************************************)
(* The damage list of rmdGetFrames: rmdRectInsert() adds a rectangle while *)
(* keeping the list free of overlaps, rmdClearList() empties it.           *)
(*                                                                         *)
(* rmdRectInsert() walks the list from a node to its end and calls itself  *)
(* on what is left of a rectangle.  A call is an entry of calls: the       *)
(* rectangle it inserts and the position of the node it has reached; an    *)
(* iteration of its loop is a step.  Calls are the last thing their caller *)
(* does, but for the two parts of a broken rectangle: both are inserted    *)
(* from the same node, one after the other.                                *)
(***************************************************************************)
EXTENDS RectCollide, Sequences, SequencesExt

CONSTANTS Width, Height   \* the screen
ASSUME ScreenAssumption == Width \in Nat /\ Height \in Nat

Rectangles == { XRectangle(x, y, w, h) : x \in 0..Width, y \in 0..Height,
                                         w \in 0..Width, h \in 0..Height }
OnScreen(r) == Right(r) <= Width /\ Bottom(r) <= Height

VARIABLES list,   \* pdata->rect_root: the rectangles, in order
          calls   \* rmdRectInsert()'s calls under way, innermost first
rectVars == <<list, calls>>

Call(node, xrect) == [node |-> node, xrect |-> xrect]
Init == list = <<>> /\ calls = <<>>

(* A call that ends hands over to the next; parts of no size are skipped.  *)
Return == calls' = Tail(calls)
Inserted(node, xrect) == IF Visible(xrect) THEN <<Call(node, xrect)>> ELSE <<>>
Reenter(node, xrect)  == calls' = Inserted(node, xrect) \o Tail(calls)

(* The node the innermost call has reached, and how its rectangle meets it.*)
Node  == Head(calls).node
Xrect == Head(calls).xrect
Meeting == Collide(list[Node], Xrect)
AtLast == Node = Len(list)
Walking(result) == calls # <<>> /\ list # <<>> /\ Meeting.result = result
-----------------------------------------------------------------------------
(* The call from outside.                                                  *)
rmdRectInsert(xrect) ==
    /\ calls = <<>>
    /\ calls' = <<Call(1, xrect)>>
    /\ UNCHANGED list

rmdClearList ==
    /\ calls = <<>>
    /\ list' = <<>>
    /\ UNCHANGED calls

First ==
    /\ calls # <<>> /\ list = <<>>
    /\ list' = <<Xrect>>
    /\ Return

(* 0: go on to the next node, or join the list behind the last one.        *)
NoCollision ==
    /\ Walking("apart")
    /\ IF AtLast
       THEN list' = Append(list, Xrect) /\ Return
       ELSE calls' = [calls EXCEPT ![1].node = @ + 1] /\ UNCHANGED list

(* 1: the node goes, the new one goes on from there or takes its place.    *)
OldCovered ==
    /\ Walking("covered")
    /\ IF AtLast
       THEN /\ list' = IF Node = 1 /\ ~Visible(Xrect) THEN <<>>
                       ELSE [list EXCEPT ![Node] = Xrect]
            /\ Return
       ELSE list' = RemoveAt(list, Node) /\ Reenter(Node, Xrect)

(* 2: already covered.                                                     *)
NewCovered ==
    /\ Walking("covers")
    /\ UNCHANGED list
    /\ Return

(* -1: the node keeps what is left of it ...                               *)
OldBroken ==
    LET rest == Meeting.rects[1] IN
    /\ Walking("oldBroken") /\ Visible(rest)
    /\ IF AtLast
       THEN list' = Append([list EXCEPT ![Node] = rest], Xrect) /\ Return
       ELSE /\ list' = [list EXCEPT ![Node] = rest]
            /\ calls' = [calls EXCEPT ![1].node = @ + 1]

(* ... or, with nothing left, goes.  A first node that is not the last one *)
(* takes the new rectangle with it.                                        *)
ForgetsNew == Walking("oldBroken") /\ ~Visible(Meeting.rects[1]) /\ Node = 1 /\ ~AtLast
OldBrokenAway ==
    /\ Walking("oldBroken") /\ ~Visible(Meeting.rects[1])
    /\ IF AtLast THEN list' = [list EXCEPT ![Node] = Xrect] /\ Return
       ELSE /\ list' = RemoveAt(list, Node)
            /\ IF Node = 1 THEN Return ELSE Reenter(Node, Xrect)

(* Deviation: only the first part of a broken rectangle is inserted.       *)
NewBrokenOnce ==
    /\ Walking("newBroken")
    /\ IF AtLast THEN list' = list \o Meeting.rects /\ Return
       ELSE UNCHANGED list /\ Reenter(Node + 1, Meeting.rects[1])

(* Deviation: the parts go on from the node the rectangle was broken at.   *)
NewBrokenAgain ==
    /\ Walking("newBroken")
    /\ UNCHANGED list
    /\ calls' = [i \in DOMAIN Meeting.rects |-> Call(Node, Meeting.rects[i])] \o Tail(calls)

(* -2: the parts of the new one end the list, whatever their size, or go   *)
(* on from the next node.                                                  *)
NewBroken ==
    /\ Walking("newBroken")
    /\ IF AtLast
       THEN list' = list \o Meeting.rects /\ Return
       ELSE /\ UNCHANGED list
            /\ LET parts == Meeting.rects
                   other == IF Len(parts) = 2 THEN Inserted(Node + 1, parts[2]) ELSE <<>>
               IN  calls' = Inserted(Node + 1, parts[1]) \o other \o Tail(calls)

(* -10: the group takes the last node's place, or goes on after a removal. *)
Grouped ==
    LET group == Meeting.rects[1] IN
    /\ Walking("grouped")
    /\ IF AtLast THEN list' = [list EXCEPT ![Node] = group] /\ Return
       ELSE list' = RemoveAt(list, Node) /\ Reenter(Node, group)

Step == \/ First \/ NoCollision \/ OldCovered \/ NewCovered
        \/ OldBroken \/ OldBrokenAway \/ NewBroken \/ Grouped
Insertions == \E r \in Rectangles : Visible(r) /\ OnScreen(r) /\ rmdRectInsert(r)

Next == Insertions \/ rmdClearList \/ Step
Spec == Init /\ [][Next]_rectVars
FairSpec == Spec /\ WF_rectVars(Step)
-----------------------------------------------------------------------------
(* No coordinate leaves the screen, none of the unsigned widths wraps.     *)
TypeOK ==
    /\ list \in Seq(Rectangles) /\ calls \in Seq([node : Nat \ {0}, xrect : Rectangles])
    /\ \A i \in DOMAIN list : OnScreen(list[i])
    /\ \A i \in DOMAIN calls : OnScreen(calls[i].xrect)

Pixels == (0..Width-1) \X (0..Height-1)
PixelsOf(r) == { p \in Pixels : Covers(r, p[1], p[2]) }

(* No pixel is fetched twice: the list never holds two that overlap.       *)
Disjoint == \A i, j \in DOMAIN list :
                i # j => PixelsOf(list[i]) \cap PixelsOf(list[j]) = {}

(* rmd_rectinsert.c:361 "it might happen that the old and now broken node  *)
(* is of zero width or height": then the new one is not forgotten with it, *)
(* since such a node is never the first of several when it is broken.      *)
NothingForgotten == ~ForgetsNew

(* A call that waits for another's end still finds its node in the list,   *)
(* and never an emptied list it would take for a new one.                  *)
NodesThere == \A i \in DOMAIN calls : calls[i].node <= Len(list) \/ (list = <<>> /\ Len(calls) = 1)

(* The list, between any two iterations of an insertion's loop.            *)
ListRight == TypeOK /\ Disjoint /\ NothingForgotten /\ NodesThere

(* test-rectinsert.c:144 compares the list with the expected state after   *)
(* each insertion: the pixels in the list and in the calls under way are   *)
(* those inserted, no more and no less.  A call of rmdRectInsert adds those*)
(* of the rectangle it is given, no iteration of an insertion adds or loses*)
(* one, and only rmdClearList, which no insertion meets, forgets them.     *)
Damaged == UNION ({ PixelsOf(list[i]) : i \in DOMAIN list }
                  \cup { PixelsOf(calls[i].xrect) : i \in DOMAIN calls })
Shapes == { PixelsOf(r) : r \in { r \in Rectangles : Visible(r) /\ OnScreen(r) } }
D == INSTANCE Damage WITH damaged <- Damaged, busy <- calls # <<>>

AddsItsOwn == \A r \in Rectangles : rmdRectInsert(r) => D!Insert(PixelsOf(r))
ForgetsAll == rmdClearList => D!Forget
ImplementsDamage == D!DamageSpec /\ [][AddsItsOwn /\ ForgetsAll]_rectVars

(* rmd_rectinsert.c:90 "to avoid endless recursion": every call ends.      *)
InsertReturns == calls # <<>> ~> calls = <<>>
=============================================================================
