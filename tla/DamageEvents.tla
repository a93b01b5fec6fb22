---------------------------- MODULE DamageEvents ----------------------------
(***************************************************************************)
(* A turn of rmdGetFrames with XDamage: rmdEventLoop() clips and aligns    *)
(* the areas the server reports and inserts them in the damage list, the   *)
(* old and the new place of the pointer join them, rmdUpdateImage()        *)
(* fetches what the list holds and marks its cache blocks, the pointer is  *)
(* drawn over it and the list is cleared.                                  *)
(***************************************************************************)
EXTENDS RectInsert, FiniteSets

CONSTANTS
    Settings,       \* what rmdSetBRWindow() may have set up to record, with
                    \* a pointer: none, xfixes or dummy
    CursorSize,     \* bound: width and height of the X cursor's image
    dummy_p_size,   \* width and height of the dummy pointer
    Y_UNIT_WIDTH    \* width and height of a cache block

ASSUME AreasAssumption ==
    /\ Settings \subseteq [area : Rectangles, cursor : {"none", "xfixes", "dummy"}]
    /\ \A set \in Settings : Visible(set.area) /\ OnScreen(set.area)
    /\ CursorSize \in Nat \ {0}
    /\ dummy_p_size \in Nat \ {0} /\ Y_UNIT_WIDTH \in Nat \ {0}

VARIABLES
    rrect,          \* pdata->brwin.rrect
    cursor,         \* args.xfixes_cursor, args.have_dummy_cursor
    pc,             \* events, pointer, update
    mouse_pos_temp, \* the pointer, cut to what is recorded
    \* history
    reported,       \* pixels of the areas let through in this turn
    drawn           \* pixels of the frame the pointer was drawn over

turnVars == <<rrect, cursor, pc, mouse_pos_temp, reported, drawn>>
eventVars == <<list, calls, turnVars>>

Minimum(a, b) == IF a < b THEN a ELSE b
Maximum(a, b) == IF a > b THEN a ELSE b

(* The pixels of an area, which may leave the screen, that are recorded.   *)
Recorded(area) == { p \in PixelsOf(rrect) : Covers(area, p[1], p[2]) }
-----------------------------------------------------------------------------
(* Deviation: an area is cut to the recorded one on the left and top only. *)
ClipOpen(area, clip) ==
    XRectangle(Maximum(area.x, clip.x), Maximum(area.y, clip.y),
               Right(area) - Maximum(area.x, clip.x), Bottom(area) - Maximum(area.y, clip.y))

(* What two areas share, when they do.                                     *)
Clip(area, clip) ==
    LET x == Maximum(area.x, clip.x)
        y == Maximum(area.y, clip.y)
    IN  XRectangle(x, y, Minimum(Right(area), Right(clip)) - x,
                         Minimum(Bottom(area), Bottom(clip)) - y)

(* clip_event_area(): an area that covers all is let through as cliprect;  *)
(* of the others, one whose right or bottom border lies outside is not.    *)
LetThrough(area, cliprect) ==
    \/ Fits(cliprect, area)
    \/ /\ cliprect.x <= Right(area) /\ Right(area) <= Right(cliprect)
       /\ cliprect.y <= Bottom(area) /\ Bottom(area) <= Bottom(cliprect)
       /\ Clip(area, cliprect).width # 0 /\ Clip(area, cliprect).height # 0

(* clip_dummy_pointer_area(): no overlap at all puts the pointer at -1.    *)
Nowhere == XRectangle(-1, -1, 0, 0)
ClipPointer(area, clip) == IF Apart(area, clip) THEN Nowhere ELSE Clip(area, clip)
Placed(r) == r.x >= 0 /\ r.y >= 0 /\ Visible(r)

(* uv_align(): the U and V planes hold a value for 2x2 pixels, so a side   *)
(* starts at an even distance and, if the area allows, has an even length. *)
Odd(n) == n % 2 = 1

(* Deviation: a side grows on the left only.                               *)
GrownLeft(from, length, limit) == IF Odd(from) THEN length + 1 ELSE length

Grown(from, length, limit) ==
    LET aligned == IF Odd(from) THEN length + 1 ELSE length
        start   == IF Odd(from) THEN from - 1 ELSE from
    IN  IF Odd(aligned) /\ start + aligned < limit THEN aligned + 1 ELSE aligned

uv_align(cliprect, r) ==
    LET x == r.x - cliprect.x
        y == r.y - cliprect.y
    IN  XRectangle(r.x - (x % 2), r.y - (y % 2),
                   Grown(x, r.width, cliprect.width), Grown(y, r.height, cliprect.height))

(* Deviation: a rectangle reaches up to the pixel beyond its border.       *)
BlocksFromLongList(rects) ==
    LET w == (rrect.width + Y_UNIT_WIDTH - 1) \div Y_UNIT_WIDTH
    IN  UNION { { i * w + j : i \in (r.y - rrect.y) \div Y_UNIT_WIDTH
                                       .. (Bottom(r) - rrect.y) \div Y_UNIT_WIDTH,
                              j \in (r.x - rrect.x) \div Y_UNIT_WIDTH
                                       .. (Right(r) - rrect.x) \div Y_UNIT_WIDTH } : r \in rects }

(* The numbers of the cache blocks that some rectangles reach.             *)
blocks_w == (rrect.width + Y_UNIT_WIDTH - 1) \div Y_UNIT_WIDTH
blocks_h == (rrect.height + Y_UNIT_WIDTH - 1) \div Y_UNIT_WIDTH
rmdBlocksFromList(rects) ==
    UNION { { i * blocks_w + j : i \in (r.y - rrect.y) \div Y_UNIT_WIDTH
                                         .. (Bottom(r) - 1 - rrect.y) \div Y_UNIT_WIDTH,
                                 j \in (r.x - rrect.x) \div Y_UNIT_WIDTH
                                         .. (Right(r) - 1 - rrect.x) \div Y_UNIT_WIDTH } : r \in rects }
-----------------------------------------------------------------------------
(* The dummy pointer starts at the screen's corner, wherever is recorded.  *)
EventInit ==
    /\ Init
    /\ \E set \in Settings : rrect = set.area /\ cursor = set.cursor
    /\ pc = "events"
    /\ mouse_pos_temp = LET size == IF cursor = "dummy" THEN dummy_p_size ELSE 0
                        IN  XRectangle(0, 0, size, size)
    /\ reported = {} /\ drawn = {}

(* An XDamageNotify.  Windows, and so their areas, may leave the screen.   *)
Areas == { XRectangle(x, y, w, h) : x \in -1..Width, y \in -1..Height,
                                    w \in 1..Width+1, h \in 1..Height+1 }
DamageNotify(area) ==
    /\ pc = "events"
    /\ LetThrough(area, rrect)
    /\ rmdRectInsert(uv_align(rrect, Clip(area, rrect)))
    /\ reported' = reported \cup Recorded(area)
    /\ UNCHANGED <<rrect, cursor, pc, mouse_pos_temp, drawn>>

(* The pointer goes on the list where it was and where it is now.          *)
Insert(xrect) == IF Placed(xrect) THEN rmdRectInsert(xrect) ELSE calls = <<>> /\ UNCHANGED rectVars

OldPlace ==
    /\ pc = "events" /\ pc' = "pointer"
    /\ IF cursor = "none" THEN calls = <<>> /\ UNCHANGED rectVars ELSE Insert(mouse_pos_temp)
    /\ UNCHANGED <<rrect, cursor, mouse_pos_temp, reported, drawn>>

(* Deviation: the pointer is inserted where it was once more.              *)
NewPlaceStale(mouse_pos_abs) ==
    /\ pc = "pointer" /\ cursor # "none" /\ pc' = "update"
    /\ mouse_pos_temp' = ClipPointer(mouse_pos_abs, rrect)
    /\ Insert(mouse_pos_temp)
    /\ UNCHANGED <<rrect, cursor, reported, drawn>>

NewPlace(mouse_pos_abs) ==
    /\ pc = "pointer" /\ cursor # "none" /\ pc' = "update"
    /\ mouse_pos_temp' = ClipPointer(mouse_pos_abs, rrect)
    /\ Insert(mouse_pos_temp')
    /\ UNCHANGED <<rrect, cursor, reported, drawn>>

NoPointer ==
    /\ pc = "pointer" /\ cursor = "none" /\ pc' = "update"
    /\ calls = <<>>
    /\ UNCHANGED <<list, calls, rrect, cursor, mouse_pos_temp, reported, drawn>>

(* XFixes tells the cursor's place and size.  XQueryPointer() is given the *)
(* address of the 16 bit x and y for its ints, and so may leave a zero in  *)
(* the width that follows them.                                            *)
Pointers ==
    IF cursor = "xfixes"
    THEN { XRectangle(x, y, CursorSize, CursorSize) : x \in -1..Width-1, y \in -1..Height-1 }
    ELSE { XRectangle(x, y, w, dummy_p_size) : x \in 0..Width-1, y \in 0..Height-1,
                                               w \in {0, dummy_p_size} }

(* rmdUpdateImage(), whose assertions stop the program when something on   *)
(* the list is outside of what is recorded, and the rest of the turn.      *)
UpdateImage ==
    /\ pc = "update" /\ pc' = "events"
    /\ \A i \in DOMAIN list : Fits(list[i], rrect)
    /\ drawn' = IF cursor # "none" /\ Placed(mouse_pos_temp) THEN PixelsOf(mouse_pos_temp) ELSE {}
    /\ rmdClearList
    /\ reported' = {}
    /\ UNCHANGED <<rrect, cursor, mouse_pos_temp>>

Inserting == Step /\ UNCHANGED turnVars

EventNext ==
    \/ \E area \in Areas : DamageNotify(area)
    \/ OldPlace
    \/ \E mouse_pos_abs \in Pointers : NewPlace(mouse_pos_abs)
    \/ NoPointer
    \/ UpdateImage
    \/ Inserting
EventSpec == EventInit /\ [][EventNext]_eventVars
-----------------------------------------------------------------------------
EventTypeOK ==
    /\ TypeOK
    /\ [area |-> rrect, cursor |-> cursor] \in Settings
    /\ pc \in {"events", "pointer", "update"}
    /\ mouse_pos_temp = Nowhere \/ (mouse_pos_temp \in Rectangles /\ OnScreen(mouse_pos_temp))
    /\ reported \subseteq PixelsOf(rrect)
    /\ drawn \subseteq PixelsOf(rrect)

Updating == pc = "update" /\ calls = <<>>
Fetched == UNION { PixelsOf(list[i]) : i \in DOMAIN list }

(* rmd_update_image.c:56 "nothing on the reclist should go outside rrect": *)
(* the alignment, which makes areas larger, stays inside as well.          *)
InsideRrect == Updating => \A i \in DOMAIN list : Fits(list[i], rrect)

(* The list an update works off, and the turn that made it.                *)
ListInside == EventTypeOK /\ InsideRrect

(* What an update fetches anew has all that changed: the areas let through *)
(* and what the pointer was drawn over in the last frame, lest it leaves a *)
(* trail; and the place it is drawn at next, whose blocks get marked.      *)
Refetched == Updating => reported \cup drawn \cup
    (IF cursor # "none" /\ Placed(mouse_pos_temp) THEN PixelsOf(mouse_pos_temp) ELSE {}) \subseteq Fetched

(* The blocks marked for the cache are those of the pixels fetched, each   *)
(* one within the image.                                                   *)
BlockOf(p) == ((p[2] - rrect.y) \div Y_UNIT_WIDTH) * blocks_w + (p[1] - rrect.x) \div Y_UNIT_WIDTH
BlocksMarked ==
    Updating => LET marked == rmdBlocksFromList({ list[i] : i \in DOMAIN list }) IN
                /\ { BlockOf(p) : p \in Fetched } \subseteq marked
                /\ marked \subseteq 0 .. blocks_w * blocks_h - 1

(* rmd_poll_events.c:97 "to even boundaries relative to cliprect": as long *)
(* as there is no pointer, all the list is made of whole chroma samples,   *)
(* but for an odd last row or column, whatever was broken and grouped.     *)
WholeSamples(at, length, limit) == ~Odd(at) /\ (~Odd(length) \/ at + length = limit)
ChromaWhole ==
    Updating /\ cursor = "none" =>
        \A i \in DOMAIN list :
            /\ WholeSamples(list[i].x - rrect.x, list[i].width, rrect.width)
            /\ WholeSamples(list[i].y - rrect.y, list[i].height, rrect.height)
=============================================================================
