------------------------------- MODULE Picture -------------------------------
(***************************************************************************)
(* The picture itself: what rmdGetFrames copies from the screen to the yuv *)
(* buffer, with XDamage or by comparing two full shots, the pointer it     *)
(* draws over it, the cache blocks it marks, what rmdCacheImageBuffer      *)
(* writes of them and the picture rmdLoadCache puts together again.        *)
(*                                                                         *)
(* The picture is one row of pixels, as all rows are treated alike, with a *)
(* chroma sample (U and V are alike) for each two pixels.  A colour is a   *)
(* number; blending the pointer into a value adds Shade to it, twice at    *)
(* most, so a value tells what lies below and if the pointer was drawn.    *)
(* With XDamage the luma plane alone is modelled: which samples a list     *)
(* updates depends on how rmdRectInsert broke its rectangles, and is in    *)
(* DamageEvents.                                                           *)
(***************************************************************************)
EXTENDS Integers

CONSTANTS
    Settings,       \* the options a recording may have
    ScreenWidth,    \* specs.width
    Width,          \* rrect.width
    CursorWidth,    \* width of the X cursor's image
    xhot,           \* its hot spot
    Y_UNIT_WIDTH,   \* width of a cache block, in pixels
    Colours,        \* what a pixel of the screen may show
    Shade,          \* what the pointer adds
    FirstScreens,   \* bound: what the screen may show at the start
    MaxPaints,      \* bound: changes of the screen after that
    PointerAt       \* bound: where on the screen the pointer may be

Pixels == 0 .. Width - 1
Samples == 0 .. Width \div 2 - 1

(* A mark adds one to a pixel of a shot, twice if the pointer stays: the   *)
(* colours are such that it is not taken for a change of the screen.       *)
ASSUME PictureAssumption ==
    /\ Width \in Nat \ {0} /\ Width % 2 = 0 /\ ScreenWidth \in Nat /\ ScreenWidth >= Width
    /\ CursorWidth \in Nat \ {0} /\ xhot \in 0..CursorWidth-1
    /\ Y_UNIT_WIDTH \in Nat \ {0} /\ Y_UNIT_WIDTH % 2 = 0
    /\ Colours \subseteq Nat /\ \A a, b \in Colours : a < b => a + 2 < b
    /\ FirstScreens \subseteq [0..ScreenWidth-1 -> Colours]
    /\ PointerAt \subseteq 0..ScreenWidth-1 /\ MaxPaints \in Nat
    /\ Shade \in Nat /\ \A a, b \in Colours : a + b + 4 < Shade
    /\ Settings \subseteq [full_shots : BOOLEAN, follow_mouse : BOOLEAN, cursor : {"none", "xfixes"},
                           noshared : BOOLEAN, no_quick_subsample : BOOLEAN]
    /\ \A set \in Settings : set.follow_mouse => set.full_shots

VARIABLES
    args,       \* pdata->args
    screen,     \* what each pixel of the screen shows
    changed,    \* pixels of the screen that changed since the grabber looked
    paints,     \* number of changes so far
    pc,         \* the grabber: events, pointer, fetch, update, draw, advance
    brwin,      \* pdata->brwin.rrect.x
    temp_brwin, \* temp_brwin.rrect.x, the area of this turn
    list,       \* pixels of the damage list, relative to the area
    mouse,      \* mouse_pos_temp, relative to the area, and its mouse_xoffset
    undrawn,    \* pixels of the pointer not drawn yet
    shots,      \* image.ximage->data and image_back.ximage->data
    img_sel,
    yuv,        \* the planes: luma and chroma
    blocks,     \* yblocks and ublocks: the blocks marked
    ready,      \* capture_frameno is ahead of the cacher's
    firstrun,
    loaded      \* the planes as the frames cached so far give them back

grabVars == <<pc, brwin, temp_brwin, list, mouse, undrawn, shots, img_sel>>
cacheVars == <<ready, firstrun, loaded>>
screenVars == <<screen, changed, paints>>
vars == <<args, screenVars, grabVars, yuv, blocks, cacheVars>>

Odd(n) == n % 2 = 1
Shot(x) == [p \in Pixels |-> screen[x + p]]

(* UPDATE_A_UV_PIXEL: the sum stands for the average of the pixels.        *)
Sample(row, c) == IF args.no_quick_subsample THEN row[2*c] + row[2*c + 1] ELSE row[2*c]
Planes(row) == [y |-> row, u |-> [c \in Samples |-> Sample(row, c)]]

Blend(value) == IF value < 2 * Shade THEN value + Shade ELSE value

Nowhere == [x |-> 0, width |-> 0, offset |-> 0]
PlaceOf(m) == m.x .. m.x + m.width - 1
(* rmdXFixesPointerToYuv(): a sample where the cursor's column is odd.     *)
SamplesOf(m) == { m.x \div 2 + (i - m.offset) \div 2 :
                      i \in { j \in m.offset .. m.offset + m.width - 1 : Odd(j) } }

BlocksOf(pixels) == { p \div Y_UNIT_WIDTH : p \in pixels }
AllBlocks == BlocksOf(Pixels)

(* mark_buffer_area()                                                      *)
Marked(row, m) == [p \in Pixels |-> IF p \in PlaceOf(m) THEN row[p] + 1 ELSE row[p]]
Back == 1 - img_sel
-----------------------------------------------------------------------------
(* rmdFirstFrame(), for both shots when there are two: the first is older. *)
Init ==
    /\ args \in Settings
    /\ screen \in FirstScreens
    /\ changed = {} /\ paints = 0
    /\ pc = "events"
    /\ brwin \in 0..ScreenWidth-Width /\ temp_brwin = brwin
    /\ list = {} /\ mouse = Nowhere /\ undrawn = {}
    /\ \E c \in Colours :
           shots = [i \in {0, 1} |-> IF i = 0 /\ args.full_shots THEN [p \in Pixels |-> c] ELSE Shot(brwin)]
    /\ img_sel = IF args.full_shots THEN 1 ELSE 0
    /\ yuv = Planes(Shot(brwin))
    /\ blocks = [y |-> {}, u |-> {}]
    /\ ready = FALSE /\ firstrun = TRUE
    /\ loaded = [y |-> [p \in Pixels |-> 0], u |-> [c \in Samples |-> 0]]

(* The programs on the screen draw.                                        *)
Paint(s, colour) ==
    /\ paints < MaxPaints /\ screen[s] # colour
    /\ screen' = [screen EXCEPT ![s] = colour]
    /\ changed' = changed \cup {s}
    /\ paints' = paints + 1
    /\ UNCHANGED <<args, grabVars, yuv, blocks, cacheVars>>
-----------------------------------------------------------------------------
(* rmdEventLoop() lists what changed; the shots change places.             *)
Events ==
    /\ pc = "events" /\ pc' = "pointer"
    /\ IF args.full_shots
       THEN img_sel' = Back /\ UNCHANGED <<changed, list>>
       ELSE /\ list' = { p \in Pixels : brwin + p \in changed }
            /\ changed' = {}
            /\ UNCHANGED img_sel
    /\ temp_brwin' = brwin
    /\ UNCHANGED <<args, screen, paints, brwin, mouse, undrawn, shots, yuv, blocks, cacheVars>>

(* sync_next_frame() says that a frame is not to be refreshed.             *)
Skip ==
    /\ pc = "events" /\ pc' = "advance"
    /\ UNCHANGED <<args, screenVars, brwin, temp_brwin, list, mouse, undrawn, shots, img_sel,
                   yuv, blocks, cacheVars>>

(* clip_dummy_pointer_area(), and what the drawing leaves out on the left. *)
ClipPointer(x) ==
    LET left  == IF x < temp_brwin THEN temp_brwin ELSE x
        right == IF x + CursorWidth < temp_brwin + Width THEN x + CursorWidth ELSE temp_brwin + Width
    IN  IF right <= left THEN Nowhere
        ELSE [x |-> left - temp_brwin, width |-> right - left, offset |-> left - x]

rmdMoveCaptureArea(cursor_x) ==
    LET t_x == cursor_x - Width \div 2
    IN  IF t_x < 0 THEN 0 ELSE IF t_x + Width > ScreenWidth THEN ScreenWidth - Width ELSE t_x

(* Deviation: the pointer's old place is forgotten.                        *)
DirtyNow(before, now) == PlaceOf(now)
Dirty(before, now) == PlaceOf(before) \cup PlaceOf(now)

(* The pointer's old and new place go on the list, or its new place is     *)
(* marked in the older shot; the area follows it, from the next turn on.   *)
Pointer(cursor_x) ==
    /\ pc = "pointer" /\ pc' = "fetch"
    /\ mouse' = IF args.cursor = "xfixes" THEN ClipPointer(cursor_x - xhot) ELSE Nowhere
    /\ list' = IF args.full_shots THEN list ELSE list \cup Dirty(mouse, mouse')
    /\ shots' = IF args.full_shots THEN [shots EXCEPT ![Back] = Marked(@, mouse')] ELSE shots
    /\ brwin' = IF args.follow_mouse THEN rmdMoveCaptureArea(cursor_x) ELSE brwin
    /\ UNCHANGED <<args, screenVars, temp_brwin, undrawn, img_sel, yuv, blocks, cacheVars>>

(* A full shot.  Without shared memory it is always put into image.        *)
Fetch ==
    /\ pc = "fetch" /\ args.full_shots /\ pc' = "update"
    /\ shots' = [shots EXCEPT ![IF args.noshared THEN 0 ELSE img_sel] = Shot(temp_brwin)]
    /\ changed' = {}
    /\ UNCHANGED <<args, screen, paints, brwin, temp_brwin, list, mouse, undrawn, img_sel,
                   yuv, blocks, cacheVars>>

(* rmdUpdateImage() and rmdBlocksFromList(), under yuv_mutex.  The chroma  *)
(* samples of a list are those of its rectangles: see DamageEvents.        *)
UpdateImage ==
    /\ pc = "fetch" /\ ~args.full_shots /\ pc' = "draw"
    /\ yuv' = [yuv EXCEPT !.y = [p \in Pixels |-> IF p \in list THEN Shot(temp_brwin)[p] ELSE @[p]]]
    /\ blocks' = [y |-> blocks.y \cup BlocksOf(list), u |-> blocks.u \cup BlocksOf(list)]
    /\ undrawn' = PlaceOf(mouse)
    /\ UNCHANGED <<args, screenVars, brwin, temp_brwin, list, mouse, shots, img_sel, cacheVars>>

(* UPDATE_Y_PLANE_DBUF and UPDATE_UV_PLANES_DBUF: where the shots differ.  *)
Differ(p) == shots[img_sel][p] # shots[Back][p]

(* Deviation: the chroma looks at the first of two pixels only.            *)
SampleDiffersQuick(c) == Differ(2*c)
SampleDiffers(c) == Differ(2*c) \/ (args.no_quick_subsample /\ Differ(2*c + 1))

(* Deviation: the cache is told of the first of two pixels only.           *)
MarkedSamplesQuick == { c \in Samples : Differ(2*c) }
MarkedSamples == { c \in Samples : SampleDiffers(c) }

rmdUpdateYuvBuffer ==
    /\ pc = "update" /\ pc' = "draw"
    /\ LET front == shots[img_sel]
       IN  yuv' = [y |-> [p \in Pixels |-> IF Differ(p) THEN front[p] ELSE yuv.y[p]],
                   u |-> [c \in Samples |-> IF SampleDiffers(c) THEN Sample(front, c) ELSE yuv.u[c]]]
    /\ blocks' = [y |-> blocks.y \cup BlocksOf({ p \in Pixels : Differ(p) }),
                  u |-> blocks.u \cup BlocksOf({ 2*c : c \in MarkedSamples })]
    /\ undrawn' = PlaceOf(mouse)
    /\ UNCHANGED <<args, screenVars, brwin, temp_brwin, list, mouse, shots, img_sel, cacheVars>>

(* rmdXFixesPointerToYuv(), which no mutex covers, pixel after pixel.      *)
DrawPixel(p) ==
    /\ pc = "draw" /\ p \in undrawn
    /\ \A q \in undrawn : p <= q
    /\ LET i == p - mouse.x + mouse.offset
           c == mouse.x \div 2 + (i - mouse.offset) \div 2
       IN  yuv' = [y |-> [yuv.y EXCEPT ![p] = Blend(@)],
                   u |-> IF args.full_shots /\ Odd(i) THEN [yuv.u EXCEPT ![c] = Blend(@)] ELSE yuv.u]
    /\ undrawn' = undrawn \ {p}
    /\ UNCHANGED <<args, screenVars, pc, brwin, temp_brwin, list, mouse, shots, img_sel, blocks, cacheVars>>

(* The pointer is drawn: the place is marked in the shot that is compared  *)
(* with next, and the list is cleared.                                     *)
Drawn ==
    /\ pc = "draw" /\ undrawn = {} /\ pc' = "advance"
    /\ shots' = IF args.full_shots THEN [shots EXCEPT ![img_sel] = Marked(@, mouse)] ELSE shots
    /\ list' = {}
    /\ UNCHANGED <<args, screenVars, brwin, temp_brwin, mouse, undrawn, img_sel, yuv, blocks, cacheVars>>

(* advance_frameno() may find that there are frames enough.                *)
Advance ==
    /\ pc = "advance" /\ pc' = "events"
    /\ ready' \in {ready, TRUE}
    /\ UNCHANGED <<args, screenVars, brwin, temp_brwin, list, mouse, undrawn, shots, img_sel,
                   yuv, blocks, firstrun, loaded>>
-----------------------------------------------------------------------------
(* rmdCacheImageBuffer(), under yuv_mutex: the blocks marked are written   *)
(* and the marks removed; rmdLoadBlock() puts each one where it was.       *)
Written == IF firstrun THEN [y |-> AllBlocks, u |-> AllBlocks] ELSE blocks
rmdLoadFrame(planes, written) ==
    [y |-> [p \in Pixels |-> IF p \div Y_UNIT_WIDTH \in written.y THEN yuv.y[p] ELSE planes.y[p]],
     u |-> [c \in Samples |-> IF (2*c) \div Y_UNIT_WIDTH \in written.u THEN yuv.u[c] ELSE planes.u[c]]]

CacheFrame ==
    /\ ready
    /\ loaded' = rmdLoadFrame(loaded, Written)
    /\ blocks' = [y |-> {}, u |-> {}]
    /\ ready' = FALSE /\ firstrun' = FALSE
    /\ UNCHANGED <<args, screenVars, grabVars, yuv>>

Next ==
    \/ \E s \in 0..ScreenWidth-1, colour \in Colours : Paint(s, colour)
    \/ Events \/ Skip
    \/ \E cursor_x \in PointerAt : Pointer(cursor_x)
    \/ Fetch \/ UpdateImage \/ rmdUpdateYuvBuffer
    \/ \E p \in Pixels : DrawPixel(p)
    \/ Drawn \/ Advance
    \/ CacheFrame
Spec == Init /\ [][Next]_vars
-----------------------------------------------------------------------------
TypeOK ==
    /\ args \in Settings
    /\ screen \in [0..ScreenWidth-1 -> Colours]
    /\ changed \subseteq 0..ScreenWidth-1 /\ paints \in 0..MaxPaints
    /\ pc \in {"events", "pointer", "fetch", "update", "draw", "advance"}
    /\ brwin \in 0..ScreenWidth-Width /\ temp_brwin \in 0..ScreenWidth-Width
    /\ list \subseteq Pixels /\ undrawn \subseteq PlaceOf(mouse) /\ PlaceOf(mouse) \subseteq Pixels
    /\ shots \in [{0, 1} -> [Pixels -> Nat]] /\ img_sel \in {0, 1}
    /\ {yuv, loaded} \subseteq [y : [Pixels -> Nat], u : [Samples -> Nat]]
    /\ blocks \in [y : SUBSET AllBlocks, u : SUBSET AllBlocks]
    /\ ready \in BOOLEAN /\ firstrun \in BOOLEAN

(* What a turn leaves in the luma plane is the screen as it was looked at, *)
(* with the pointer blended in once, where it is now: no trail of an older *)
(* one, no pixel that was missed, wherever the pointer is and however the  *)
(* recorded area follows it (rmd_get_frames.c:474 "Pointer sequence", 667  *)
(* "make previous cursor position dirty").                                 *)
Below(p) == yuv.y[p] - IF p \in PlaceOf(mouse) THEN Shade ELSE 0
PictureFresh ==
    pc = "advance" => \A p \in Pixels :
        \/ Below(p) = screen[temp_brwin + p]
        \/ temp_brwin + p \in changed /\ Below(p) \in Colours

(* The picture of every turn, in a state whose variables keep to their     *)
(* values.                                                                 *)
PictureRight == TypeOK /\ PictureFresh

(* With two full shots the chroma planes are restored as well, although a  *)
(* pointer at an odd place draws over samples that it covers by half, as   *)
(* long as samples are averaged: --quick-subsampling compares one pixel of *)
(* a sample and with a pointer can leave its colour behind.                *)
BelowSample(c) == yuv.u[c] - IF c \in SamplesOf(mouse) THEN Shade ELSE 0
ColoursFresh ==
    pc = "advance" /\ args.full_shots /\ (args.no_quick_subsample \/ args.cursor = "none") => \A c \in Samples :
        \/ BelowSample(c) = Sample(Shot(temp_brwin), c)
        \/ /\ {temp_brwin + 2*c, temp_brwin + 2*c + 1} \cap changed # {}
           /\ BelowSample(c) < Shade

(* Each frame cached gives back the picture that yuv_mutex protected: only *)
(* the pointer, drawn without it, may be missing in part.  No block that   *)
(* changed goes unwritten because its mark was removed by an earlier frame *)
(* or set too late (rmd_cache_frame.c:170).                                *)
CachedButPointer ==
    [][ready /\ ~ready' => /\ \A p \in Pixels : yuv.y[p] < Shade => loaded'.y[p] = yuv.y[p]
                           /\ \A c \in Samples : yuv.u[c] < Shade => loaded'.u[c] = yuv.u[c]]_vars

=============================================================================
