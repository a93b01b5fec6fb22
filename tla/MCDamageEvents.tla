--------------------------- MODULE MCDamageEvents ---------------------------
(***************************************************************************)
(* A screen of a few pixels with recorded areas in its corners, at an odd  *)
(* distance from its border, of odd and of even size.  The dummy pointer   *)
(* starts in the screen's corner, uncut: it needs an area that holds it.   *)
(***************************************************************************)
EXTENDS DamageEvents

MCSettings ==
    [area : {XRectangle(1, 0, 3, 2), XRectangle(0, 1, 2, 3)}, cursor : {"none", "xfixes"}]
    \cup {[area |-> XRectangle(0, 0, 2, 3), cursor |-> "dummy"]}
=============================================================================
