------------------------------- MODULE Damage -------------------------------
(***************************************************************************)
(* What the damage list promises: the set of pixels to be fetched anew.    *)
(* An insertion adds the pixels of its rectangle, all at once when it is   *)
(* called; while it is at work on the list they stay what they are;        *)
(* clearing the list, between two insertions, forgets all.                 *)
(***************************************************************************)
CONSTANT Shapes      \* the sets of pixels that rectangles have
VARIABLES damaged,   \* the pixels changed since the list was cleared
          busy       \* an insertion is under way
damageVars == <<damaged, busy>>

DamageInit == damaged = {} /\ busy = FALSE

Insert(pixels) ==
    /\ ~busy /\ busy' = TRUE
    /\ damaged' = damaged \cup pixels

Work ==
    /\ busy /\ busy' \in BOOLEAN
    /\ UNCHANGED damaged

Forget ==
    /\ ~busy /\ UNCHANGED busy
    /\ damaged' = {}

DamageNext == (\E pixels \in Shapes : Insert(pixels)) \/ Work \/ Forget
DamageSpec == DamageInit /\ [][DamageNext]_damageVars
=============================================================================
