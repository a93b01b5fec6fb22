----------------------------- MODULE MCPicture ------------------------------
(***************************************************************************)
(* A screen a pixel wider than the recorded area, whose blocks hold two    *)
(* pixels, and a pointer cut to odd and even widths on either side.        *)
(***************************************************************************)
EXTENDS Picture

Setting(full_shots, follow_mouse, cursor, noshared, no_quick_subsample) ==
    [full_shots |-> full_shots, follow_mouse |-> follow_mouse, cursor |-> cursor,
     noshared |-> noshared, no_quick_subsample |-> no_quick_subsample]

MCSettings ==
    { Setting(FALSE, FALSE, "xfixes", FALSE, TRUE), Setting(TRUE, FALSE, "xfixes", FALSE, TRUE),
      Setting(TRUE, TRUE, "xfixes", FALSE, TRUE), Setting(TRUE, TRUE, "none", FALSE, FALSE),
      Setting(FALSE, FALSE, "none", TRUE, TRUE) }
FirstScreen == { [s \in 0..ScreenWidth-1 |-> IF s \in {1, 2} THEN 3 ELSE 0] }
=============================================================================
