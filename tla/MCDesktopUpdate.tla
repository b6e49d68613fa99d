--------------------------- MODULE MCDesktopUpdate ---------------------------
(* Small instance of DesktopUpdate. *)
EXTENDS DesktopUpdate
=============================================================================
