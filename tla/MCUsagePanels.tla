--------------------------- MODULE MCUsagePanels ---------------------------
(* A scope in each of two windows, the two tabs and the drawer.  Plain panels *)
(* would behave like the summary, and are left out.                          *)
EXTENDS UsagePanels

MCWindowOf == <<"earlier", "later">>
=============================================================================
