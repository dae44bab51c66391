--------------------------- MODULE MCDiagnostics ---------------------------
(* Diagnostics on a list of eight entries, two of them the scan's reserve,  *)
(* with parts that report nothing, one finding, all that fit, or one more.  *)
EXTENDS Diagnostics

MCCounts == {0, 1, 7, 8}
=============================================================================
