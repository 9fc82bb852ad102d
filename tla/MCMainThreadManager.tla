------------------------- MODULE MCMainThreadManager -------------------------
(* Small instances of MainThreadManager for TLC. *)
EXTENDS MainThreadManager

CONSTANTS main, js, raster

OneThread  == {js}
TwoThreads == {js, raster}
=============================================================================
