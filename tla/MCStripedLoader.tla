--------------------------- MODULE MCStripedLoader --------------------------
(* Values for the block list and the threads StripedLoader takes.          *)
EXTENDS StripedLoader

CONSTANTS r1, r2, r3

ReadersThree == {r1, r2, r3}
BlocksMixed == <<1, 1, 1, 2, 1>>
=============================================================================
