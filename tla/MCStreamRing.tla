---------------------------- MODULE MCStreamRing ----------------------------
(* Values for the chunk sequences StreamRing takes as a constant.          *)
EXTENDS StreamRing

ChunksMixed == <<1, 2, 1, 2, 1>>
ChunksTwo == <<2, 1, 2, 1, 2>>
=============================================================================
