---------------------------- MODULE MCReplayTools ----------------------------
(***************************************************************************)
(* Three packets, the last two after the same gap, so that a sample taken  *)
(* for that of the next descriptor would not show.                         *)
(***************************************************************************)
EXTENDS ReplayTools

MCGaps == <<0, 1, 1>>
=============================================================================
