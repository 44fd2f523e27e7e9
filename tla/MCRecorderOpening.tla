------------------------- MODULE MCRecorderOpening --------------------------
(***************************************************************************)
(* Instance of RecorderOpening for TLC.                                    *)
(***************************************************************************)
EXTENDS RecorderOpening, TLC

Ids == Permutations(Match)
=============================================================================
