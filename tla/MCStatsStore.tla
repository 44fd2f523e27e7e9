---------------------------- MODULE MCStatsStore ----------------------------
(***************************************************************************)
(* Instances of StatsStore for TLC.                                        *)
(***************************************************************************)
EXTENDS StatsStore, TLC

Ids == Permutations(Match)
=============================================================================
