--------------------------- MODULE MCPushBacklog ----------------------------
(***************************************************************************)
(* Instances of PushBacklog for TLC.                                       *)
(***************************************************************************)
EXTENDS PushBacklog, TLC

Ids == Permutations(Match)
=============================================================================
