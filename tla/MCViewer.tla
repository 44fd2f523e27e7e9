------------------------------ MODULE MCViewer ------------------------------
(* Four recordings: an ordinary one, one whose stream is out of order and    *)
(* holds an unusable timestamp, one without any frame, and one without any   *)
(* usable timestamp.                                                         *)
EXTENDS Viewer

CONSTANTS a, b, e, n

F(t, phase, kills) == [t |-> t, phase |-> phase, kills |-> kills]

MCIds == {a, b, e, n}
MCStreams ==
  (a :> <<F(10, "InProgress", 1), F(12, "InProgress", 1), F(14, "Post", 0)>>) @@
  (b :> <<F(11, "InProgress", 1), F(NoTime, "InProgress", 0), F(9, "InProgress", 0)>>) @@
  (e :> <<>>) @@
  (n :> <<F(NoTime, "InProgress", 0), F(NoTime, "Post", 1)>>)
MCNoTime == -1
MCSpeeds == {1, 2}
MCDeltas == {-3, 3}
=============================================================================
