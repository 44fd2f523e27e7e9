----------------------------- MODULE MCMapView -----------------------------
(* Two players, a vehicle and an object on a map of 16 units; in the second  *)
(* frame one player moved, the other sits in the vehicle's place without a   *)
(* position and the object is gone.                                          *)
EXTENDS MapView, TLC

CONSTANTS p1, p2, v1, o1

MCPlayers == {p1, p2}
MCVehicles == {v1}
MCObjects == {o1}
MCOrder == <<p1, p2, o1, v1>>
MCNowhere == -99
MCFrames ==
  <<(p1 :> 0) @@ (p2 :> 4) @@ (v1 :> -4) @@ (o1 :> -4),
    (p1 :> 4) @@ (p2 :> MCNowhere) @@ (v1 :> -4)>>
MCZooms == {1, 2}
MCCursor == {1, 3}
=============================================================================
