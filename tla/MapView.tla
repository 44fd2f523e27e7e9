------------------------------ MODULE MapView ------------------------------
(***************************************************************************)
(* The map of the page and what the user does to it: the camera (pan,      *)
(* zoom, follow), the mouse and touch gestures, the measuring ruler, the   *)
(* detail panels and the overlays that select a player.                    *)
(*                                                                         *)
(* The two axes of the map are handled alike, so the map is a line: world  *)
(* positions are integers, the canvas is Pixels wide and shows Width world *)
(* units at zoom 1.  A frame says which entities the snapshot holds and    *)
(* where; an entity without a position is in the snapshot and not on the   *)
(* map.  The drawing loop is an action of its own, because the clicks read *)
(* the frame it drew last and not the newest one.                          *)
(***************************************************************************)
EXTENDS Integers, Sequences, FiniteSets, SequencesExt, FiniteSetsExt, Functions

CONSTANTS
  Players, Vehicles, Objects, \* entities; objects open the shared info panel
  Order,      \* sequence of all entities, as the hit test considers them
  Frames,     \* sequence of [subset of the entities -> position or Nowhere]
  Nowhere,    \* a null position
  None,       \* null
  Width, Pixels, Zooms,      \* world units at zoom 1, css pixels, zoom levels
  Cursor,     \* pixels the pointer stops at
  HitPx,      \* reach of a click, in pixels
  Slop,       \* largest movement of a click, in pixels
  SnapCm,     \* EXTEND_SNAP_CM
  Devices,    \* subset of {"mouse", "touch"}
  MaxPan,     \* bound: how far pinching to and fro may drift the camera
  MaxInputs   \* bound: presses, keys and picks in a behaviour

Entities == Players \cup Vehicles \cup Objects

ZoomedBy(z, factor) ==
  IF factor > 1 THEN Min({z * factor, Max(Zooms)}) ELSE Max({z \div 2, Min(Zooms)})

ASSUME MapViewAssumption ==
  /\ Range(Order) = Entities /\ Players \cap Vehicles = {}
  /\ Width \in Nat /\ Pixels \in Nat \ {0}
  /\ Cursor \subseteq 0..Pixels
  /\ Zooms \subseteq Nat \ {0} /\ 1 \in Zooms
  /\ \A z \in Zooms : /\ ZoomedBy(z, 0) \in Zooms /\ ZoomedBy(z, 2) \in Zooms
                      /\ Width % (z * Pixels) = 0 /\ (Width \div z) % 2 = 0
  /\ 1 \in DOMAIN Frames
  /\ \A k \in DOMAIN Frames : \A e \in DOMAIN Frames[k] : Frames[k][e] \in Int

(* What dragRef and touchRef hold during a gesture. *)
Pressed == [x0 : Int, pan0 : Int]
Touching == [mode : {"pan", "pinch"}, x0 : Int, pan0 : Int, down : Int,
             dist : Int, zoom0 : Int]

ASSUME NoneAssumption ==
  None \notin Entities /\ None \notin Int /\ None \notin Pressed /\ None \notin Touching

VARIABLES
  device,   \* what the user holds
  cur,      \* curSnap
  shown,    \* displayRef: the frame and the camera the loop drew last
  view,     \* the camera of the store: [pan, zoom]
  sel,      \* selected [player, vehicle, info]
  follow,   \* [player, vehicle]
  board,    \* scoreboardVisible
  at,       \* where the mouse is
  buttons,  \* mouse buttons held
  drag,     \* dragRef: None or [x0, pan0]
  down,     \* downRef: None or the pixel
  ruler,    \* points of the measurement, <<>> for null
  measuring,\* rulerDragRef
  fingers,  \* where the fingers are, in the order they came
  gesture,  \* touchRef: None or [mode, x0, pan0, down, dist, zoom0]
  inputs

mouse  == <<at, buttons, drag, down>>
touch  == <<fingers, gesture>>
rule   == <<ruler, measuring>>
vars   == <<device, cur, shown, view, sel, follow, board, mouse, rule, touch, inputs>>

-----------------------------------------------------------------------------
(* The projection and the hit test *)

Window(v) == Width \div v.zoom
ScreenToWorld(v, x) == v.pan - Window(v) \div 2 + x * (Window(v) \div Pixels)
Reach(v) == HitPx * (Window(v) \div Pixels)

Abs(n) == IF n < 0 THEN -n ELSE n

\* The nearest entity within reach, the first considered among equals.
HitTest(k, w, reach) ==
  LET d(e) == Abs(Frames[k][e] - w)
      near == {e \in DOMAIN Frames[k] : Frames[k][e] # Nowhere /\ d(e) <= reach}
      rank(e) == CHOOSE n \in DOMAIN Order : Order[n] = e
      best(e) == \A o \in near : d(e) < d(o) \/ (d(e) = d(o) /\ rank(e) <= rank(o))
  IN IF k = 0 \/ near = {} THEN None ELSE CHOOSE e \in near : best(e)

\* The camera of a frame: centred on the followed entity when it has a place.
FollowView(v, f, k) ==
  LET e == IF f.player # None THEN f.player ELSE f.vehicle
  IN IF e # None /\ e \in DOMAIN Frames[k] /\ Frames[k][e] # Nowhere
     THEN [v EXCEPT !.pan = Frames[k][e]] ELSE v

Following == follow.player # None \/ follow.vehicle # None
NoFollow == [player |-> None, vehicle |-> None]
HomeView == [pan |-> 0, zoom |-> 1]

\* Zooming keeps the point under x when the camera is free, and only changes
\* the zoom while it follows.
ZoomAt(x, z) ==
  LET after == [view EXCEPT !.zoom = z]
  IN view' = IF Following THEN after
             ELSE [after EXCEPT !.pan = @ + ScreenToWorld(view, x) - ScreenToWorld(after, x)]

-----------------------------------------------------------------------------
(* The store's selection setters *)

WithVehicle(s, f, v) ==
  [sel    |-> [s EXCEPT !.vehicle = v, !.info = IF v = None THEN @ ELSE None],
   follow |-> [f EXCEPT !.vehicle = IF v = None THEN None ELSE @]]
WithPlayerFollowed(s, f, p) ==
  [sel |-> [s EXCEPT !.player = p, !.info = IF p = None THEN @ ELSE None], follow |-> f]

WithPlayer(s, f, p) ==
  [sel    |-> [s EXCEPT !.player = p, !.info = IF p = None THEN @ ELSE None],
   follow |-> [f EXCEPT !.player = IF p = None THEN None ELSE @]]

WithInfo(s, f, o) ==
  IF o = None THEN [sel |-> [s EXCEPT !.info = None], follow |-> f]
  ELSE [sel |-> [player |-> None, vehicle |-> None, info |-> o], follow |-> NoFollow]

Closed(s, f) ==
  LET a == WithVehicle(s, f, None)
      b == WithPlayer(a.sel, a.follow, None)
  IN WithInfo(b.sel, b.follow, None)

\* App.onClick: the hit entity opens its panel, bare map closes them all.
Clicked(e, s, f) ==
  CASE e = None -> Closed(s, f)
    [] e \in Vehicles -> LET a == WithVehicle(s, f, e) IN WithPlayer(a.sel, a.follow, None)
    [] e \in Players  -> LET a == WithPlayer(s, f, e) IN WithVehicle(a.sel, a.follow, None)
    [] OTHER -> WithInfo(s, f, e)

Select(r) == sel' = r.sel /\ follow' = r.follow

-----------------------------------------------------------------------------
Init ==
  /\ device \in Devices
  /\ cur = 1
  /\ shown = [frame |-> 0, view |-> HomeView]
  /\ view = HomeView
  /\ sel = [player |-> None, vehicle |-> None, info |-> None]
  /\ follow = NoFollow
  /\ board = FALSE
  /\ at \in Cursor
  /\ buttons = {}
  /\ drag = None
  /\ down = None
  /\ ruler = <<>>
  /\ measuring = FALSE
  /\ fingers = <<>>
  /\ gesture = None
  /\ inputs = 0

Input == inputs < MaxInputs /\ inputs' = inputs + 1

\* The playhead reaches another frame; the loop draws the newest one.
NewFrame ==
  /\ \E k \in DOMAIN Frames : k # cur /\ cur' = k
  /\ UNCHANGED <<device, shown, view, sel, follow, board, mouse, rule, touch, inputs>>

Draw ==
  /\ shown' = [frame |-> cur, view |-> FollowView(view, follow, cur)]
  /\ shown' # shown
  /\ UNCHANGED <<device, cur, view, sel, follow, board, mouse, rule, touch, inputs>>

TakeCameraStored ==
  /\ follow' = NoFollow
  /\ UNCHANGED view

\* A press on the canvas takes the camera over: the drawn view is committed
\* before the follow is released.
TakeCamera ==
  IF Following THEN view' = shown.view /\ follow' = NoFollow
  ELSE UNCHANGED <<view, follow>>

-----------------------------------------------------------------------------
(* Mouse *)

\* Right button, or shift and left: a leg of a measurement, continuing the
\* last one when it starts near its end.
MeasureDown(b) ==
  /\ Input /\ device = "mouse" /\ b \notin buttons
  /\ buttons' = buttons \cup {b}
  /\ measuring' = TRUE
  /\ LET p == ScreenToWorld(view, at)
         near == ruler # <<>> /\ Abs(ruler[Len(ruler)] - p) <= SnapCm \div view.zoom
     IN ruler' = IF near THEN Append(ruler, p) ELSE <<p, p>>
  /\ UNCHANGED <<device, cur, shown, view, sel, follow, board, at, drag, down, touch>>

DragDownWipes ==
  /\ Input /\ device = "mouse" /\ "left" \notin buttons
  /\ buttons' = buttons \cup {"left"}
  /\ TakeCamera
  /\ drag' = [x0 |-> at, pan0 |-> view'.pan]
  /\ down' = at
  /\ ruler' = <<>>
  /\ UNCHANGED <<device, cur, shown, sel, board, at, measuring, touch>>

DragDown ==
  /\ Input /\ device = "mouse" /\ "left" \notin buttons
  /\ buttons' = buttons \cup {"left"}
  /\ TakeCamera
  /\ drag' = [x0 |-> at, pan0 |-> view'.pan]
  /\ down' = at
  /\ UNCHANGED <<device, cur, shown, sel, board, at, rule, touch>>

MouseMove ==
  /\ device = "mouse"
  /\ \E x \in Cursor \ {at} :
       /\ at' = x
       /\ \/ /\ measuring /\ ruler # <<>>
             /\ ruler' = [ruler EXCEPT ![Len(ruler)] = ScreenToWorld(view, x)]
             /\ UNCHANGED view
          \/ /\ ~(measuring /\ ruler # <<>>) /\ drag # None
             /\ view' = [view EXCEPT !.pan = drag.pan0 - (x - drag.x0) * (Window(view) \div Pixels)]
             /\ UNCHANGED ruler
          \/ /\ ~(measuring /\ ruler # <<>>) /\ drag = None
             /\ UNCHANGED <<view, ruler>>
  /\ UNCHANGED <<device, cur, shown, sel, follow, board, buttons, drag, down,
                 measuring, touch, inputs>>

\* Releasing any button while measuring ends the leg and drops it when it has
\* no length; otherwise it ends the drag, and is a click when the mouse hardly
\* moved and the press was quick.
MouseUp(b) ==
  /\ b \in buttons
  /\ buttons' = buttons \ {b}
  /\ \/ /\ measuring
        /\ measuring' = FALSE
        /\ LET n == Len(ruler)
               flat == n > 0 /\ ruler[n] = ruler[n - 1]
           IN ruler' = IF ~flat THEN ruler ELSE IF n > 2 THEN Front(ruler) ELSE <<>>
        /\ UNCHANGED <<drag, down, sel, follow>>
     \/ /\ ~measuring
        /\ drag' = None /\ down' = None
        /\ UNCHANGED measuring
        /\ \/ UNCHANGED <<ruler, sel, follow>>
           \/ /\ down # None /\ Abs(at - down) <= Slop
              /\ LET e == HitTest(shown.frame, ScreenToWorld(shown.view, down), Reach(shown.view))
                 IN /\ ruler' = IF e = None THEN <<>> ELSE ruler
                    /\ Select(Clicked(e, sel, follow))
  /\ UNCHANGED <<device, cur, shown, view, board, at, touch, inputs>>

Wheel(factor) ==
  /\ Input /\ device = "mouse"
  /\ ZoomAt(at, ZoomedBy(view.zoom, factor))
  /\ UNCHANGED <<device, cur, shown, sel, follow, board, mouse, rule, touch>>

-----------------------------------------------------------------------------
(* Touch *)

Dist == Abs(fingers'[1] - fingers'[2])

TouchStart ==
  /\ Input /\ device = "touch" /\ Len(fingers) < 2
  /\ \E x \in Cursor : fingers' = Append(fingers, x)
  /\ \/ /\ Len(fingers') = 1
        /\ TakeCamera
        /\ gesture' = [mode |-> "pan", x0 |-> fingers'[1], pan0 |-> view'.pan,
                       down |-> fingers'[1], dist |-> 0, zoom0 |-> 0]
     \/ /\ Len(fingers') = 2
        /\ gesture' = [mode |-> "pinch", x0 |-> 0, pan0 |-> 0, down |-> 0,
                       dist |-> Dist, zoom0 |-> view.zoom]
        /\ UNCHANGED <<view, follow>>
  /\ UNCHANGED <<device, cur, shown, sel, board, mouse, rule>>

\* The pinch is anchored at the current middle of the two fingers.
TouchMove ==
  /\ gesture # None
  /\ \E n \in DOMAIN fingers, x \in Cursor :
       fingers[n] # x /\ fingers' = [fingers EXCEPT ![n] = x]
  /\ \/ /\ gesture.mode = "pinch" /\ Len(fingers) = 2
        /\ LET d0 == Max({1, gesture.dist})
               z  == IF Dist >= 2 * d0 THEN ZoomedBy(gesture.zoom0, 2)
                     ELSE IF 2 * Dist <= d0 THEN ZoomedBy(gesture.zoom0, 0)
                     ELSE gesture.zoom0
           IN ZoomAt((fingers'[1] + fingers'[2]) \div 2, z)
        /\ Abs(view'.pan) <= MaxPan
     \/ /\ gesture.mode = "pan" /\ Len(fingers) = 1
        /\ view' = [view EXCEPT !.pan = gesture.pan0
                      - (fingers'[1] - gesture.x0) * (Window(view) \div Pixels)]
     \/ /\ gesture.mode = "pinch" /\ Len(fingers) = 1
        /\ UNCHANGED view
  /\ UNCHANGED <<device, cur, shown, sel, follow, board, mouse, rule, gesture, inputs>>

TouchEndKeeps ==
  /\ \E n \in DOMAIN fingers : fingers' = RemoveAt(fingers, n)
  /\ UNCHANGED <<gesture, sel, follow>>
  /\ UNCHANGED <<device, cur, shown, view, board, mouse, rule, inputs>>

\* The last finger of a pan that hardly moved and was quick is a tap.
TouchEnd ==
  /\ \E n \in DOMAIN fingers :
       /\ fingers' = RemoveAt(fingers, n)
       /\ gesture' = IF fingers' = <<>> THEN None ELSE gesture
       /\ \/ UNCHANGED <<sel, follow>>
          \/ /\ gesture.mode = "pan" /\ fingers' = <<>>
             /\ Abs(fingers[n] - gesture.down) <= Slop
             /\ LET w == ScreenToWorld(shown.view, gesture.down)
                IN Select(Clicked(HitTest(shown.frame, w, Reach(shown.view)), sel, follow))
  /\ UNCHANGED <<device, cur, shown, view, board, mouse, rule, inputs>>

-----------------------------------------------------------------------------
(* Keys, panels and overlays *)

\* Escape: the ruler goes wherever the focus is; the panels and overlays only
\* when no field has it.
Escape ==
  /\ Input
  /\ ruler' = <<>>
  /\ \/ Select(Closed(sel, follow)) /\ board' = FALSE
     \/ UNCHANGED <<sel, follow, board>>
  /\ UNCHANGED <<device, cur, shown, view, mouse, measuring, touch>>

\* F and the Fit button (the loop then fits the base rectangle again).
Fit ==
  /\ Input
  /\ view' = HomeView
  /\ UNCHANGED <<device, cur, shown, sel, follow, board, mouse, rule, touch>>

ToggleBoard ==
  /\ Input
  /\ board' = ~board
  /\ UNCHANGED <<device, cur, shown, view, sel, follow, mouse, rule, touch>>

Picked(r) ==
  /\ Input
  /\ Select(r)
  /\ UNCHANGED <<device, cur, shown, view, mouse, rule, touch>>

InSnap(S) == S \cap DOMAIN Frames[cur]

\* The search box selects and follows; it leaves the vehicle panel alone.
SearchPick(p) ==
  /\ p \in InSnap(Players)
  /\ LET a == WithPlayer(sel, follow, p)
     IN Picked([sel |-> a.sel, follow |-> [player |-> p, vehicle |-> None]])
  /\ UNCHANGED board

\* A name of the kill feed; the player may be in the snapshot no more.
FeedPick(p) ==
  /\ LET a == WithPlayer(sel, follow, p) IN Picked(WithVehicle(a.sel, a.follow, None))
  /\ UNCHANGED board

BoardPick(p) ==
  /\ board /\ p \in InSnap(Players)
  /\ LET a == WithPlayer(sel, follow, p) IN Picked(WithVehicle(a.sel, a.follow, None))
  /\ board' = FALSE

\* The FOLLOW button of the two panels, there while the entity is in the snapshot.
FollowPlayer ==
  /\ sel.player \in InSnap(Players)
  /\ LET p == IF follow.player = sel.player THEN None ELSE sel.player
     IN Picked([sel |-> sel, follow |-> [player |-> p,
                vehicle |-> IF p # None THEN None ELSE follow.vehicle]])
  /\ UNCHANGED board

FollowVehicle ==
  /\ sel.vehicle \in InSnap(Vehicles)
  /\ LET v == IF follow.vehicle = sel.vehicle THEN None ELSE sel.vehicle
     IN Picked([sel |-> sel, follow |-> [vehicle |-> v,
                player |-> IF v # None THEN None ELSE follow.player]])
  /\ UNCHANGED board

ClosePanel ==
  /\ \/ sel.player # None /\ Picked(WithPlayer(sel, follow, None))
     \/ sel.vehicle # None /\ Picked(WithVehicle(sel, follow, None))
     \/ sel.info # None /\ Picked(WithInfo(sel, follow, None))
  /\ UNCHANGED board

-----------------------------------------------------------------------------
Mouse == MeasureDown("right") \/ MeasureDown("left") \/ DragDown \/ MouseMove
         \/ MouseUp("left") \/ MouseUp("right") \/ Wheel(2) \/ Wheel(0)
Touch == TouchStart \/ TouchMove \/ TouchEnd
Pick  == \E p \in Players : SearchPick(p) \/ FeedPick(p) \/ BoardPick(p)
Page  == Escape \/ Fit \/ ToggleBoard \/ Pick \/ FollowPlayer \/ FollowVehicle \/ ClosePanel

Next == NewFrame \/ Draw \/ Mouse \/ Touch \/ Page

Spec == Init /\ [][Next]_vars

-----------------------------------------------------------------------------
(* Properties *)

TypeOK ==
  /\ view.zoom \in Zooms /\ shown.view.zoom \in Zooms
  /\ sel.player \in Players \cup {None}
  /\ sel.vehicle \in Vehicles \cup {None}
  /\ buttons \subseteq {"left", "right"}
  /\ Len(fingers) <= 2

\* The camera has one target, and the target's panel family is open: closing
\* a panel, by whatever way, stops the follow it started.
FollowHasPanel ==
  /\ follow.player = None \/ follow.vehicle = None
  /\ follow.player # None => sel.player # None
  /\ follow.vehicle # None => sel.vehicle # None

\* The shared info panel never coexists with a player or vehicle panel nor
\* with a followed entity.
InfoStandsAlone ==
  sel.info # None => sel.player = None /\ sel.vehicle = None /\ ~Following

\* Gestures end with the buttons and the fingers, in whatever order two
\* buttons are pressed and released; a measurement always has a leg, which
\* the release handler takes for granted; and once a second finger came, the
\* finger that stays does not drag the map.
GesturesEnd ==
  /\ TypeOK
  /\ buttons = {} => drag = None /\ down = None /\ ~measuring
  /\ fingers = <<>> <=> gesture = None
  /\ Len(ruler) # 1
  /\ gesture # None => (gesture.mode = "pan" => Len(fingers) = 1)

\* Pressing on the canvas does not move the picture: the camera that follows
\* is released where it was drawn.
PressKeepsPicture ==
  [][DragDown \/ TouchStart =>
       (shown = [frame |-> cur, view |-> FollowView(view, follow, cur)] =>
          FollowView(view', follow', cur) = shown.view)]_vars

\* With a free camera, the wheel keeps the world point under the cursor and a
\* pinch the one between the fingers.
ZoomKeepsPoint ==
  [][(~Following /\ view'.zoom # view.zoom /\ view' # HomeView) =>
       \E x \in 0..Pixels : ScreenToWorld(view', x) = ScreenToWorld(view, x)
                            /\ (device = "mouse" => x = at)]_vars

\* A measurement with a length goes away by Escape or by a click on bare map:
\* panning, zooming, selecting and measuring on never drop it.
MeasurementStays ==
  [][(Len(ruler) > 1 /\ ruler[1] # ruler[2] /\ ruler' = <<>>) =>
       Escape \/ (~measuring /\ down # None /\ sel' = [player |-> None, vehicle |-> None,
                                                       info |-> None])]_vars

\* What the camera follows has its panel, and the info panel stands alone.
CameraHasPanel == FollowHasPanel /\ InfoStandsAlone

\* The hand does not lose the picture: presses leave it, zooming keeps what is
\* under the cursor.
PictureHolds == PressKeepsPicture /\ ZoomKeepsPoint
=============================================================================
