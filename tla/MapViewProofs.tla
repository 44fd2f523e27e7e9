--------------------------- MODULE MapViewProofs ---------------------------
(***************************************************************************)
(* For every map, set of entities, recording and way to use mouse and      *)
(* fingers: what the camera follows has its panel, every gesture ends, the *)
(* point under the cursor and the one pressed stay where they are, and a   *)
(* measurement stays until it is cleared.                                  *)
(***************************************************************************)
EXTENDS MapView, SequenceTheorems, TLAPS

View == [pan : Int, zoom : Zooms]

\* Cursor places and zoom levels are integers, and the wheel stays in range.
LEMMA CursorsAreInt == \A x \in Cursor : x \in Int
<1>1. Cursor \subseteq 0..Pixels /\ Pixels \in Nat
  BY MapViewAssumption, Zenon
<1> QED
  BY <1>1

\* Replacing an entry of a sequence of integers.
LEMMA Replaced ==
  ASSUME NEW s \in Seq(Int), NEW n \in DOMAIN s, NEW x \in Int
  PROVE  LET r == [s EXCEPT ![n] = x] IN r \in Seq(Int) /\ Len(r) = Len(s)
OBVIOUS

LEMMA ZoomSteps == \A z \in Zooms : ZoomedBy(z, 0) \in Zooms /\ ZoomedBy(z, 2) \in Zooms
BY MapViewAssumption, Zenon

LEMMA ZoomsAreInt == \A z \in Zooms : z \in Int
<1>1. Zooms \subseteq Nat \ {0}
  BY MapViewAssumption, Zenon
<1> QED
  BY <1>1

-----------------------------------------------------------------------------
(***************************************************************************)
(* The panels and the camera.  Every way to open, close or follow goes     *)
(* through setters that touch only some of the fields; Sound says which    *)
(* combinations they may leave behind.                                     *)
(***************************************************************************)
Sound(s, f) ==
  /\ s = [player |-> s.player, vehicle |-> s.vehicle, info |-> s.info]
  /\ s.player \in Players \cup {None} /\ s.vehicle \in Vehicles \cup {None}
  /\ f \in [player : Players \cup {None}, vehicle : Vehicles \cup {None}]
  /\ f.player = None \/ f.vehicle = None
  /\ f.player # None => s.player # None
  /\ f.vehicle # None => s.vehicle # None
  /\ s.info # None => /\ s.player = None /\ s.vehicle = None
                      /\ f.player = None /\ f.vehicle = None

\* setSelectedVehicle keeps a selection sound, whatever is selected.
LEMMA VehicleSound ==
  ASSUME NEW s, NEW f, Sound(s, f), NEW v \in Vehicles \cup {None}
  PROVE  LET r == WithVehicle(s, f, v)
         IN Sound(r.sel, r.follow)
BY DEF Sound, WithVehicle

\* setSelectedPlayer too.
LEMMA PlayerSound ==
  ASSUME NEW s, NEW f, Sound(s, f), NEW p \in Players \cup {None}
  PROVE  LET r == WithPlayer(s, f, p)
         IN Sound(r.sel, r.follow)
BY DEF Sound, WithPlayer

\* setSelectedInfo closes what it does not open.
LEMMA InfoSound ==
  ASSUME NEW s, NEW f, Sound(s, f), NEW o
  PROVE  LET r == WithInfo(s, f, o)
         IN Sound(r.sel, r.follow)
BY DEF Sound, WithInfo, NoFollow

\* Closing everything is sound.
LEMMA ClosedSound ==
  ASSUME NEW s, NEW f, Sound(s, f)
  PROVE  LET r == Closed(s, f)
         IN Sound(r.sel, r.follow)
<1> DEFINE a == WithVehicle(s, f, None)
           b == WithPlayer(a.sel, a.follow, None)
<1>1. Sound(a.sel, a.follow)
  BY VehicleSound
<1> HIDE DEF a
<1>2. Sound(b.sel, b.follow)
  BY <1>1, PlayerSound
<1> HIDE DEF b
<1>3. LET r == WithInfo(b.sel, b.follow, None) IN Sound(r.sel, r.follow)
  BY <1>2, InfoSound
<1> QED
  BY <1>3 DEF Closed, a, b

\* Selecting a player and then no vehicle, as the feed and the board do.
LEMMA PlayerAloneSound ==
  ASSUME NEW s, NEW f, Sound(s, f), NEW p \in Players
  PROVE  LET a == WithPlayer(s, f, p)
             r == WithVehicle(a.sel, a.follow, None)
         IN Sound(r.sel, r.follow)
<1> DEFINE a == WithPlayer(s, f, p)
<1>1. Sound(a.sel, a.follow)
  BY PlayerSound
<1> HIDE DEF a
<1>2. LET r == WithVehicle(a.sel, a.follow, None) IN Sound(r.sel, r.follow)
  BY <1>1, VehicleSound
<1> QED
  BY <1>2 DEF a

\* A click is sound, whatever the hit test returns.
LEMMA ClickedSound ==
  ASSUME NEW s, NEW f, Sound(s, f), NEW e
  PROVE  LET r == Clicked(e, s, f)
         IN Sound(r.sel, r.follow)
<1>1. CASE e = None
  BY <1>1, ClosedSound, NoneAssumption DEF Clicked, Entities
<1>2. CASE e # None /\ e \in Vehicles
  <2> DEFINE a == WithVehicle(s, f, e)
  <2>1. Sound(a.sel, a.follow)
    BY <1>2, VehicleSound
  <2>2. Clicked(e, s, f) = WithPlayer(a.sel, a.follow, None)
    BY <1>2, MapViewAssumption DEF Clicked
  <2> HIDE DEF a
  <2> QED
    BY <2>1, <2>2, PlayerSound
<1>3. CASE e # None /\ e \notin Vehicles /\ e \in Players
  <2> DEFINE a == WithPlayer(s, f, e)
  <2>1. Clicked(e, s, f) = WithVehicle(a.sel, a.follow, None)
    BY <1>3, MapViewAssumption DEF Clicked
  <2> QED
    BY <1>3, <2>1, PlayerAloneSound
<1>4. CASE e # None /\ e \notin Vehicles /\ e \notin Players
  <2>1. Clicked(e, s, f) = WithInfo(s, f, e)
    BY <1>4 DEF Clicked
  <2> QED
    BY <2>1, InfoSound
<1> QED
  BY <1>1, <1>2, <1>3, <1>4

-----------------------------------------------------------------------------
(***************************************************************************)
(* The hands.  A gesture is spread over refs that different handlers set   *)
(* and clear.  That a measurement and a drag can only coexist while both   *)
(* buttons are held is what makes the last release end them both.          *)
(***************************************************************************)
MapInv ==
  /\ TypeOK
  /\ cur \in DOMAIN Frames
  /\ view \in View /\ shown.view \in View
  /\ Sound(sel, follow)
  /\ at \in Int /\ measuring \in BOOLEAN
  /\ drag \in {None} \cup Pressed /\ down \in {None} \cup Int
  /\ drag = None <=> down = None
  /\ drag # None \/ measuring => buttons # {}
  /\ drag # None /\ measuring => buttons = {"left", "right"}
  /\ ruler \in Seq(Int) /\ Len(ruler) # 1
  /\ fingers \in Seq(Int)
  /\ gesture \in {None} \cup Touching
  /\ fingers = <<>> <=> gesture = None
  /\ gesture # None => /\ gesture.mode = "pan" => Len(fingers) = 1
                       /\ gesture.mode = "pinch" => gesture.zoom0 \in Zooms

\* The widths of the window and of a pixel are whole numbers.
LEMMA WindowType ==
  ASSUME NEW v \in View
  PROVE  Window(v) \in Int /\ Window(v) \div Pixels \in Int /\ Window(v) \div 2 \in Int
<1>1. v.zoom \in Nat \ {0} /\ Width \in Nat /\ Pixels \in Nat \ {0}
  BY MapViewAssumption DEF View
<1>2. \A m \in Int, n \in Nat \ {0} : m \div n \in Int
  OBVIOUS
<1> QED
  BY <1>1, <1>2 DEF Window

\* So is the place under a pixel.
LEMMA PlaceType ==
  ASSUME NEW v \in View, NEW x \in Int
  PROVE  ScreenToWorld(v, x) \in Int
<1> DEFINE w == Window(v) \div Pixels
           h == Window(v) \div 2
<1>1. w \in Int /\ h \in Int /\ v.pan \in Int
  BY WindowType DEF View
<1>2. ScreenToWorld(v, x) = v.pan - h + x * w
  BY DEF ScreenToWorld
<1> HIDE DEF w, h
<1>3. x * w \in Int
  BY <1>1
<1> QED
  BY <1>1, <1>2, <1>3

\* The camera of a frame is a camera.
LEMMA FollowType ==
  ASSUME NEW v \in View, NEW f, NEW k \in DOMAIN Frames
  PROVE  FollowView(v, f, k) \in View
BY MapViewAssumption DEF FollowView, View

\* Zooming yields a camera.
LEMMA ZoomType ==
  ASSUME view \in View, NEW x \in Int, NEW z \in Zooms, ZoomAt(x, z)
  PROVE  view' \in View
<1> DEFINE after == [view EXCEPT !.zoom = z]
<1>1. after \in View
  BY DEF View
<1>2. ScreenToWorld(view, x) \in Int /\ ScreenToWorld(after, x) \in Int
  BY <1>1, PlaceType
<1>3. view' = IF Following THEN after
              ELSE [after EXCEPT !.pan = @ + ScreenToWorld(view, x) - ScreenToWorld(after, x)]
  BY DEF ZoomAt
<1> HIDE DEF after
<1> QED
  BY <1>1, <1>2, <1>3 DEF View

\* Taking the camera over leaves a camera and a sound selection.
LEMMA TakenSound ==
  ASSUME MapInv, TakeCamera
  PROVE  view' \in View /\ Sound(sel, follow')
BY DEF TakeCamera, MapInv, Sound, Following, NoFollow

LEMMA InitMap == Init => MapInv
<1> SUFFICES ASSUME Init PROVE MapInv
  OBVIOUS
<1>1. TypeOK
  BY MapViewAssumption DEF Init, TypeOK, HomeView
<1>2. view \in View /\ shown.view \in View /\ cur \in DOMAIN Frames /\ at \in Int
  BY MapViewAssumption DEF Init, View, HomeView
<1>3. Sound(sel, follow)
  BY DEF Init, Sound, NoFollow
<1>4. measuring = FALSE /\ buttons = {} /\ drag = None /\ down = None
  BY DEF Init
<1>5. ruler = <<>> /\ fingers = <<>> /\ gesture = None
  BY DEF Init
<1>6. ruler \in Seq(Int) /\ Len(ruler) # 1 /\ fingers \in Seq(Int)
  BY <1>5
<1>7. measuring \in BOOLEAN /\ ~(drag # None \/ measuring)
  BY <1>4
<1> QED
  BY <1>1, <1>2, <1>3, <1>4, <1>5, <1>6, <1>7, Zenon DEF MapInv

-----------------------------------------------------------------------------
(* Steps that have a part in common *)

\* Handlers that only select keep the invariant if what they select is sound.
LEMMA PickedKeeps ==
  ASSUME MapInv, NEW r, Picked(r), Sound(r.sel, r.follow)
  PROVE  MapInv'
<1>1. sel' = r.sel /\ follow' = r.follow /\ UNCHANGED <<cur, shown, view, mouse, rule, touch>>
  BY DEF Picked, Select
<1>2. Sound(sel, follow)'
  BY <1>1 DEF Sound
<1>3. TypeOK'
  BY <1>1, <1>2 DEF MapInv, TypeOK, Sound, mouse, touch, rule
<1> QED
  BY <1>1, <1>2, <1>3 DEF MapInv, mouse, touch, rule

\* A button goes down: what is held, and the rest of the state, stay typed.
LEMMA FirstPoint ==
  ASSUME MapInv, NEW p \in Int
  PROVE  /\ <<p, p>> \in Seq(Int) /\ Len(<<p, p>>) = 2
         /\ ruler # <<>> => /\ Append(ruler, p) \in Seq(Int)
                            /\ Len(Append(ruler, p)) = Len(ruler) + 1
                            /\ Len(ruler) \in Nat \ {0}
BY DEF MapInv

LEMMA MeasureDownKeeps ==
  ASSUME MapInv, NEW b \in {"left", "right"}, MeasureDown(b)
  PROVE  MapInv'
<1> DEFINE p == ScreenToWorld(view, at)
<1>1. p \in Int
  BY PlaceType DEF MapInv
<1>2. (ruler' = Append(ruler, p) /\ ruler # <<>>) \/ ruler' = <<p, p>>
  BY DEF MeasureDown
<1> HIDE DEF p
<1>3. ruler' \in Seq(Int) /\ Len(ruler') # 1
  <2>1. CASE ruler' = <<p, p>>
    BY <1>1, <2>1, FirstPoint
  <2>2. CASE ruler' = Append(ruler, p) /\ ruler # <<>>
    BY <1>1, <2>2, FirstPoint
  <2> QED
    BY <1>2, <2>1, <2>2
<1>4. buttons' = buttons \cup {b} /\ measuring' = TRUE /\ b \notin buttons
  BY DEF MeasureDown
<1>5. UNCHANGED <<cur, shown, view, sel, follow, at, drag, down, fingers, gesture>>
  BY DEF MeasureDown, touch
<1>6. TypeOK'
  BY <1>4, <1>5 DEF MapInv, TypeOK
<1>7. drag' # None => buttons' = {"left", "right"}
  BY <1>4, <1>5 DEF MapInv, TypeOK
<1>8. Sound(sel, follow)'
  BY <1>5 DEF MapInv, Sound
<1> QED
  BY <1>3, <1>4, <1>5, <1>6, <1>7, <1>8 DEF MapInv

LEMMA DragDownKeeps ==
  ASSUME MapInv, DragDown
  PROVE  MapInv'
<1>1. view' \in View /\ Sound(sel, follow)'
  BY TakenSound DEF DragDown, Sound
<1>2. drag' = [x0 |-> at, pan0 |-> view'.pan] /\ down' = at
  BY DEF DragDown
<1>3. drag' \in Pressed /\ down' \in Int
  BY <1>1, <1>2 DEF MapInv, Pressed, View
<1>4. drag' # None /\ down' # None
  BY <1>3, NoneAssumption
<1>5. buttons' = buttons \cup {"left"} /\ "left" \notin buttons
  BY DEF DragDown
<1>6. UNCHANGED <<cur, shown, sel, at, measuring, ruler, fingers, gesture>>
  BY DEF DragDown, rule, touch
<1>7. measuring => buttons' = {"left", "right"}
  BY <1>5 DEF MapInv, TypeOK
<1>8. TypeOK'
  BY <1>1, <1>5, <1>6 DEF MapInv, TypeOK, View
<1> QED
  BY <1>1, <1>3, <1>4, <1>5, <1>6, <1>7, <1>8 DEF MapInv

LEMMA MouseMoveKeeps ==
  ASSUME MapInv, MouseMove
  PROVE  MapInv'
<1>1. PICK x \in Cursor \ {at} :
        /\ at' = x
        /\ \/ /\ measuring /\ ruler # <<>>
              /\ ruler' = [ruler EXCEPT ![Len(ruler)] = ScreenToWorld(view, x)]
              /\ UNCHANGED view
           \/ /\ ~(measuring /\ ruler # <<>>) /\ drag # None
              /\ view' = [view EXCEPT !.pan = drag.pan0 - (x - drag.x0) * (Window(view) \div Pixels)]
              /\ UNCHANGED ruler
           \/ /\ ~(measuring /\ ruler # <<>>) /\ drag = None
              /\ UNCHANGED view /\ UNCHANGED ruler
  BY DEF MouseMove
<1>2. x \in Int
  BY <1>1, CursorsAreInt, Zenon
<1>3. ScreenToWorld(view, x) \in Int
  BY <1>2, PlaceType DEF MapInv
<1>4. ruler' \in Seq(Int) /\ Len(ruler') # 1
  <2>1. ruler \in Seq(Int) /\ Len(ruler) # 1
    BY DEF MapInv
  <2>2. CASE ruler' = ruler
    BY <2>1, <2>2
  <2>3. CASE ruler # <<>> /\ ruler' = [ruler EXCEPT ![Len(ruler)] = ScreenToWorld(view, x)]
    <3>1. Len(ruler) \in DOMAIN ruler
      BY <2>1, <2>3
    <3> QED
      BY <1>3, <2>1, <2>3, <3>1, Replaced
  <2> QED
    BY <1>1, <2>2, <2>3
<1>5. view' \in View
  <2> DEFINE w == Window(view) \div Pixels
  <2>1. w \in Int
    BY WindowType DEF MapInv
  <2> HIDE DEF w
  <2>2. drag # None => drag.pan0 - (x - drag.x0) * w \in Int
    BY <1>2, <2>1 DEF MapInv, Pressed
  <2> QED
    BY <1>1, <2>2 DEF MapInv, View, w
<1>6. UNCHANGED <<cur, shown, sel, follow, buttons, drag, down, measuring, fingers, gesture>>
  BY DEF MouseMove, touch
<1>7. TypeOK'
  BY <1>5, <1>6 DEF MapInv, TypeOK, View
<1>8. Sound(sel, follow)'
  BY <1>6 DEF MapInv, Sound
<1> QED
  BY <1>1, <1>2, <1>4, <1>5, <1>6, <1>7, <1>8 DEF MapInv

\* The release handler may drop the last point of a measurement.
LEMMA FrontType ==
  ASSUME NEW s \in Seq(Int), Len(s) > 2
  PROVE  Front(s) \in Seq(Int) /\ Len(Front(s)) = Len(s) - 1 /\ Len(s) - 1 # 1
<1> DEFINE n == Len(s) - 1
<1>1. n \in Int /\ n > 1 /\ \A i \in 1..n : s[i] \in Int
  OBVIOUS
<1>2. Front(s) = SubSeq(s, 1, n)
  BY DEF Front
<1> HIDE DEF n
<1>3. SubSeq(s, 1, n) \in Seq(Int) /\ Len(SubSeq(s, 1, n)) = n
  BY <1>1, SubSeqProperties
<1> QED
  BY <1>1, <1>2, <1>3 DEF n

LEMMA MouseUpKeeps ==
  ASSUME MapInv, NEW b \in {"left", "right"}, MouseUp(b)
  PROVE  MapInv'
<1>1. buttons' = buttons \ {b} /\ b \in buttons
  BY DEF MouseUp
<1>2. UNCHANGED <<cur, shown, view, at, fingers, gesture>>
  BY DEF MouseUp, touch
<1>3. CASE measuring
  <2>1. /\ measuring' = FALSE
        /\ ruler' = ruler \/ (Len(ruler) > 2 /\ ruler' = Front(ruler)) \/ ruler' = <<>>
        /\ UNCHANGED <<drag, down, sel, follow>>
    BY <1>3 DEF MouseUp
  <2>2. ruler' \in Seq(Int) /\ Len(ruler') # 1
    <3>1. ruler \in Seq(Int) /\ Len(ruler) # 1
      BY DEF MapInv
    <3>2. CASE Len(ruler) > 2 /\ ruler' = Front(ruler)
      BY <3>1, <3>2, FrontType
    <3>3. CASE ruler' = ruler
      BY <3>1, <3>3
    <3>4. CASE ruler' = <<>>
      BY <3>4
    <3> QED
      BY <2>1, <3>2, <3>3, <3>4
  <2>3. Sound(sel, follow)'
    BY <2>1 DEF MapInv, Sound
  <2>4. TypeOK'
    BY <1>1, <1>2, <2>1 DEF MapInv, TypeOK
  <2>5. drag' # None => buttons' # {}
    <3>1. drag # None => buttons = {"left", "right"}
      BY <1>3, Zenon DEF MapInv
    <3> QED
      BY <1>1, <2>1, <3>1
  <2> QED
    BY <1>1, <1>2, <2>1, <2>2, <2>3, <2>4, <2>5 DEF MapInv
<1>4. CASE ~measuring
  <2>1. drag' = None /\ down' = None /\ UNCHANGED measuring
    BY <1>4 DEF MouseUp
  <2>2. /\ ruler' \in {<<>>, ruler}
        /\ Sound(sel, follow)'
    <3>1. CASE UNCHANGED <<ruler, sel, follow>>
      BY <3>1 DEF MapInv, Sound
    <3>2. CASE ~UNCHANGED <<ruler, sel, follow>>
      <4>1. PICK e : /\ ruler' = IF e = None THEN <<>> ELSE ruler
                     /\ Select(Clicked(e, sel, follow))
        BY <1>4, <3>2 DEF MouseUp
      <4> DEFINE r == Clicked(e, sel, follow)
      <4>2. Sound(r.sel, r.follow)
        BY ClickedSound DEF MapInv
      <4>3. sel' = r.sel /\ follow' = r.follow
        BY <4>1 DEF Select
      <4> HIDE DEF r
      <4> QED
        BY <4>1, <4>2, <4>3 DEF Sound
    <3> QED
      BY <3>1, <3>2
  <2>3. TypeOK'
    BY <1>1, <1>2, <2>2 DEF MapInv, TypeOK, Sound
  <2>4. ruler' \in Seq(Int) /\ Len(ruler') # 1
    <3>1. CASE ruler' = ruler
      BY <3>1 DEF MapInv
    <3>2. CASE ruler' = <<>>
      BY <3>2
    <3> QED
      BY <2>2, <3>1, <3>2
  <2>5. measuring' = FALSE
    BY <1>4, <2>1, Zenon DEF MapInv
  <2> QED
    BY <1>1, <1>2, <2>1, <2>2, <2>3, <2>4, <2>5 DEF MapInv
<1> QED
  BY <1>3, <1>4

LEMMA WheelKeeps ==
  ASSUME MapInv, NEW factor \in {0, 2}, Wheel(factor)
  PROVE  MapInv'
<1>1. ZoomedBy(view.zoom, factor) \in Zooms
  <2>1. view.zoom \in Zooms
    BY DEF MapInv, View
  <2>2. ZoomedBy(view.zoom, 0) \in Zooms /\ ZoomedBy(view.zoom, 2) \in Zooms
    BY <2>1, ZoomSteps, Zenon
  <2> QED
    BY <2>2
<1>2. view' \in View
  BY <1>1, ZoomType DEF Wheel, MapInv
<1>3. UNCHANGED <<cur, shown, sel, follow, mouse, rule, touch>>
  BY DEF Wheel
<1>4. TypeOK' /\ Sound(sel, follow)'
  BY <1>2, <1>3 DEF MapInv, TypeOK, View, Sound, mouse, touch
<1>5. UNCHANGED <<cur, shown, at, buttons, drag, down, ruler, measuring, fingers, gesture>>
  BY <1>3 DEF mouse, rule, touch
<1> QED
  BY <1>2, <1>4, <1>5 DEF MapInv

-----------------------------------------------------------------------------
(* Touch *)

\* The distance of two fingers is a whole number.
LEMMA DistType ==
  ASSUME fingers' \in Seq(Int), Len(fingers') = 2
  PROVE  Dist \in Int
<1>1. fingers'[1] \in Int /\ fingers'[2] \in Int
  <2>1. \A s \in Seq(Int) : Len(s) = 2 => s[1] \in Int /\ s[2] \in Int
    OBVIOUS
  <2> QED
    BY <2>1
<1>2. \A n \in Int : Abs(n) \in Int
  BY DEF Abs
<1>3. fingers'[1] - fingers'[2] \in Int
  BY <1>1
<1> QED
  BY <1>2, <1>3 DEF Dist

LEMMA TouchStartKeeps ==
  ASSUME MapInv, TouchStart
  PROVE  MapInv'
<1>1. PICK x \in Cursor : fingers' = Append(fingers, x)
  BY DEF TouchStart
<1>2. x \in Int
  BY <1>1, CursorsAreInt, Zenon
<1>3. /\ fingers \in Seq(Int) /\ Len(fingers) \in Nat /\ Len(fingers) < 2
      /\ fingers' \in Seq(Int) /\ Len(fingers') = Len(fingers) + 1
      /\ Len(fingers') \in 1..2 /\ fingers' # <<>>
  BY <1>1, <1>2 DEF MapInv, TouchStart
<1>4. UNCHANGED <<cur, shown, sel, mouse, rule>>
  BY DEF TouchStart
<1>5. CASE /\ Len(fingers') = 1
           /\ TakeCamera
           /\ gesture' = [mode |-> "pan", x0 |-> fingers'[1], pan0 |-> view'.pan,
                          down |-> fingers'[1], dist |-> 0, zoom0 |-> 0]
  <2>1. view' \in View /\ Sound(sel, follow)'
    BY <1>4, <1>5, TakenSound DEF Sound
  <2>2. gesture' \in Touching /\ gesture'.mode = "pan"
    <3>1. fingers'[1] \in Int
      BY <1>3
    <3> QED
      BY <1>5, <2>1, <3>1 DEF Touching, View
  <2>3. gesture' # None
    BY <2>2, NoneAssumption
  <2>4. TypeOK'
    BY <1>3, <1>4, <2>1 DEF MapInv, TypeOK, View, mouse
  <2> QED
    BY <1>3, <1>4, <1>5, <2>1, <2>2, <2>3, <2>4 DEF MapInv, mouse, rule
<1>6. CASE /\ Len(fingers') = 2
           /\ gesture' = [mode |-> "pinch", x0 |-> 0, pan0 |-> 0, down |-> 0,
                          dist |-> Dist, zoom0 |-> view.zoom]
           /\ UNCHANGED <<view, follow>>
  <2>1. view' \in View /\ view.zoom \in Zooms /\ Sound(sel, follow)'
    BY <1>4, <1>6 DEF MapInv, View, Sound
  <2>2. gesture' \in Touching /\ gesture'.mode = "pinch" /\ gesture'.zoom0 \in Zooms
    <3>1. Dist \in Int
      BY <1>3, <1>6, DistType
    <3>2. view.zoom \in Int
      <4>1. \A z \in Zooms : z \in Int
        BY ZoomsAreInt, Zenon
      <4>2. view.zoom \in Zooms
        BY <2>1
      <4> QED
        BY <4>1, <4>2
    <3> QED
      BY <1>6, <2>1, <3>1, <3>2 DEF Touching
  <2>3. gesture' # None
    BY <2>2, NoneAssumption
  <2>4. TypeOK'
    BY <1>3, <1>4, <2>1 DEF MapInv, TypeOK, View, mouse
  <2> QED
    BY <1>3, <1>4, <2>1, <2>2, <2>3, <2>4 DEF MapInv, mouse, rule
<1> QED
  BY <1>5, <1>6 DEF TouchStart

LEMMA TouchMoveKeeps ==
  ASSUME MapInv, TouchMove
  PROVE  MapInv'
<1>1. PICK n \in DOMAIN fingers, x \in Cursor : fingers' = [fingers EXCEPT ![n] = x]
  BY DEF TouchMove
<1>2. x \in Int
  BY <1>1, CursorsAreInt, Zenon
<1>3. fingers \in Seq(Int) /\ fingers' \in Seq(Int) /\ Len(fingers') = Len(fingers)
  BY <1>1, <1>2 DEF MapInv
<1>4. UNCHANGED <<cur, shown, sel, follow, mouse, rule, gesture>> /\ gesture \in Touching
  BY DEF TouchMove, MapInv
<1>5. view' \in View
  <2>1. CASE gesture.mode = "pinch" /\ Len(fingers) = 2
    <3>1. PICK z \in Zooms : ZoomAt((fingers'[1] + fingers'[2]) \div 2, z)
      <4>1. \A z \in Zooms : ZoomedBy(z, 0) \in Zooms /\ ZoomedBy(z, 2) \in Zooms
        BY ZoomSteps, Zenon
      <4>2. gesture.zoom0 \in Zooms
        BY <1>4, <2>1, NoneAssumption DEF MapInv
      <4> QED
        BY <2>1, <4>1, <4>2 DEF TouchMove
    <3>2. (fingers'[1] + fingers'[2]) \div 2 \in Int
      <4>1. fingers'[1] \in Int /\ fingers'[2] \in Int
        BY <1>3, <2>1
      <4> QED
        BY <4>1
    <3> QED
      BY <3>1, <3>2, ZoomType DEF MapInv
  <2>2. CASE gesture.mode = "pan" /\ Len(fingers) = 1
    <3> DEFINE w == Window(view) \div Pixels
    <3>1. w \in Int
      BY WindowType DEF MapInv
    <3>2. fingers'[1] \in Int /\ gesture.x0 \in Int /\ gesture.pan0 \in Int
      <4>1. fingers'[1] \in Int
        BY <1>3, <2>2
      <4> QED
        BY <1>4, <4>1 DEF Touching
    <3>3. view' = [view EXCEPT !.pan = gesture.pan0 - (fingers'[1] - gesture.x0) * w]
      BY <2>2 DEF TouchMove
    <3> HIDE DEF w
    <3>4. gesture.pan0 - (fingers'[1] - gesture.x0) * w \in Int
      BY <3>1, <3>2
    <3> QED
      BY <3>3, <3>4 DEF MapInv, View
  <2>3. CASE UNCHANGED view
    BY <2>3 DEF MapInv
  <2> QED
    BY <2>1, <2>2, <2>3 DEF TouchMove
<1>6. TypeOK' /\ Sound(sel, follow)'
  BY <1>3, <1>4, <1>5 DEF MapInv, TypeOK, View, Sound, mouse
<1>7. fingers' # <<>> /\ gesture # None
  BY <1>1, <1>3, <1>4, NoneAssumption DEF MapInv
<1> QED
  BY <1>3, <1>4, <1>5, <1>6, <1>7 DEF MapInv, mouse, rule

\* A finger goes: the others stay in their order.
LEMMA RemoveAtType ==
  ASSUME NEW s \in Seq(Int), NEW n \in 1..Len(s)
  PROVE  RemoveAt(s, n) \in Seq(Int) /\ Len(RemoveAt(s, n)) = Len(s) - 1
<1>1. Len(s) \in Nat /\ n \in Int /\ \A i \in 1..Len(s) : s[i] \in Int
  OBVIOUS
<1>2. SubSeq(s, 1, n - 1) \in Seq(Int) /\ Len(SubSeq(s, 1, n - 1)) = n - 1
  <2>1. \A i \in 1..n - 1 : s[i] \in Int
    BY <1>1
  <2>2. n - 1 \in Int
    BY <1>1
  <2> QED
    BY <1>1, <2>1, <2>2, SubSeqProperties
<1>3. SubSeq(s, n + 1, Len(s)) \in Seq(Int) /\ Len(SubSeq(s, n + 1, Len(s))) = Len(s) - n
  <2>1. \A i \in n + 1..Len(s) : s[i] \in Int
    BY <1>1
  <2>2. n + 1 \in Int
    BY <1>1
  <2> QED
    BY <1>1, <2>1, <2>2, SubSeqProperties
<1> DEFINE a == SubSeq(s, 1, n - 1)
           b == SubSeq(s, n + 1, Len(s))
<1>4. RemoveAt(s, n) = a \o b
  BY DEF RemoveAt
<1> HIDE DEF a, b
<1>5. a \o b \in Seq(Int) /\ Len(a \o b) = Len(a) + Len(b)
  BY <1>2, <1>3, ConcatProperties DEF a, b
<1>6. n - 1 + (Len(s) - n) = Len(s) - 1
  BY <1>1
<1> QED
  BY <1>2, <1>3, <1>4, <1>5, <1>6 DEF a, b

LEMMA FingerLifted ==
  ASSUME MapInv, TouchEnd
  PROVE  MapInv'
<1>1. PICK n \in DOMAIN fingers :
        /\ fingers' = RemoveAt(fingers, n)
        /\ gesture' = IF fingers' = <<>> THEN None ELSE gesture
        /\ \/ UNCHANGED <<sel, follow>>
           \/ \E e : Select(Clicked(e, sel, follow))
  BY DEF TouchEnd
<1>2. /\ fingers \in Seq(Int) /\ Len(fingers) \in 1..2
      /\ fingers' \in Seq(Int) /\ Len(fingers') = Len(fingers) - 1
  <2>1. fingers \in Seq(Int) /\ Len(fingers) \in Nat /\ Len(fingers) <= 2
    BY DEF MapInv, TypeOK
  <2>2. n \in 1..Len(fingers)
    BY <1>1, <2>1
  <2>3. Len(fingers) \in 1..2
    <3>1. \A k \in Nat : \A i \in 1..k : k <= 2 => k \in 1..2
      OBVIOUS
    <3> QED
      BY <2>1, <2>2, <3>1
  <2> QED
    BY <1>1, <2>1, <2>2, <2>3, RemoveAtType
<1>3. UNCHANGED <<cur, shown, view, mouse, rule>>
  BY DEF TouchEnd
<1>4. Sound(sel, follow)'
  <2>1. CASE UNCHANGED <<sel, follow>>
    BY <2>1 DEF MapInv, Sound
  <2>2. CASE \E e : Select(Clicked(e, sel, follow))
    <3>1. PICK e : Select(Clicked(e, sel, follow))
      BY <2>2
    <3> DEFINE r == Clicked(e, sel, follow)
    <3>2. Sound(r.sel, r.follow)
      BY ClickedSound DEF MapInv
    <3>3. sel' = r.sel /\ follow' = r.follow
      BY <3>1 DEF Select
    <3> HIDE DEF r
    <3> QED
      BY <3>2, <3>3 DEF Sound
  <2> QED
    BY <1>1, <2>1, <2>2
<1>5. TypeOK'
  BY <1>2, <1>3, <1>4 DEF MapInv, TypeOK, Sound, mouse
<1>6. fingers' # <<>> => Len(fingers) = 2 /\ gesture' = gesture /\ gesture # None
  BY <1>1, <1>2 DEF MapInv
<1>7. gesture' # None => gesture'.mode = "pinch" /\ gesture'.zoom0 \in Zooms
  <2>1. CASE fingers' = <<>>
    BY <1>1, <2>1
  <2>2. CASE fingers' # <<>>
    <3>1. gesture.mode # "pan" /\ gesture.mode \in {"pan", "pinch"}
      <4>1. gesture \in Touching /\ (gesture.mode = "pan" => Len(fingers) = 1)
        BY <1>6, <2>2 DEF MapInv
      <4>2. Len(fingers) # 1
        BY <1>6, <2>2
      <4> QED
        BY <4>1, <4>2 DEF Touching
    <3> QED
      BY <1>6, <2>2, <3>1 DEF MapInv
  <2> QED
    BY <2>1, <2>2
<1> QED
  BY <1>1, <1>2, <1>3, <1>4, <1>5, <1>6, <1>7 DEF MapInv, mouse, rule

-----------------------------------------------------------------------------
(* The page *)

LEMMA FrameKeeps ==
  ASSUME MapInv, NewFrame \/ Draw
  PROVE  MapInv'
<1>1. /\ cur' \in DOMAIN Frames /\ shown'.view \in View
      /\ UNCHANGED <<view, sel, follow, board, mouse, rule, touch>>
  BY FollowType DEF NewFrame, Draw, MapInv
<1>2. TypeOK' /\ Sound(sel, follow)'
  BY <1>1 DEF MapInv, TypeOK, Sound, View, mouse, touch
<1>3. UNCHANGED <<view, at, buttons, drag, down, ruler, measuring, fingers, gesture>>
  BY <1>1 DEF mouse, rule, touch
<1> QED
  BY <1>1, <1>2, <1>3 DEF MapInv

LEMMA EscapeKeeps ==
  ASSUME MapInv, Escape
  PROVE  MapInv'
<1> DEFINE r == Closed(sel, follow)
<1>1. ruler' = <<>> /\ UNCHANGED <<cur, shown, view, mouse, measuring, touch>>
  BY DEF Escape
<1>2. Sound(r.sel, r.follow)
  BY ClosedSound DEF MapInv
<1>3. (sel' = r.sel /\ follow' = r.follow) \/ UNCHANGED <<sel, follow>>
  BY DEF Escape, Select
<1> HIDE DEF r
<1>4. Sound(sel, follow)'
  BY <1>2, <1>3 DEF MapInv, Sound
<1>5. TypeOK'
  BY <1>1, <1>4 DEF MapInv, TypeOK, Sound, mouse, touch
<1>6. ruler' \in Seq(Int) /\ Len(ruler') # 1
  BY <1>1
<1> QED
  BY <1>1, <1>4, <1>5, <1>6 DEF MapInv, mouse, touch

LEMMA FitBoardKeeps ==
  ASSUME MapInv, Fit \/ ToggleBoard
  PROVE  MapInv'
<1>1. HomeView \in View
  BY MapViewAssumption DEF HomeView, View
<1>2. view' \in View /\ UNCHANGED <<cur, shown, sel, follow, mouse, rule, touch>>
  BY <1>1 DEF Fit, ToggleBoard, MapInv
<1>3. TypeOK' /\ Sound(sel, follow)'
  BY <1>2 DEF MapInv, TypeOK, Sound, View, mouse, touch
<1>4. UNCHANGED <<cur, shown, at, buttons, drag, down, ruler, measuring, fingers, gesture>>
  BY <1>2 DEF mouse, rule, touch
<1> QED
  BY <1>2, <1>3, <1>4 DEF MapInv

LEMMA PickKeeps ==
  ASSUME MapInv, NEW p \in Players, SearchPick(p) \/ FeedPick(p) \/ BoardPick(p)
  PROVE  MapInv'
<1> DEFINE a == WithPlayer(sel, follow, p)
           b == WithVehicle(a.sel, a.follow, None)
           c == [sel |-> a.sel, follow |-> [player |-> p, vehicle |-> None]]
<1>1. Picked(b) \/ Picked(c)
  BY DEF SearchPick, FeedPick, BoardPick
<1>2. Sound(b.sel, b.follow)
  BY PlayerAloneSound DEF MapInv
<1>3. Sound(c.sel, c.follow)
  <2>1. Sound(a.sel, a.follow)
    BY PlayerSound DEF MapInv
  <2>2. a.sel.player = p /\ a.sel.info = None /\ p # None
    BY NoneAssumption DEF WithPlayer, MapInv, Sound, Entities
  <2> HIDE DEF a
  <2> QED
    BY <2>1, <2>2 DEF Sound
<1> HIDE DEF a, b, c
<1> QED
  BY <1>1, <1>2, <1>3, PickedKeeps

LEMMA FollowKeeps ==
  ASSUME MapInv, FollowPlayer \/ FollowVehicle
  PROVE  MapInv'
<1>1. PICK r : Picked(r) /\ Sound(r.sel, r.follow)
  <2>1. CASE FollowPlayer
    <3> DEFINE p == IF follow.player = sel.player THEN None ELSE sel.player
               r == [sel |-> sel, follow |-> [player |-> p,
                     vehicle |-> IF p # None THEN None ELSE follow.vehicle]]
    <3>1. Picked(r) /\ sel.player \in Players
      BY <2>1 DEF FollowPlayer, InSnap
    <3>2. sel.player # None
      BY <3>1, NoneAssumption DEF Entities
    <3>3. Sound(r.sel, r.follow)
      BY <3>1, <3>2 DEF MapInv, Sound
    <3> QED
      BY <3>1, <3>3
  <2>2. CASE FollowVehicle
    <3> DEFINE v == IF follow.vehicle = sel.vehicle THEN None ELSE sel.vehicle
               r == [sel |-> sel, follow |-> [vehicle |-> v,
                     player |-> IF v # None THEN None ELSE follow.player]]
    <3>1. Picked(r) /\ sel.vehicle \in Vehicles
      BY <2>2 DEF FollowVehicle, InSnap
    <3>2. sel.vehicle # None
      BY <3>1, NoneAssumption DEF Entities
    <3>3. Sound(r.sel, r.follow)
      BY <3>1, <3>2 DEF MapInv, Sound
    <3> QED
      BY <3>1, <3>3
  <2> QED
    BY <2>1, <2>2
<1> QED
  BY <1>1, PickedKeeps

LEMMA ClosePanelKeeps ==
  ASSUME MapInv, ClosePanel
  PROVE  MapInv'
<1>1. Sound(sel, follow)
  BY DEF MapInv
<1>2. CASE Picked(WithPlayer(sel, follow, None))
  BY <1>1, <1>2, PlayerSound, PickedKeeps
<1>3. CASE Picked(WithVehicle(sel, follow, None))
  BY <1>1, <1>3, VehicleSound, PickedKeeps
<1>4. CASE Picked(WithInfo(sel, follow, None))
  BY <1>1, <1>4, InfoSound, PickedKeeps
<1> QED
  BY <1>2, <1>3, <1>4 DEF ClosePanel

-----------------------------------------------------------------------------
LEMMA NextMap == MapInv /\ [Next]_vars => MapInv'
<1> SUFFICES ASSUME MapInv, [Next]_vars PROVE MapInv'
  OBVIOUS
<1>1. CASE NewFrame \/ Draw
  BY <1>1, FrameKeeps
<1>2. CASE Mouse
  BY <1>2, MeasureDownKeeps, DragDownKeeps, MouseMoveKeeps, MouseUpKeeps, WheelKeeps DEF Mouse
<1>3. CASE Touch
  BY <1>3, TouchStartKeeps, TouchMoveKeeps, FingerLifted DEF Touch
<1>4. CASE Page
  BY <1>4, EscapeKeeps, FitBoardKeeps, PickKeeps, FollowKeeps, ClosePanelKeeps DEF Page, Pick
<1>5. CASE UNCHANGED vars
  <2>1. TypeOK' /\ Sound(sel, follow)'
    BY <1>5 DEF MapInv, TypeOK, Sound, vars, mouse, touch
  <2> QED
    BY <1>5, <2>1 DEF MapInv, vars, mouse, rule, touch
<1> QED
  BY <1>1, <1>2, <1>3, <1>4, <1>5 DEF Next

\* The invariant holds of the map in every behaviour.
LEMMA MapInvariant == Spec => []MapInv
BY InitMap, NextMap, PTL DEF Spec

\* Whatever is opened, closed, searched or clicked, in any order: the camera
\* follows at most one thing, one whose panel is open, and the info panel is
\* never open beside another.
THEOREM CameraKeepsPanel == Spec => []CameraHasPanel
<1>1. MapInv => CameraHasPanel
  BY DEF MapInv, CameraHasPanel, FollowHasPanel, InfoStandsAlone, Following, Sound
<1> QED
  BY <1>1, MapInvariant, PTL

\* However buttons and fingers come and go: with the last of them every drag,
\* measurement and touch has ended, and a measurement has a leg.
THEOREM HandsLetGo == Spec => []GesturesEnd
<1>1. MapInv => GesturesEnd
  BY DEF MapInv, GesturesEnd
<1> QED
  BY <1>1, MapInvariant, PTL

-----------------------------------------------------------------------------
(***************************************************************************)
(* The measurement.                                                        *)
(***************************************************************************)
\* Without its last point, a measurement of three points or more has some.
LEMMA FrontLeft ==
  ASSUME NEW s \in Seq(Int), Len(s) > 2
  PROVE  Front(s) # <<>>
<1>1. Front(s) \in Seq(Int) /\ Len(Front(s)) > 1
  BY FrontType
<1> QED
  BY <1>1

\* Only a click on bare map drops a measurement on release.
LEMMA ReleaseKeepsRuler ==
  ASSUME MapInv, NEW b, MouseUp(b), Len(ruler) > 1, ruler[1] # ruler[2], ruler' = <<>>
  PROVE  ~measuring /\ down # None /\ sel' = [player |-> None, vehicle |-> None, info |-> None]
<1>1. ruler \in Seq(Int) /\ Len(ruler) \in Nat /\ ruler # <<>>
  BY DEF MapInv
<1>2. ~measuring
  <2> SUFFICES ASSUME measuring PROVE FALSE
    OBVIOUS
  <2> DEFINE n == Len(ruler)
             flat == n > 0 /\ ruler[n] = ruler[n - 1]
  <2>1. ruler' = IF ~flat THEN ruler ELSE IF n > 2 THEN Front(ruler) ELSE <<>>
    BY DEF MouseUp
  <2>2. flat => n > 2
    <3>1. n = 2 => ruler[n] # ruler[n - 1]
      OBVIOUS
    <3> QED
      BY <1>1, <3>1
  <2>3. n > 2 => Front(ruler) # <<>>
    BY <1>1, FrontLeft
  <2> QED
    BY <1>1, <2>1, <2>2, <2>3
<1>3. PICK e : /\ down # None
               /\ ruler' = IF e = None THEN <<>> ELSE ruler
               /\ Select(Clicked(e, sel, follow))
  BY <1>1, <1>2 DEF MouseUp
<1>4. sel' = Closed(sel, follow).sel
  BY <1>1, <1>3, NoneAssumption DEF Select, Clicked, Entities
<1>5. sel = [player |-> sel.player, vehicle |-> sel.vehicle, info |-> sel.info]
  BY DEF MapInv, Sound
<1>6. Closed(sel, follow).sel = [player |-> None, vehicle |-> None, info |-> None]
  BY <1>5 DEF Closed, WithVehicle, WithPlayer, WithInfo
<1> QED
  BY <1>2, <1>3, <1>4, <1>6

\* The other handlers of the mouse lengthen it, move its end or leave it.
LEMMA HandlersKeepRuler ==
  ASSUME MapInv, ruler # <<>>,
         \/ \E b \in {"left", "right"} : MeasureDown(b)
         \/ DragDown \/ MouseMove \/ Wheel(2) \/ Wheel(0)
  PROVE  ruler' # <<>>
<1>1. ruler \in Seq(Int)
  BY DEF MapInv
<1>2. CASE \E b \in {"left", "right"} : MeasureDown(b)
  <2> DEFINE p == ScreenToWorld(view, at)
  <2>1. ruler' = Append(ruler, p) \/ ruler' = <<p, p>>
    BY <1>2 DEF MeasureDown
  <2>2. p \in Int
    BY PlaceType DEF MapInv
  <2> HIDE DEF p
  <2>3. Len(Append(ruler, p)) = Len(ruler) + 1 /\ Len(ruler) \in Nat
    BY <1>1, <2>2
  <2>4. Append(ruler, p) # <<>> /\ <<p, p>> # <<>>
    BY <1>1, <2>2, <2>3
  <2> QED
    BY <2>1, <2>4
<1>3. CASE MouseMove
  <2>1. \/ ruler' = ruler
        \/ \E x \in Cursor : ruler' = [ruler EXCEPT ![Len(ruler)] = ScreenToWorld(view, x)]
    BY <1>3 DEF MouseMove
  <2>2. ASSUME NEW x \in Cursor, ruler' = [ruler EXCEPT ![Len(ruler)] = ScreenToWorld(view, x)]
        PROVE  ruler' # <<>>
    <3>1. DOMAIN ruler' = DOMAIN ruler /\ DOMAIN ruler # {}
      BY <1>1, <2>2
    <3> QED
      BY <3>1
  <2> QED
    BY <2>1, <2>2
<1>4. CASE DragDown \/ Wheel(2) \/ Wheel(0)
  BY <1>4 DEF DragDown, Wheel, rule
<1> QED
  BY <1>2, <1>3, <1>4

\* Panning, zooming, selecting, touching and measuring on never drop a
\* measurement that has a length.
THEOREM MeasurementHolds == Spec => MeasurementStays
<1> DEFINE Dropped == Len(ruler) > 1 /\ ruler[1] # ruler[2] /\ ruler' = <<>>
           BareClick == ~measuring /\ down # None /\ sel' = [player |-> None, vehicle |-> None,
                                                           info |-> None]
<1>1. MapInv /\ [Next]_vars => (Dropped => Escape \/ BareClick)
  <2> SUFFICES ASSUME MapInv, [Next]_vars, Dropped PROVE Escape \/ BareClick
    OBVIOUS
  <2>1. ruler # <<>> /\ ruler' # ruler
    BY DEF MapInv
  <2>2. CASE NewFrame \/ Draw \/ UNCHANGED vars
    BY <2>1, <2>2 DEF NewFrame, Draw, vars, rule
  <2>3. CASE Mouse
    <3>1. CASE MouseUp("left") \/ MouseUp("right")
      BY <3>1, ReleaseKeepsRuler
    <3>2. CASE ~(MouseUp("left") \/ MouseUp("right"))
      BY <2>1, <2>3, <3>2, HandlersKeepRuler DEF Mouse
    <3> QED
      BY <3>1, <3>2
  <2>4. CASE Touch
    BY <2>1, <2>4 DEF Touch, TouchStart, TouchMove, TouchEnd, rule
  <2>5. CASE Page
    <3>1. Escape \/ UNCHANGED rule
      BY <2>5 DEF Page, Fit, ToggleBoard, Pick, SearchPick, FeedPick, BoardPick, FollowPlayer,
                  FollowVehicle, ClosePanel, Picked
    <3> QED
      BY <2>1, <3>1 DEF rule
  <2> QED
    BY <2>2, <2>3, <2>4, <2>5 DEF Next
<1> QED
  BY <1>1, MapInvariant, PTL DEF Spec, MeasurementStays

-----------------------------------------------------------------------------
(***************************************************************************)
(* The picture under the hand.  The points a zoom may keep are those the   *)
(* hands can point at, and fingers only come on a touch screen.            *)
(***************************************************************************)
HandInv ==
  /\ at \in Cursor
  /\ \A n \in DOMAIN fingers : fingers[n] \in Cursor
  /\ fingers # <<>> => device = "touch"

\* Lifting a finger leaves fingers that were there.
LEMMA RemoveAtLeaves ==
  ASSUME NEW s \in Seq(Int), NEW n \in 1..Len(s), NEW i \in DOMAIN RemoveAt(s, n)
  PROVE  \E j \in DOMAIN s : RemoveAt(s, n)[i] = s[j]
<1>1. Len(s) \in Nat /\ n \in Int
  OBVIOUS
<1> DEFINE a == SubSeq(s, 1, n - 1)
           b == SubSeq(s, n + 1, Len(s))
<1>2. a \in Seq(Int) /\ Len(a) = n - 1 /\ \A k \in 1..n - 1 : a[k] = s[k]
  <2>1. \A k \in 1..n - 1 : s[k] \in Int
    BY <1>1
  <2> QED
    BY <1>1, <2>1, SubSeqProperties
<1>3. b \in Seq(Int) /\ Len(b) = Len(s) - n /\ \A k \in 1..Len(s) - n : b[k] = s[n + k]
  <2>1. \A k \in n + 1..Len(s) : s[k] \in Int
    BY <1>1
  <2> QED
    BY <1>1, <2>1, SubSeqProperties
<1>4. RemoveAt(s, n) = a \o b
  BY DEF RemoveAt
<1> HIDE DEF a, b
<1>5. /\ a \o b \in Seq(Int) /\ Len(a \o b) = Len(a) + Len(b)
      /\ \A k \in 1..Len(a) + Len(b) : (a \o b)[k] = IF k <= Len(a) THEN a[k] ELSE b[k - Len(a)]
  BY <1>2, <1>3, ConcatProperties
<1>6. i \in 1..Len(s) - 1
  BY <1>1, <1>2, <1>3, <1>4, <1>5
<1>7. CASE i <= n - 1
  <2>1. i \in 1..n - 1 /\ i \in 1..Len(s)
    BY <1>1, <1>7, <1>6
  <2>2. RemoveAt(s, n)[i] = s[i]
    BY <1>1, <1>2, <1>3, <1>4, <1>5, <2>1
  <2> QED
    BY <2>1, <2>2
<1>8. CASE ~(i <= n - 1)
  <2> DEFINE j == i - (n - 1)
  <2>1. j \in 1..Len(s) - n /\ n + j = i + 1 /\ i + 1 \in 1..Len(s)
    BY <1>1, <1>8, <1>6
  <2>2. RemoveAt(s, n)[i] = b[j]
    <3>1. i \in 1..Len(a) + Len(b) /\ ~(i <= Len(a)) /\ i - Len(a) = j
      BY <1>1, <1>2, <1>3, <1>6, <1>8
    <3> HIDE DEF j
    <3> QED
      BY <1>4, <1>5, <3>1
  <2> HIDE DEF j
  <2>3. RemoveAt(s, n)[i] = s[i + 1] /\ i + 1 \in DOMAIN s
    BY <1>3, <2>1, <2>2
  <2> QED
    BY <2>3
<1> QED
  BY <1>7, <1>8

LEMMA HandStep == MapInv /\ HandInv /\ [Next]_vars => HandInv'
<1> SUFFICES ASSUME MapInv, HandInv, [Next]_vars PROVE HandInv'
  OBVIOUS
<1>1. CASE UNCHANGED <<device, at, fingers>>
  BY <1>1 DEF HandInv
<1>2. CASE MouseMove
  <2>1. at' \in Cursor /\ UNCHANGED device /\ UNCHANGED fingers
    BY <1>2 DEF MouseMove, touch
  <2> QED
    BY <2>1 DEF HandInv
<1>3. fingers \in Seq(Int)
  BY DEF MapInv
<1>4. CASE TouchStart
  <2>1. PICK x \in Cursor : fingers' = Append(fingers, x)
    BY <1>4 DEF TouchStart
  <2>2. x \in Int
    BY <2>1, CursorsAreInt, Zenon
  <2>3. \A n \in DOMAIN fingers' : fingers'[n] = x \/ (n \in DOMAIN fingers /\ fingers'[n] = fingers[n])
    BY <1>3, <2>1, <2>2
  <2>4. \A n \in DOMAIN fingers' : fingers'[n] \in Cursor
    BY <2>1, <2>3 DEF HandInv
  <2>5. device' = "touch" /\ at' = at
    BY <1>4 DEF TouchStart, mouse
  <2> QED
    BY <2>4, <2>5 DEF HandInv
<1>5. CASE TouchMove
  <2>1. PICK n \in DOMAIN fingers, x \in Cursor : fingers' = [fingers EXCEPT ![n] = x]
    BY <1>5 DEF TouchMove
  <2>2. \A k \in DOMAIN fingers' : fingers'[k] \in Cursor
    BY <2>1 DEF HandInv
  <2>3. fingers # <<>>
    BY <1>3, <2>1
  <2>4. UNCHANGED <<device, at>>
    BY <1>5 DEF TouchMove, mouse
  <2> QED
    BY <2>2, <2>3, <2>4 DEF HandInv
<1>6. CASE TouchEnd
  <2>1. PICK n \in DOMAIN fingers : fingers' = RemoveAt(fingers, n)
    BY <1>6 DEF TouchEnd
  <2>2. n \in 1..Len(fingers) /\ fingers # <<>>
    BY <1>3, <2>1
  <2>3. \A k \in DOMAIN fingers' : \E j \in DOMAIN fingers : fingers'[k] = fingers[j]
    BY <1>3, <2>1, <2>2, RemoveAtLeaves
  <2>4. \A k \in DOMAIN fingers' : fingers'[k] \in Cursor
    BY <2>3 DEF HandInv
  <2>5. UNCHANGED <<device, at>>
    BY <1>6 DEF TouchEnd, mouse
  <2> QED
    BY <2>2, <2>4, <2>5 DEF HandInv
<1> QED
  BY <1>1, <1>2, <1>4, <1>5, <1>6
     DEF Next, NewFrame, Draw, Mouse, MeasureDown, DragDown, MouseUp, Wheel, Touch, Page, Escape, Fit,
         ToggleBoard, Pick, SearchPick, FeedPick, BoardPick, FollowPlayer, FollowVehicle, ClosePanel,
         Picked, vars, mouse, touch

LEMMA HandInvariant == Spec => [](MapInv /\ HandInv)
<1>1. Init => HandInv
  BY DEF Init, HandInv
<1> QED
  BY <1>1, InitMap, NextMap, HandStep, PTL DEF Spec

\* The camera moved by a zoom shows at x what it showed there before.
LEMMA ZoomKeepsPlace ==
  ASSUME view \in View, NEW x \in Int, NEW z \in Zooms, ~Following, ZoomAt(x, z)
  PROVE  ScreenToWorld(view', x) = ScreenToWorld(view, x)
<1> DEFINE after == [view EXCEPT !.zoom = z]
           h == Window(after) \div 2
           w == Window(after) \div Pixels
           p == ScreenToWorld(view, x)
<1>1. after \in View /\ after.pan = view.pan /\ after.zoom = z
  BY DEF View
<1>2. h \in Int /\ w \in Int /\ p \in Int /\ view.pan \in Int
  BY <1>1, PlaceType, WindowType DEF View
<1>3. ScreenToWorld(after, x) = view.pan - h + x * w
  BY <1>1 DEF ScreenToWorld
<1>4. /\ view'.pan = view.pan + p - ScreenToWorld(after, x)
      /\ view'.zoom = z
  BY <1>1 DEF ZoomAt, View
<1>5. ScreenToWorld(view', x) = view'.pan - h + x * w
  BY <1>1, <1>4 DEF ScreenToWorld, Window
<1> DEFINE q == x * w
<1> HIDE DEF h, w, p
<1>6. q \in Int
  BY <1>2
<1>7. /\ view'.pan = view.pan + p - (view.pan - h + q)
      /\ ScreenToWorld(view', x) = view'.pan - h + q
  BY <1>3, <1>4, <1>5
<1> HIDE DEF q
<1>8. ScreenToWorld(view', x) = p
  BY <1>2, <1>6, <1>7
<1> QED
  BY <1>8 DEF p

LEMMA PressKeeps ==
  ASSUME MapInv, DragDown \/ TouchStart,
         shown = [frame |-> cur, view |-> FollowView(view, follow, cur)]
  PROVE  FollowView(view', follow', cur) = shown.view
<1>1. TakeCamera \/ UNCHANGED <<view, follow>>
  BY DEF DragDown, TouchStart
<1>2. CASE UNCHANGED <<view, follow>>
  BY <1>2
<1>3. CASE view' = shown.view /\ follow' = NoFollow
  BY <1>3 DEF FollowView, NoFollow
<1> QED
  BY <1>1, <1>2, <1>3 DEF TakeCamera

\* Only the wheel and a pinch change the zoom, but for the way home.
LEMMA ZoomKeeps ==
  ASSUME MapInv, HandInv, [Next]_vars, ~Following, view'.zoom # view.zoom, view' # HomeView
  PROVE  \E x \in 0..Pixels : /\ ScreenToWorld(view', x) = ScreenToWorld(view, x)
                              /\ device = "mouse" => x = at
<1>1. Cursor \subseteq 0..Pixels /\ Pixels \in Nat /\ view \in View
  <2>1. Cursor \subseteq 0..Pixels /\ Pixels \in Nat
    BY MapViewAssumption, Zenon
  <2> QED
    BY <2>1 DEF MapInv
<1>2. CASE Wheel(0) \/ Wheel(2)
  <2>1. PICK z \in Zooms : ZoomAt(at, z)
    BY <1>1, <1>2, ZoomSteps DEF Wheel, View
  <2>2. at \in 0..Pixels /\ at \in Int
    BY <1>1 DEF HandInv
  <2> QED
    BY <1>1, <2>1, <2>2, ZoomKeepsPlace
<1>3. CASE TouchMove
  <2>1. PICK n \in DOMAIN fingers, c \in Cursor : fingers' = [fingers EXCEPT ![n] = c]
    BY <1>3 DEF TouchMove
  <2>2. device = "touch"
    <3>1. fingers # <<>>
      BY <2>1 DEF MapInv
    <3> QED
      BY <3>1 DEF HandInv
  <2>3. gesture.mode = "pinch" /\ Len(fingers) = 2
    BY <1>1, <1>3 DEF TouchMove, View
  <2> DEFINE x == (fingers'[1] + fingers'[2]) \div 2
  <2>4. x \in 0..Pixels
    <3>1. fingers'[1] \in 0..Pixels /\ fingers'[2] \in 0..Pixels
      <4>1. DOMAIN fingers = 1..2
        BY <2>3 DEF MapInv
      <4>2. fingers'[1] \in Cursor /\ fingers'[2] \in Cursor
        BY <2>1, <4>1 DEF HandInv
      <4> QED
        BY <1>1, <4>2
    <3>2. \A a, b \in 0..Pixels : (a + b) \div 2 \in 0..Pixels
      BY <1>1
    <3> QED
      BY <3>1, <3>2
  <2>5. PICK z \in Zooms : ZoomAt(x, z)
    <3>1. gesture.zoom0 \in Zooms
      BY <1>3, <2>3 DEF TouchMove, MapInv
    <3>2. ZoomedBy(gesture.zoom0, 0) \in Zooms /\ ZoomedBy(gesture.zoom0, 2) \in Zooms
      BY <3>1, ZoomSteps, Zenon
    <3> QED
      BY <1>3, <2>3, <3>1, <3>2 DEF TouchMove
  <2> HIDE DEF x
  <2>6. ScreenToWorld(view', x) = ScreenToWorld(view, x)
    BY <1>1, <2>4, <2>5, ZoomKeepsPlace
  <2> QED
    BY <2>2, <2>4, <2>6
<1>4. CASE DragDown \/ TouchStart
  BY <1>4 DEF DragDown, TouchStart, TakeCamera
<1>5. CASE MouseMove
  BY <1>1, <1>5 DEF MouseMove, View
<1>6. CASE Fit
  BY <1>6 DEF Fit
<1> QED
  BY <1>2, <1>3, <1>4, <1>5, <1>6
     DEF Next, NewFrame, Draw, Mouse, MeasureDown, MouseUp, Touch, TouchEnd, Page, Escape,
         ToggleBoard, Pick, SearchPick, FeedPick, BoardPick, FollowPlayer, FollowVehicle, ClosePanel,
         Picked, vars

\* A press releases the camera where it was drawn, and wheel and pinch turn
\* the map around the point the hand is on, wherever it is.
THEOREM PictureStays == Spec => PictureHolds
<1>1. MapInv => (DragDown \/ TouchStart =>
         (shown = [frame |-> cur, view |-> FollowView(view, follow, cur)] =>
            FollowView(view', follow', cur) = shown.view))
  BY PressKeeps
<1>2. MapInv /\ HandInv /\ [Next]_vars =>
        ((~Following /\ view'.zoom # view.zoom /\ view' # HomeView) =>
           \E x \in 0..Pixels : ScreenToWorld(view', x) = ScreenToWorld(view, x)
                                /\ (device = "mouse" => x = at))
  BY ZoomKeeps
<1>3. Spec => PressKeepsPicture
  BY <1>1, HandInvariant, PTL DEF Spec, PressKeepsPicture
<1>4. Spec => ZoomKeepsPoint
  BY <1>2, HandInvariant, PTL DEF Spec, ZoomKeepsPoint
<1> QED
  BY <1>3, <1>4 DEF PictureHolds
=============================================================================
