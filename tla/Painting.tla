------------------------------ MODULE Painting ------------------------------
(***************************************************************************)
(* One paint of the map (renderScene of canvas/draw.ts) while the pictures *)
(* are still loading and the user switches layers on and off, follows a    *)
(* player and measures.                                                    *)
(*                                                                         *)
(* A paint is the sequence of the marks it leaves, the later over the      *)
(* earlier: [layer, part, of, look], of being the entity the mark stands   *)
(* for and look a sequence of what can be read off it.  A scene is a frame *)
(* as far as it is painted; zones, lane and rounds have modules of their   *)
(* own and are single marks here.                                          *)
(***************************************************************************)
EXTENDS Icons

CONSTANTS
  Scenes,       \* sequence of frames: [layer, mapName, players, vehicles,
                \* deployables, markers, rallies, spawners, frame: what the
                \* providers are chosen by, map: the map the match was played on]
  Maps,         \* MAP_FALLBACKS: normalised id -> layer
  Slow,         \* pictures that are not loaded when the page opens
  Catalog,      \* provider catalogue
  Rulers,       \* paths the user may measure: sequences of <<x, y>>, in metres
  OldLayers,    \* what an older page may have stored: key -> value
  Zoom,         \* half pixels to a metre of the view
  ArrowMin, FenceMin, \* the shortest arrow, row of pickets in half pixels
  MaxClicks     \* bound: clicks in the settings, on players, with the ruler

Square(n) == n * n

(* How far two points may be from each other, in centimetres, the units of *)
(* the world: the legs of Rulers have whole lengths.                       *)
Lengths(a, b) ==
  {n \in 0..Far(a[1], b[1]) + Far(a[2], b[2]) : Square(n) = Square(b[1] - a[1]) + Square(b[2] - a[2])}

IsList(s) == s \in Seq({s[i] : i \in 1..Len(s)})

LayerKeys == {"players", "vehicles", "deployables", "markers", "projectiles",
              "spawners", "rallies", "slNumbers", "squadNumbers"}

VARIABLES
  scene,        \* index of the frame on display; None: not under study
  slow,         \* pictures still to come
  layers, stored, \* the layers of the store, and of localStorage: None when empty
  storageOk,    \* localStorage may be used
  menu,         \* the settings are open
  followKey, ruler,
  chosen,       \* ghost: [key -> the user's last choice, None: never touched]
  clicks

(* Things and players go by addresses, seats by their index: none is that  *)
(* of two.                                                                 *)
ASSUME PaintAssumption ==
  /\ MaxClicks \in Nat /\ IsList(Scenes) /\ Scenes # << >>
  /\ \A n \in 1..Len(Scenes) :
       /\ IsList(Scenes[n].players)
       /\ \A i \in 1..Len(Scenes[n].players) : Scenes[n].players[i].key # None
       /\ \A i, j \in 1..Len(Scenes[n].players) : Scenes[n].players[i].key = Scenes[n].players[j].key => i = j
       /\ \A i, j \in 1..Len(Scenes[n].vehicles) : Scenes[n].vehicles[i].id = Scenes[n].vehicles[j].id => i = j
       /\ \A i \in 1..Len(Scenes[n].vehicles) :
            LET seats == Scenes[n].vehicles[i].seats
            IN  /\ IsList(seats) /\ \A k \in 1..Len(seats) : seats[k].idx \in Nat
                /\ \A k, l \in 1..Len(seats) : seats[k].idx = seats[l].idx => k = l
       /\ \A kind \in {"vehicles", "deployables", "markers", "rallies", "spawners"} :
            /\ IsList(Scenes[n][kind])
            /\ \A i \in 1..Len(Scenes[n].players), j \in 1..Len(Scenes[n][kind]) :
                 Scenes[n].players[i].key # Scenes[n][kind][j].id
  /\ \A path \in Rulers :
       /\ IsList(path)
       /\ \A i \in 1..Len(path) - 1 : Lengths(path[i], path[i + 1]) # {}
  /\ None \notin [LayerKeys -> BOOLEAN]

paintVars == <<scene, slow, layers, stored, storageOk, menu, followKey, ruler, chosen, clicks>>

Mark(layer, part, of, look) == << [layer |-> layer, part |-> part, of |-> of, look |-> look] >>
Only(c, marks) == IF c THEN marks ELSE << >>
ForEach(s, Marks(_)) == FlattenSeq([i \in 1..Len(s) |-> Marks(s[i])])
Placed(s, Marks(_)) == FlattenSeq([i \in 1..Len(s) |-> Only(s[i].placed, Marks(s[i]))])

S == Scenes[scene]
Ready(picture) == picture # None /\ picture \notin slow
(* The provider's picture of an entity, else the vanilla one. *)
Picture(e, vanilla) == OrElse(AssetUrl(Catalog, S.frame, e.class), vanilla)
TeamColor(t) == IF t \in {1, 2} THEN t ELSE 0

-----------------------------------------------------------------------------
(* The ground *)

(* A name is a sequence of words [text, decoration, length, stem]; text is *)
(* the sequence of what is left of the word by norm, stem the same without *)
(* a trailing s.                                                           *)
MapCalled(name, Forms(_)) ==
  LET Norm(ws)  == ForEach(ws, LAMBDA w : w.text)
      cleaned   == SelectSeq(name, LAMBDA w : ~w.decoration)
      words     == SortSeq(SelectSeq(cleaned, LAMBDA w : w.length >= 3),
                           LAMBDA v, w : v.length > w.length)
      tries     == <<Norm(cleaned), Norm(name)>> \o ForEach(words, Forms)
      hits      == SelectSeq(tries, LAMBDA id : id \in DOMAIN Maps)
  IN  IF hits = << >> THEN None ELSE Maps[hits[1]]

FallbackMapAsWritten(name) == MapCalled(name, LAMBDA w : <<w.text>>)

(* A possessive is part of how the map is written, not part of its id. *)
FallbackMap(name) == MapCalled(name, LAMBDA w : <<w.text, w.stem>>)

(* The layer of the recording, or that of its map's name. *)
MapTexture ==
  LET layer == OrElse(S.layer, FallbackMap(S.mapName))
  IN  Only(layer # None /\ layer.bounds /\ Ready(layer.texture),
           Mark("map", "texture", None, <<layer.texture>>))

MapGrid == Mark("map", "grid", None, << >>)

(* The two rings of a radio: no enemy radio within, its territory. *)
FobRadii ==
  Placed(S.deployables,
    LAMBDA d : Only(d.isFob, Mark("deployables", "radius", d.id, <<150, TeamColor(d.team)>>)
                             \o Mark("deployables", "radius", d.id, <<400, TeamColor(d.team)>>)))

(* m.from: whom the line is drawn from (LineFrom of RosterPanels), or None. *)
ActionMarkerLines ==
  Placed(S.markers,
    LAMBDA m : Only(m.from # None, Mark("markers", "order", m.id, <<m.from, TeamColor(m.team)>>)))

Spawners ==
  Placed(S.spawners,
    LAMBDA s : Mark("spawners", "badge", s.id, <<TeamColor(s.team), s.enabled>>))

-----------------------------------------------------------------------------
(* Deployables and rallies *)

DeployableBadge(layer, e, colour, picture, emphasis) ==
  Mark(layer, "badge", e.id, <<colour, picture, emphasis>>)

(* The pill under a radio, when one of its stocks was read. *)
FobResourceLabel(d) ==
  Only(d.ammo # None \/ d.construction # None,
       Mark("deployables", "stock", d.id,
            <<d.ammo, d.construction, OrElse(d.alarm, TeamColor(d.team))>>))

(* A badge, a plain square while there is no picture of it. *)
Deployables ==
  Placed(S.deployables, LAMBDA d :
    LET picture == Picture(d, DeployableIcon(d))
        landmark == d.isFob \/ "hab" \in d.cls
    IN  (IF Ready(picture)
         THEN DeployableBadge("deployables", d, TeamColor(d.team), picture, landmark)
         ELSE Mark("deployables", "chip", d.id, <<TeamColor(d.team), d.isFob>>))
        \o Only(d.isFob, FobResourceLabel(d)))

(* The label is drawn whether the picture is there or not. *)
RallyPoints ==
  Placed(S.rallies, LAMBDA r :
    LET colour == TeamColor(OrElse(r.squadTeam, r.team))
    IN  Only(Ready("rallypoint"),
             DeployableBadge("rallies", r, IF r.enabled THEN colour ELSE "grey", "rallypoint", FALSE)
             \o Only(r.sieged, Mark("rallies", "ring", r.id, <<"red">>)))
        \o Mark("rallies", "squad", r.id, <<r.squad, colour>>)
        \o Only(r.spawns # None /\ r.spawns >= 0,
                Mark("rallies", "spawns", r.id,
                     <<r.spawns, IF r.spawns >= 6 THEN "green"
                                 ELSE IF r.spawns >= 3 THEN "amber" ELSE "red">>)))

-----------------------------------------------------------------------------
(* Vehicles *)

NumberBadge(layer, id, n, colour, faint) == Mark(layer, "number", id, <<n, colour, faint>>)

(* Hull and turret turn about one centre when there is a turret to draw.   *)
VehicleBadge(v, hull, turret) ==
  LET both == Ready(turret) /\ v.turretYaw /\ v.yaw
  IN  Mark("vehicles", "badge", v.id, <<hull, IF both THEN turret ELSE None, TeamColor(v.team)>>)
      \o Only(v.attached, Mark("vehicles", "ring", v.id, <<"white">>))

(* The squad of the man on a seat: of the last of the frame's players who  *)
(* have his key and a squad.                                               *)
SquadAboard(seat) ==
  LET aboard == {i \in 1..Len(S.players) : S.players[i].key = seat.man /\ S.players[i].squad # None}
  IN  IF aboard = {} THEN None ELSE S.players[Max(aboard)].squad

(* The squad of the first in this order who has one. *)
CrewSquad(v, Before(_, _)) ==
  LET crew  == {k \in 1..Len(v.seats) : SquadAboard(v.seats[k]) # None}
      first == {k \in crew : \A l \in crew \ {k} : Before(k, l)}
  IN  IF first = {} THEN None ELSE SquadAboard(v.seats[CHOOSE k \in first : TRUE])

VehicleSquadNumberUnsorted(v) == CrewSquad(v, <)

(* The driver, else the man on the lowest seat: by index, and as the seats *)
(* are listed among equals.                                                *)
VehicleSquadNumber(v) ==
  LET Lower(k, l) == \/ v.seats[k].idx < v.seats[l].idx
                     \/ v.seats[k].idx = v.seats[l].idx /\ k < l
  IN  CrewSquad(v, Lower)

VehicleIcon(v) == Picture(v, VanillaVehicleIcon(v))

(* Badges (triangles while there is no picture), then the numbers. *)
VehicleMarks ==
  Placed(S.vehicles, LAMBDA v :
    IF Ready(VehicleIcon(v)) THEN VehicleBadge(v, VehicleIcon(v), VehicleTurretIcon(v))
    ELSE Mark("vehicles", "triangle", v.id, <<TeamColor(v.team), v.attached>>))
  \o Placed(S.vehicles, LAMBDA v :
       LET n == VehicleSquadNumber(v)
       IN  Only(layers["squadNumbers"] /\ n # None,
                NumberBadge("vehicles", v.id, n, TeamColor(v.team), FALSE)))

-----------------------------------------------------------------------------
(* Markers *)

SquadLabel(m) ==
  IF m.squad = None \/ m.squad <= 0 THEN None
  ELSE <<m.squad, IF m.ft = 1 THEN "B" ELSE IF m.ft = 2 THEN "C" ELSE "">>

MarkerLabel(m) == Only(SquadLabel(m) # None, Mark("markers", "label", m.id, SquadLabel(m)))

(* One arrow, the squad in the disc it starts at; nothing when the disc    *)
(* would hide it.                                                          *)
DirectionArrow(m, colour) ==
  Only(Zoom * m.length >= ArrowMin, Mark("markers", "arrow", m.id, <<colour, SquadLabel(m)>>))

(* The same drag as a row of pickets, also where there is no room for an   *)
(* arrow.                                                                  *)
FrontlineSeries(m, colour) ==
  Only(Zoom * m.length >= FenceMin /\ Ready("frontline"), Mark("markers", "pickets", m.id, <<colour>>))

(* The colour of a dragged marker: a report of enemies has theirs. *)
ShaftColor(m) ==
  IF "enemydirector" \in m.type
  THEN (IF m.team = 1 THEN 2 ELSE IF m.team = 2 THEN 1 ELSE 0) ELSE TeamColor(m.team)

MarkerDiamond(m) == Mark("markers", "badge", m.id, <<"diamond", TeamColor(m.team)>>)
MarkerPoint(m) == Mark("markers", "badge", m.id, <<"point", TeamColor(m.team)>>)

Markers ==
  Placed(S.markers, LAMBDA m :
    LET shape   == MarkerShape(m)
        picture == MarkerIcon(m.type)
    IN  IF shape \in {"arrow", "frontline"} /\ ArrowEnd(m) # None
        THEN IF shape = "frontline" THEN FrontlineSeries(m, ShaftColor(m)) \o MarkerLabel(m)
             ELSE DirectionArrow(m, ShaftColor(m))
        ELSE (CASE shape = "diamond" -> MarkerDiamond(m)
                [] shape = "point" -> MarkerPoint(m)
                [] shape = None /\ Ready(picture) ->
                     Mark("markers", "badge", m.id, <<picture, TeamColor(m.team)>>)
                [] OTHER -> Mark("markers", "chip", m.id, <<TeamColor(m.team)>>))
             \o MarkerLabel(m))

-----------------------------------------------------------------------------
(* Players *)

IsAdminCam(p) == p.cam
OnFoot(p) == p.placed /\ ~p.stale /\ ~IsAdminCam(p) /\ ~p.attached

(* The followed player when he is in the frame on display and in a squad:  *)
(* a set of one, else of none.                                             *)
FollowHighlight ==
  LET them == {i \in 1..Len(S.players) : S.players[i].key = followKey}
  IN  {S.players[i] : i \in {j \in them : /\ followKey # None /\ j = Min(them)
                                          /\ S.players[j].squad # None}}

InFollowSquad(p) == \E f \in FollowHighlight : p.team = f.team /\ p.squad = f.squad

Faint(p) == FollowHighlight # {} /\ ~InFollowSquad(p)

SquadRing(p) ==
  Mark("players", "ring", p.key, <<IF p.key = followKey THEN "white" ELSE "amber">>)

PlayerPin(p) ==
  LET opacity == IF Faint(p) THEN 30 ELSE IF p.down THEN 40 ELSE 100
      glyph   == Picture(p, RoleIcon(p.role))
  IN  Mark("players", "badge", p.key,
           <<TeamColor(p.team), IF Ready(glyph) THEN glyph ELSE None, opacity>>)
      \o Only(p.yaw, Mark("players", "needle", p.key, <<TeamColor(p.team), opacity>>))

DownedMarker(p) == Mark("players", "cross", p.key, <<TeamColor(p.team)>>)

PlayerNumber(p) ==
  Only(/\ p.squad # None
       /\ \/ layers["squadNumbers"]
          \/ IsSquadLeader(p.role) /\ layers["slNumbers"],
       NumberBadge("players", p.key, p.squad, TeamColor(p.team), Faint(p)))

PlayerMarks ==
  ForEach(S.players, LAMBDA p : Only(OnFoot(p), PlayerPin(p) \o Only(p.down, DownedMarker(p))
                                                \o Only(InFollowSquad(p), SquadRing(p))))
  \o ForEach(S.players, LAMBDA p : Only(OnFoot(p), PlayerNumber(p)))

-----------------------------------------------------------------------------
(* The ruler *)

LengthOf(a, b) == CHOOSE n \in Lengths(a, b) : TRUE

PathLength(pts) == SumSeqOf([i \in 1..Len(pts) - 1 |-> LengthOf(pts[i], pts[i + 1])])

FormatMetres(cm) == (cm + 50) \div 100

(* The side of the compass a leg runs to: north is up, where y is small. *)
Bearing(a, b) == <<Sign(b[1] - a[1]), Sign(a[2] - b[2])>>

(* A reading on each leg, and the total, which alone is bright when there  *)
(* is more than one leg.                                                   *)
RulerReadings ==
  LET legs == Len(ruler) - 1
      Reading(cm, bright, way) ==
        [layer |-> "ruler", part |-> "reading", of |-> None, look |-> <<FormatMetres(cm), bright, way>>]
  IN  [i \in 1..legs |-> Reading(LengthOf(ruler[i], ruler[i + 1]), legs = 1, Bearing(ruler[i], ruler[i + 1]))]
      \o Only(legs > 1, <<Reading(PathLength(ruler), TRUE, None)>>)

RulerMarks == Only(Len(ruler) > 1, Mark("ruler", "path", None, ruler) \o RulerReadings)

-----------------------------------------------------------------------------
(* The whole paint *)

On(k, marks) == Only(layers[k], marks)

Paint ==
  MapTexture
  \o On("deployables", FobRadii)
  \o Only(MapTexture = << >>, MapGrid)
  \o Mark("map", "lane", None, << >>)
  \o On("markers", ActionMarkerLines)
  \o On("spawners", Spawners)
  \o On("deployables", Deployables)
  \o Mark("caps", "badge", None, << >>)
  \o On("vehicles", VehicleMarks)
  \o On("markers", Markers)
  \o On("rallies", RallyPoints)
  \o On("players", PlayerMarks)
  \o On("projectiles", Mark("projectiles", "badge", None, << >>))
  \o RulerMarks

(* What the hit test may return: it goes by the frame alone (hitTest.ts).  *)
IdsOf(s) == {s[i].id : i \in {j \in 1..Len(s) : s[j].placed}}
Things ==
  IdsOf(S.markers) \cup IdsOf(S.vehicles) \cup IdsOf(S.deployables) \cup IdsOf(S.spawners) \cup IdsOf(S.rallies)

HittableWithCams ==
  {S.players[i].key : i \in {j \in 1..Len(S.players) :
     LET p == S.players[j] IN ~p.stale /\ ~p.attached /\ p.placed}} \cup Things

Hittable ==
  {S.players[i].key : i \in {j \in 1..Len(S.players) :
     LET p == S.players[j] IN ~p.stale /\ ~p.attached /\ ~p.cam /\ p.placed}} \cup Things

-----------------------------------------------------------------------------
(* The layers and the user *)

DefaultLayers == [k \in LayerKeys |-> k \notin {"spawners", "squadNumbers"}]

(* What is stored, where it is a boolean; the default of every other key. *)
LoadLayers(raw) ==
  [k \in LayerKeys |-> IF raw = None THEN DefaultLayers[k]
                       ELSE IF k \in DOMAIN raw /\ raw[k] \in BOOLEAN THEN raw[k]
                       ELSE DefaultLayers[k]]

SaveLayers == stored' = IF storageOk THEN layers' ELSE stored

Click == clicks < MaxClicks /\ clicks' = clicks + 1

ToggleLayer(k) ==
  /\ Click /\ menu
  /\ layers' = [layers EXCEPT ![k] = ~@]
  /\ SaveLayers
  /\ chosen' = [chosen EXCEPT ![k] = layers'[k]]
  /\ UNCHANGED <<scene, slow, storageOk, menu, followKey, ruler>>

OpenSettings ==
  /\ menu' = ~menu
  /\ UNCHANGED <<scene, slow, layers, stored, storageOk, followKey, ruler, chosen, clicks>>

FollowPlayer(key) ==
  /\ Click /\ key # followKey
  /\ followKey' = key
  /\ UNCHANGED <<scene, slow, layers, stored, storageOk, menu, ruler, chosen>>

Measure(path) ==
  /\ Click /\ path # ruler
  /\ ruler' = path
  /\ UNCHANGED <<scene, slow, layers, stored, storageOk, menu, followKey, chosen>>

PictureLoads(picture) ==
  /\ slow' = slow \ {picture}
  /\ UNCHANGED <<scene, layers, stored, storageOk, menu, followKey, ruler, chosen, clicks>>

NextScene ==
  /\ scene < Len(Scenes) /\ scene' = scene + 1
  /\ UNCHANGED <<slow, layers, stored, storageOk, menu, followKey, ruler, chosen, clicks>>

Reload ==
  /\ Click
  /\ layers' = LoadLayers(IF storageOk THEN stored ELSE None)
  /\ menu' = FALSE /\ followKey' = None /\ ruler' = << >> /\ slow' = Slow
  /\ UNCHANGED <<scene, stored, storageOk, chosen>>

PaintInit ==
  /\ scene = 1 /\ slow = Slow
  /\ storageOk \in BOOLEAN
  /\ stored \in {None} \cup (IF storageOk THEN OldLayers ELSE {})
  /\ layers = LoadLayers(stored)
  /\ menu = FALSE /\ followKey = None /\ ruler = << >>
  /\ chosen = [k \in LayerKeys |-> IF stored # None /\ k \in DOMAIN stored /\ stored[k] \in BOOLEAN
                                   THEN stored[k] ELSE None]
  /\ clicks = 0

PaintOff ==
  /\ scene = None /\ slow = {} /\ layers = DefaultLayers /\ stored = None
  /\ storageOk = FALSE /\ menu = FALSE /\ followKey = None /\ ruler = << >>
  /\ chosen = [k \in LayerKeys |-> None] /\ clicks = 0

PaintNext ==
  /\ scene # None
  /\ \/ \E k \in LayerKeys : ToggleLayer(k)
     \/ OpenSettings \/ NextScene \/ Reload
     \/ \E path \in Rulers : Measure(path)
     \/ \E i \in 1..Len(S.players) : FollowPlayer(S.players[i].key)
     \/ FollowPlayer(None)
     \/ \E picture \in slow : PictureLoads(picture)

-----------------------------------------------------------------------------
(* Properties *)

Painted == IF scene = None THEN {} ELSE {Paint}

PaintTypeOK ==
  /\ scene \in {None} \cup 1..Len(Scenes) /\ slow \subseteq Slow
  /\ layers \in [LayerKeys -> BOOLEAN] /\ clicks \in 0..MaxClicks

(* The discs of the radios and the order lines lie under every badge, the  *)
(* numbers over every badge of their kind, and a measurement over          *)
(* everything (renderScene, the second passes of drawVehicles and          *)
(* drawPlayers).                                                           *)
UnderAndOver ==
  \A paint \in Painted :
    LET Parts(names) == {i \in 1..Len(paint) : paint[i].part \in names}
        Pins == Parts({"badge", "chip", "triangle", "needle"})
    IN  /\ \A i \in Parts({"texture", "grid", "radius", "order"}), j \in Pins : i < j
        /\ \A i \in Parts({"number"}), j \in Pins : paint[i].layer = paint[j].layer => j < i
        /\ \A i \in Parts({"path", "reading"}) : \A j \in i..Len(paint) : paint[j].layer = "ruler"

(* The map under a recording is the map it was played on, whether its      *)
(* frames say the layer or only a name somebody gave the match: S.map is   *)
(* that map where the viewer has it (drawMapTexture, mapFallback.ts).      *)
OverItsMap ==
  scene # None =>
    MapTexture = IF S.map # None /\ Ready(S.map) THEN Mark("map", "texture", None, <<S.map>>) ELSE << >>

(* Every entity of a layer that is shown and has a place leaves a mark,    *)
(* also while its picture is on the way; but for a drag too short to draw  *)
(* and for pickets, which wait for their glyph.                            *)
NothingVanishes ==
  \A paint \in Painted :
    LET drawn == {paint[i].of : i \in 1..Len(paint)}
        Kept(k, s, Marked(_)) == layers[k] => \A i \in 1..Len(s) : s[i].placed /\ Marked(s[i]) => s[i].id \in drawn
        AnyOne(e) == TRUE
        NoDrag(m) == \/ ArrowEnd(m) = None \/ MarkerShape(m) \notin {"arrow", "frontline"}
                     \/ MarkerShape(m) = "arrow" /\ Zoom * m.length >= ArrowMin
                     \/ MarkerShape(m) = "frontline" /\ Zoom * m.length >= FenceMin /\ Ready("frontline")
    IN  /\ Kept("vehicles", S.vehicles, AnyOne) /\ Kept("deployables", S.deployables, AnyOne)
        /\ Kept("rallies", S.rallies, AnyOne) /\ Kept("spawners", S.spawners, AnyOne)
        /\ Kept("markers", S.markers, NoDrag)

(* What is drawn can be clicked, and a man who can be clicked is drawn     *)
(* while his layer is ("an invisible hover target is worse than a visible  *)
(* one", hitTest.ts).                                                      *)
ClickableIsDrawn ==
  \A paint \in Painted :
    LET drawn == {paint[i].of : i \in 1..Len(paint)} \ {None}
        men == {S.players[i].key : i \in 1..Len(S.players)}
    IN  /\ drawn \subseteq Hittable
        /\ layers["players"] => drawn \cap men = Hittable \cap men

(* Following a man lights up his squad of his team: the white ring is his, *)
(* the amber ones his mates', everybody else is faint, and nobody is when  *)
(* he has no squad or is not in the frame (FollowHighlight).               *)
SpotlightOnSquad ==
  \A paint \in Painted :
    LET Keys(part, Holds(_)) ==
          {paint[i].of : i \in {j \in 1..Len(paint) : /\ paint[j].layer = "players"
                                                      /\ paint[j].part = part /\ Holds(paint[j].look)}}
        pinned == Keys("badge", LAMBDA look : TRUE)
        lead   == {i \in 1..Len(S.players) : S.players[i].key = followKey /\ S.players[i].squad # None}
        mates  == {S.players[i].key : i \in {j \in 1..Len(S.players) : \E l \in lead :
                     S.players[j].team = S.players[l].team /\ S.players[j].squad = S.players[l].squad}}
    IN  /\ Keys("ring", LAMBDA look : look[1] = "white") = pinned \cap mates \cap {followKey}
        /\ Keys("ring", LAMBDA look : look[1] = "amber") = (pinned \cap mates) \ {followKey}
        /\ Keys("badge", LAMBDA look : look[3] = 30) = IF lead = {} THEN {} ELSE pinned \ mates
        /\ Keys("number", LAMBDA look : look[3]) \subseteq IF lead = {} THEN {} ELSE pinned \ mates

(* One number at most on a pin and on a vehicle; a vehicle's is its        *)
(* driver's squad when he has one, and a man aboard shows none himself.    *)
OneNumberEach ==
  \A paint \in Painted :
    LET numbers == {i \in 1..Len(paint) : paint[i].part = "number"}
        SquadOf(man) == {S.players[i].squad : i \in {j \in 1..Len(S.players) : S.players[j].key = man}} \ {None}
    IN  /\ \A i, j \in numbers : paint[i].of = paint[j].of => i = j
        /\ \A i \in numbers, n \in 1..Len(S.vehicles) :
             LET v == S.vehicles[n]
                 drivers == {v.seats[k].man : k \in {l \in 1..Len(v.seats) : v.seats[l].idx = 0}}
             IN  paint[i].of = v.id => \A d \in drivers : SquadOf(d) \subseteq {paint[i].look[1]}
        /\ \A i \in numbers, n \in 1..Len(S.players) :
             paint[i].of = S.players[n].key =>
               ~S.players[n].attached /\ paint[i].look[1] = S.players[n].squad

(* A turret is drawn on the hull it was cut from, unless a provider has a  *)
(* picture of the vehicle ("Matched base+turret pair", drawVehicleBadge).  *)
TurretOnItsHull ==
  scene # None => \A i \in 1..Len(S.vehicles) :
    LET v == S.vehicles[i]
    IN  VehicleTurretIcon(v) # None /\ AssetUrl(Catalog, S.frame, v.class) = None =>
          VehicleIcon(v) = TurretToBase[VehicleTurretIcon(v)]

(* Who is numbered as a squad leader has the icon of one ("Mirrors the SL  *)
(* match in icons.ts").                                                    *)
LeadersLookIt ==
  scene # None => \A i \in 1..Len(S.players) : IsSquadLeader(S.players[i].role) => RoleIcon(S.players[i].role) \in LeaderIcons

(* Of the readings of a measurement one is bright, the last; it is the     *)
(* sum of the legs but for their rounding.                                 *)
RulerReads ==
  \A marks \in {RulerReadings} :
    LET legs == Len(ruler) - 1
    IN  /\ \A i \in 1..Len(marks) : marks[i].look[2] <=> i = Len(marks)
        /\ Len(marks) > 0 =>
             2 * Far(marks[Len(marks)].look[1], SumSeqOf([i \in 1..legs |-> marks[i].look[1]])) <= legs + 1

(* A layer the user has switched stays as he left it, over a reload too    *)
(* where the page may store it, whatever keys an older page stored         *)
(* (loadLayers, saveLayers of viewerStore.ts).                             *)
ChoiceKept == storageOk => \A k \in LayerKeys : chosen[k] # None => layers[k] = chosen[k]

(* The picture and the scene agree: the order of the layers, a mark for    *)
(* everything that is shown and can be clicked, and the layers as the user *)
(* left them (draw.ts, hitTest.ts, viewerStore.ts).                        *)
SceneAgrees ==
  PaintTypeOK /\ UnderAndOver /\ NothingVanishes /\ ClickableIsDrawn /\ ChoiceKept

(* What a single mark says is true of what it marks: squads lit up and     *)
(* numbered, turrets on their hulls, leaders, distances.                   *)
MarksTell ==
  SpotlightOnSquad /\ OneNumberEach /\ TurretOnItsHull /\ LeadersLookIt /\ RulerReads
=============================================================================
