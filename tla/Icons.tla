-------------------------------- MODULE Icons --------------------------------
(***************************************************************************)
(* Which picture stands for what (canvas/icons.ts, markerGeometry.ts and   *)
(* data/assetProviders.ts).  A class, role or marker name is compared only *)
(* with the patterns of its ladder, so it is modelled as the set of the    *)
(* patterns it matches; patterns that are written alike in two ladders     *)
(* have one name.  A picture is named for its file.                        *)
(***************************************************************************)
EXTENDS ReplayBasics

(* The first rung of a ladder whose pattern is matched. *)
Climb(ladder, name) ==
  LET hits == {i \in 1..Len(ladder) : ladder[i][1] \in name}
  IN  IF hits = {} THEN None ELSE ladder[Min(hits)][2]

Fitted(name, pattern, with, without) == IF pattern \in name THEN with ELSE without

-----------------------------------------------------------------------------
(* Providers *)

(* How much of a frame a provider knows: the game's own class, its         *)
(* bindings for the roles, weapons and vehicles, their prefixes, the       *)
(* factions.  names is the sequence of the names in the frame.             *)
ProviderScore(p, frame) ==
  LET Known(S) == Len(SelectSeq(frame.names, LAMBDA n : n \in S))
  IN  (IF frame.game \in p.games THEN 100 ELSE 0) + 25 * Known(DOMAIN p.icons)
      + 10 * Known(p.prefixed) + 15 * Cardinality(frame.factions \cap p.factions)

(* The provider the frame names, else the one that knows most of it, the   *)
(* first among equals, else none (the vanilla default).                    *)
SelectAssetProvider(catalog, frame) ==
  LET score  == [i \in 1..Len(catalog) |-> ProviderScore(catalog[i], frame)]
      named  == {i \in 1..Len(catalog) : catalog[i].id = frame.provider}
      best   == {i \in 1..Len(catalog) :
                   /\ score[i] > 0
                   /\ \A j \in 1..i - 1 : score[j] < score[i]
                   /\ \A j \in i + 1..Len(catalog) : score[j] <= score[i]}
      chosen == IF named # {} THEN named ELSE best
  IN  IF chosen = {} THEN None ELSE CHOOSE i \in chosen : TRUE

(* A picture from the provider of the frame, never from another one. *)
AssetUrl(catalog, frame, key) ==
  LET i == SelectAssetProvider(catalog, frame)
  IN  IF i # None /\ key \in DOMAIN catalog[i].icons THEN catalog[i].icons[key] ELSE None

-----------------------------------------------------------------------------
(* Vehicles: [kind, cls] *)

TurretOfKind ==
  ("MBT" :> "tank_turret") @@ ("Heavy IFV" :> "trackedifv_turret") @@ ("Light IFV" :> "ifv_turret")

VehicleTurretIcon(v) ==
  IF v.kind \in DOMAIN TurretOfKind THEN TurretOfKind[v.kind]
  ELSE Climb(<<<<"mbt", "tank_turret">>, <<"heavyIfv", "trackedifv_turret">>,
               <<"lightIfv", "ifv_turret">>>>, v.cls)

TurretToBase == ("tank_turret" :> "tank_base") @@ ("trackedifv_turret" :> "trackedifv_base")
                @@ ("ifv_turret" :> "ifv_base")

TrackedCarrier(cls) ==
  OrElse(Climb(<<<<"logi", "trackedapc_logistics">>, <<"mortarCarrier", "trackedapc_artillery">>,
                 <<"msv", "trackedapc_msv">>>>, cls), "trackedapc")

Technical(cls) ==
  OrElse(Climb(<<<<"zu23", "jeep_antiair">>, <<"atgm", "jeep_antitank">>,
                 <<"mortar", "jeep_artillery">>, <<"logi", "jeep_logistics">>,
                 <<"gun", "jeep_turret">>>>, cls), "jeep_transport")

ScVehicleIcon(cls) ==
  Climb(<<<<"jet", "jet">>, <<"drone", "drone">>,
          <<"loach", Fitted(cls, "cas", "helicopter_lightcas", "helicopter_scout")>>,
          <<"attackHelo", "attackhelo">>,
          <<"transportHelo", Fitted(cls, "cas", "helicopter_lightcas", "transporthelo")>>,
          <<"boat", Fitted(cls, "logi", "boat_logistics", "boat_openturret")>>,
          <<"bike", "motorcycle">>, <<"mgs", "mgs">>,
          <<"trackedApc", TrackedCarrier(cls)>>,
          <<"recon", "wheeledrecon">>,
          <<"wheeledApc", Fitted(cls, "rws", "apc_open_turret", "apc")>>,
          <<"technical", Technical(cls)>>,
          <<"grad", "truck_artillery">>, <<"logi", "truck_logistics">>,
          <<"truck", Fitted(cls, "zu23", "truck_antiair", "truck_transport")>>>>, cls)

LegacyKindIcon ==
  ("MBT" :> "tank_base") @@ ("Heavy IFV" :> "trackedifv_base") @@ ("Light IFV" :> "ifv_base")
  @@ ("APC" :> "legacy_apc") @@ ("Heli" :> "legacy_helo") @@ ("Transport" :> "legacy_transport")
  @@ ("Logi" :> "legacy_logistics")

LegacyVehicleIcon(v) ==
  CASE "logi" \in v.cls -> "legacy_logistics"
    [] "logi" \notin v.cls /\ v.kind \in DOMAIN LegacyKindIcon -> LegacyKindIcon[v.kind]
    [] OTHER ->
         IF v.cls = {} \/ "emplaced" \in v.cls THEN None
         ELSE OrElse(Climb(<<<<"helo", "legacy_helo">>, <<"mbt", "tank_base">>,
                             <<"heavyIfv", "trackedifv_base">>, <<"armoured", "legacy_apc">>,
                             <<"light", "legacy_scout">>>>, v.cls), "legacy_transport")

VanillaVehicleIcon(v) ==
  LET turret == VehicleTurretIcon(v)
  IN  IF turret # None THEN TurretToBase[turret]
      ELSE OrElse(ScVehicleIcon(v.cls), LegacyVehicleIcon(v))

-----------------------------------------------------------------------------
(* Deployables, roles and markers *)

DeployableIcon(d) ==
  IF d.isFob THEN "fob"
  ELSE Climb(<<<<"hab", "hab">>, <<"mortar", "mortars">>, <<"repair", "repairstation">>,
               <<"mine", "mine">>, <<"ammo", "supplies_ammo">>,
               <<"construct", "supplies_construction">>>>, d.cls)

RoleIcon(role) ==
  Climb(<<<<"crewman", Fitted(role, "sl", "crewman_squadleader", "crewman")>>,
          <<"pilot", "pilot_squadleader">>, <<"sl", "squadleader">>, <<"medic", "medic">>,
          <<"hat", "heavyantitank">>, <<"lat", "lightantitank">>, <<"ar", "automaticrifleman">>,
          <<"marksman", "designatedmarksman">>, <<"mg", "machinegunner">>,
          <<"engineer", "engineer">>, <<"grenadier", "grenadier">>, <<"raider", "raider">>,
          <<"recruit", "recruit">>, <<"scout", "scout">>, <<"rifleman", "rifleman">>>>, role)

LeaderIcons == {"crewman_squadleader", "pilot_squadleader", "squadleader"}

(* isSquadLeader, which the numbers of draw.ts go by. *)
IsSquadLeader(role) == "sl" \in role

(* The orders of a squad: an icon for its leader's and one for the fire    *)
(* teams'.                                                                 *)
OrderIcon(verb, type) == Fitted(type, "ft", <<"squad", verb>>, <<"leader", verb>>)

MarkerIcon(type) ==
  Climb(<<<<"attack", OrderIcon("attack", type)>>, <<"defend", OrderIcon("defend", type)>>,
          <<"move", OrderIcon("move", type)>>, <<"observe", OrderIcon("observe", type)>>,
          <<"build", "resupply_construction">>, <<"supportFob", "fobrequest">>,
          <<"supply", "resupply_construction">>, <<"pickup", "pickup">>,
          <<"rally", "rallypoint">>, <<"fob", "fobrequest">>, <<"hab", "fob">>,
          <<"tank", "tank">>, <<"trackifv", "trackedifv">>, <<"wheelifv", "ifv">>,
          <<"trackapc", "trackedapc">>, <<"wheelapc", "apc">>, <<"apc", "apc">>,
          <<"ifv", "ifv">>, <<"mortar", "mortars">>, <<"logi", "truck_logistics">>, <<"jeep", "truck_logistics">>,
          <<"truck", "truck_logistics">>, <<"boat", "boat_openturret">>, <<"mine", "mine">>,
          <<"helo", "genericinfantry">>,
          <<"spotted", OrElse(Climb(<<<<"lightvehicle", "truck_logistics">>,
                                      <<"heavyvehicle", "tank">>>>, type), "genericinfantry")>>>>,
        type)

(* What a marker is when it is no picture; a dragged one needs its length. *)
MarkerShape(m) ==
  CASE "poi" \in m.type -> "diamond"
    [] "poi" \notin m.type /\ m.type \cap {"frontline", "director", "orderline"} = {} -> None
    [] OTHER -> IF m.length <= 1 THEN "point"
                ELSE Fitted(m.type, "frontline", "frontline", "arrow")

(* Where a dragged marker ends, or None. *)
ArrowEnd(m) == IF m.length > 1 /\ m.heading # None THEN m.at + m.heading * m.length ELSE None
=============================================================================
