------------------------------ MODULE MCScreen ------------------------------
(* The screen's parts with vehicles, rosters, maps and scenes to show. *)
EXTENDS Screen

-----------------------------------------------------------------------------
(* The vehicle panel: one class of each family of the catalogue, an alias  *)
(* and a class it does not have.                                           *)
MCClasses == {"FV4034", "UH60", "BMD4M_Desert", "MI8_AFU", "MATV_USMC_TOW", "LynxATV_Logistic", "unknown"}
Part(kind, n) == [kind |-> kind, n |-> n]
MCPartsOf ==
  [c \in MCClasses |->
     CASE c \in {"FV4034", "BMD4M_Desert"} ->
            <<Part("trackL", 0), Part("turretBase", 0), Part("trackR", 0), Part("ammo", 0), Part("smoke", 0)>>
       [] c = "UH60" -> <<Part("rotorMain", 0), Part("engine", 0)>>
       [] OTHER -> <<Part("wheelR", 2), Part("engine", 0), Part("wheelL", 1), Part("wheelR", 1)>>]

-----------------------------------------------------------------------------
(* The rosters: two teams with a squad 1 each, fire teams and a man        *)
(* without a squad.                                                        *)
Soldier(n, t, s, f, l) ==
  [name |-> n, team |-> t, squad |-> s, ft |-> f, lead |-> l, score |-> 0, life |-> "healthy", health |-> 100,
   pawn |-> "map"]
MCRosters == {<<Soldier(2, 1, 1, 0, TRUE), Soldier(3, 1, 1, 1, TRUE), Soldier(1, 1, 1, 1, FALSE), Soldier(1, 2, 1, 0, TRUE)>>,
              <<Soldier(3, 2, 1, 1, FALSE), Soldier(2, 2, 1, 2, TRUE), Soldier(1, 2, 1, 0, TRUE), Soldier(4, 1, 0, 0, FALSE)>>}
Order(team, squad, ft) == [team |-> team, squad |-> squad, ft |-> ft]
MCOrders == {Order(1, 1, -1), Order(2, 1, 1), Order(1, 1, 1), Order(2, 1, None), Order(None, None, None)}
MCQueries == {None, {1, 2, 3}}

-----------------------------------------------------------------------------
(* The strips: recordings with gaps in the readings, frames of one time,   *)
(* a round that ends and one that starts.                                  *)
Readings == {<< <<1, 2>>, <<1, 1>>, <<None, 1>>, <<1, 2>> >>, << <<None, None>>, <<1, 2>>, <<1, 1>>, <<None, None>> >>,
             << <<1, 1>>, <<None, 1>>, <<None, 1>>, <<1, 2>> >>, << <<1, 2>>, <<1, 2>>, <<1, 1>>, <<1, 1>> >>}
Phases == {<<"InProgress", "InProgress", "InProgress", "InProgress">>,
           <<"WaitingToStart", "InProgress", "InProgress", "WaitingPostMatch">>,
           <<"InProgress", None, "EndState", "PostMatch">>,
           <<"InProgress", "WaitingPostMatch", "LeavingMap", "WaitingToStart">>}
Times == {<<0, 1, 2, 3>>, <<0, 1, 1, 3>>, <<0, 0, 2, 2>>}
MCRecordings == {[i \in 1..4 |-> [ms |-> t[i], phase |-> p[i], tickets |-> r[i]]] : t \in Times, p \in Phases, r \in Readings}
MCDamageTypes == {{}, {"fall"}, {"drown"}, {"helicrash", "collision"}, {"collision"}, {"burn"}, {"wounded"}, {"smallarms"},
                  {"explosive", "rocket"}, {"hat", "explosive"}, {"fragmentation", "explosive"}}

-----------------------------------------------------------------------------
(* The objectives: a lane of three depths between two mains, two flags at  *)
(* one of them, one node without a zone.                                   *)
CapZone(d, p, a, m, s) == [depth |-> d, place |-> p, anchor |-> a, main |-> m, shape |-> s]
MCZones == 1..7
MCZoneOf == <<CapZone("m1", 0, None, TRUE, FALSE), CapZone("a", 10, 11, FALSE, TRUE), CapZone("a", 14, None, FALSE, FALSE),
              CapZone("a", 10, 11, FALSE, TRUE), CapZone("b", 20, None, FALSE, FALSE), CapZone("b", 25, 24, FALSE, TRUE),
              CapZone("c", 30, None, FALSE, TRUE)>>
Node(depth, pos, team) == [depth |-> depth, pos |-> pos, team |-> team]
MCNodes == [m1 |-> Node("m1", 0, 1), a |-> Node("a", 12, None), b |-> Node("b", 22, None), x |-> Node("x", 31, None),
            c |-> Node("c", 32, None), m2 |-> Node("m2", 50, 2)]
MCEdges == << <<"m1", "a">>, <<"a", "b">>, <<"b", "x">>, <<"x", "c">>, <<"c", "m2">> >>
MCObjectives == [m1 |-> None, a |-> 11, b |-> None, x |-> None, c |-> 30, m2 |-> None]
MCLanes == {{2, 5, 6, 7}, {3, 5, 7}, {4, 3, 6, 7}}

MCYaws == {-170, 0, 170}
Rest(gun, shell, flag) == [gun |-> gun, shell |-> shell, flag |-> flag]
Round(id, p) == [id |-> id, at |-> p]
MCRests == {Rest(-170, Round(1, 0), 0), Rest(170, Round(1, 5), 50), Rest(None, Round(2, 5), None)}

-----------------------------------------------------------------------------
(* The view: crowds and layers, and windows of several shapes.             *)
MCCrowds == {{<<0, 0>>, <<2048, 512>>}, {<<8, 40>>}, {<<-512, 0>>, <<0, 2048>>, <<512, 512>>}}
MCLayerRects == {None, [minX |-> -1024, minY |-> 0, maxX |-> 1024, maxY |-> 4096]}
MCCanvases == {<<1, 1>>, <<2, 1>>, <<1, 2>>, <<4, 1>>}

-----------------------------------------------------------------------------
(* The pictures: three matches one after the other.                        *)
Pin(key, team, squad, role) ==
  [key |-> key, team |-> team, squad |-> squad, role |-> role, class |-> key, placed |-> TRUE,
   stale |-> FALSE, cam |-> FALSE, attached |-> FALSE, down |-> FALSE, yaw |-> TRUE]
Aboard(p) == [p EXCEPT !.attached = TRUE]
Truck(id, kind, cls, seats) ==
  [id |-> id, class |-> id, kind |-> kind, cls |-> cls, team |-> 1, placed |-> TRUE, yaw |-> TRUE,
   turretYaw |-> TRUE, attached |-> FALSE, seats |-> seats]
Seat(i, man) == [idx |-> i, man |-> man]
Built(id, fob, cls, ammo) ==
  [id |-> id, class |-> id, isFob |-> fob, cls |-> cls, team |-> 2, placed |-> TRUE,
   ammo |-> ammo, construction |-> ammo, alarm |-> None]
Called(id, type, squad, ft, length, from) ==
  [id |-> id, type |-> type, team |-> 1, squad |-> squad, ft |-> ft, placed |-> TRUE,
   at |-> 0, length |-> length, heading |-> IF length > 0 THEN 1 ELSE None, from |-> from]
Rally(id, squad, spawns) ==
  [id |-> id, squadTeam |-> None, team |-> 2, squad |-> squad, placed |-> TRUE,
   enabled |-> spawns # 0, sieged |-> spawns = 0, spawns |-> spawns]
Word(text, n) == [text |-> text, decoration |-> FALSE, length |-> n, stem |-> None]
Vanilla == [provider |-> None, game |-> "squad", names |-> << >>, factions |-> {}]
Modded == [provider |-> None, game |-> "mod", names |-> <<"tank", "sl1">>, factions |-> {"USA"}]

MCMaps == (<<"al", "basrah">> :> [texture |-> "albasrah", bounds |-> TRUE])
          @@ (<<"jensen">> :> [texture |-> "jensen", bounds |-> TRUE])
Scene1 ==
  [layer |-> [texture |-> "narva", bounds |-> TRUE], mapName |-> <<Word(<<"narva">>, 5)>>, map |-> "narva",
   frame |-> Vanilla,
   players |-> <<Pin("sl1", 1, 1, {"sl"}), [Pin("medic1", 1, 1, {"medic"}) EXCEPT !.down = TRUE],
                 Pin("sl2", 2, 1, {"sl", "crewman"}), Aboard(Pin("driver", 1, 2, {"crewman"})),
                 Aboard(Pin("gunner", 1, 1, {"crewman"})), Pin("loner", 1, None, {"lat"}),
                 [Pin("admin", None, None, {}) EXCEPT !.cam = TRUE],
                 [Pin("dead", 1, 1, {}) EXCEPT !.stale = TRUE], [Pin("unread", 2, 1, {"ar"}) EXCEPT !.placed = FALSE]>>,
   vehicles |-> <<Truck("tank", "MBT", {"mbt"}, <<Seat(1, "gunner"), Seat(0, "driver")>>),
                  Truck("logi", "Transport", {"logi", "truck"}, << >>)>>,
   deployables |-> <<Built("radio", TRUE, {}, 100), Built("hab", FALSE, {"hab"}, None), Built("mast", FALSE, {}, None)>>,
   markers |-> <<Called("attack", {"attack"}, 1, -1, 0, "sl1"), Called("poi", {"poi"}, None, None, 0, None),
                 Called("line", {"frontline"}, 1, 1, 10, None), Called("short", {"orderline"}, 1, 2, 3, None),
                 Called("enemy", {"director", "enemydirector"}, 1, 2, 30, None)>>,
   rallies |-> <<Rally("rally", 1, 4)>>,
   spawners |-> <<[id |-> "pad", team |-> 1, placed |-> TRUE, enabled |-> FALSE]>>]
Scene2 ==
  [layer |-> None, mapName |-> <<Word(<<"fcl">>, 3), Word(<<"al", "basrah">>, 8), [Word(<<"v1">>, 2) EXCEPT !.decoration = TRUE]>>,
   map |-> "albasrah", frame |-> Modded,
   players |-> <<Pin("sl1", 1, 2, {"pilot", "sl"}), Pin("sl2", 2, 2, {"sl"}), Pin("driver", 1, 2, {"engineer"}),
                 Pin("loner", 1, 1, {"rifleman"})>>,
   vehicles |-> <<Truck("tank", "MBT", {"mbt"}, <<Seat(0, "driver")>>), Truck("ifv", None, {"heavyIfv", "trackedApc", "gun"}, << >>),
                  Truck("heli", "Heli", {"helo", "transportHelo"}, << >>), Truck("apc", "APC", {"armoured"}, << >>)>>,
   deployables |-> <<Built("mine", FALSE, {"mine"}, None)>>,
   markers |-> <<Called("spot", {"spotted", "heavyvehicle"}, 2, -1, 0, None), Called("dot", {"director"}, 2, 1, 0, None)>>,
   rallies |-> <<Rally("rally", None, 0)>>, spawners |-> << >>]
Scene3 ==
  [layer |-> None, mapName |-> <<[Word(<<"jensens">>, 8) EXCEPT !.stem = <<"jensen">>], Word(<<"range">>, 5)>>,
   map |-> "jensen", frame |-> Vanilla,
   players |-> <<Pin("sl1", 2, 2, {"sl"}), Pin("medic1", 1, 1, {"medic"})>>, vehicles |-> <<Truck("bike", "Scout", {"bike", "light"}, << >>)>>,
   deployables |-> << >>, markers |-> << >>, rallies |-> << >>, spawners |-> << >>]
MCScenes == <<Scene1, Scene2, Scene3>>
MCSlow == {"hab", "frontline"}
MCCatalog == <<[id |-> "other", games |-> {}, icons |-> ("nothing" :> "x"), prefixed |-> {}, factions |-> {"USA"}],
               [id |-> "mod", games |-> {"mod"}, icons |-> ("tank" :> "mod_tank"), prefixed |-> {"sl1"}, factions |-> {}]>>
MCRulers == {<< <<0, 0>>, <<140, 0>>, <<140, 140>>, <<440, 540>> >>}
MCOldLayers == {("spawners" :> TRUE), ("players" :> FALSE) @@ ("markers" :> None)}

-----------------------------------------------------------------------------
(* The layers each server has a heat map of.                               *)
MCOffers == ("global" :> <<"narva", "yeho">>) @@ ("s1" :> <<"yeho">>) @@ ("s2" :> << >>)
=============================================================================
