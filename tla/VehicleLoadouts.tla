-------------------------- MODULE VehicleLoadouts --------------------------
(***************************************************************************)
(* Part of the weapon catalogue of the vehicles (data/vehicleLoadouts.ts): *)
(* the families whose rigging differs in what matters to the panel.  The   *)
(* catalogue is filled by statements run in the order of the file, so it   *)
(* is modelled as those statements and what they leave behind.             *)
(*                                                                         *)
(* A class name is compared only within its vehicle: seats and turrets are *)
(* named for their place on it, and of a weapon list only the length is    *)
(* kept.                                                                   *)
(***************************************************************************)
EXTENDS ReplayBasics

(* The places on a vehicle that have a turret.                             *)
Stations == {"Turret", "Periscope", "Roof", "Cupola", "Crows", "Loader",
             "Scope", "Left", "Right", "Door", "BowL", "BowR"}

(* VEHICLE_LOADOUTS[name] = {seats, turrets} and VEHICLE_LOADOUTS[name] =  *)
(* VEHICLE_LOADOUTS[of].                                                   *)
Sets(name, seats, weapons) ==
  [name |-> name, of |-> None, to |-> [seats |-> seats, weapons |-> weapons]]
Alias(name, of) == [name |-> name, of |-> of, to |-> None]

(* A driver, the stations with a turret, then passengers. *)
Crewed(turrets, passengers) == <<None>> \o turrets \o [i \in 1..passengers |-> None]

MainBattleTanks ==
  LET Weapons(n) == [Driver |-> 1, Turret |-> n, Roof |-> 1]
      Seats == Crewed(<<"Turret", "Periscope", "Roof">>, 0)
  IN  <<Sets("FV4034", Seats, Weapons(5)),
        Sets("LynxATV_Logistic", Crewed(<< >>, 1), [Driver |-> 1]),
        Sets("FV4034_Woodland", Seats, Weapons(5)),
        Sets("2A6_Desert", Seats, Weapons(4)),
        Sets("2A6_Desert_Cage", Seats, Weapons(4)),
        Sets("2A6_Woodland", Seats, Weapons(4))>>

(* Several vehicles rigged alike, one statement each. *)
Alike(names, seats, weapons) == [i \in 1..Len(names) |-> Sets(names[i], seats, weapons)]

Abrams ==
  LET Gunner == [Driver |-> 1, Turret |-> 4]
  IN  <<Sets("2A6_Woodland_Cage", Crewed(<<"Turret", "Periscope", "Roof">>, 0), Overlay(Gunner, [Roof |-> 1]))>>
      \o Alike(<<"M1A1_USMC", "M1A1_USMC_Woodland", "AUS_M1A1">>,
               Crewed(<<"Turret", "Cupola">>, 0), Overlay(Gunner, [Cupola |-> 1]))
      \o Alike(<<"M1A2", "M1A2_Woodland">>,
               Crewed(<<"Turret", "Crows", "Loader">>, 0), Overlay(Gunner, [Crows |-> 1, Loader |-> 1]))

DoorGunners ==
  LET Doors(first, passengers) == Crewed(<<first, "Left", "Right">>, passengers)
      TwoGuns == [Left |-> 1, Right |-> 1]
  IN  <<Sets("CH146_Desert", Doors("Scope", 7), Overlay(TwoGuns, [Scope |-> 0])),
        Sets("CH178", Doors(None, 9), TwoGuns),
        Sets("MI8_VDV", Doors(None, 9), TwoGuns),
        Alias("MI8_AFU", "MI8_VDV"), Alias("MI8", "MI8_VDV"),
        Sets("MRH90_Mag58", Doors(None, 12), TwoGuns),
        Sets("CH146_Raven", Doors(None, 9), TwoGuns)>>

Helicopters ==
  LET Doors(first, left, right) == <<None, first, left, right>> \o [i \in 1..9 |-> None]
      TwoGuns == [Left |-> 1, Right |-> 1]
  IN  <<Sets("UH1H_GFI", Doors(None, "Left", "Right"), TwoGuns),
        Sets("UH1Y", Doors("Scope", "Door", "Door"), [Scope |-> 0, Door |-> 1]),
        Sets("UH60", Doors(None, "Door", "Door"), [Door |-> 1]),
        Sets("UH60_AUS", Doors(None, "Left", "Right"), TwoGuns),
        Sets("UH60_TLF_PKM", Doors(None, "Door", "Door"), [Door |-> 1])>>

AirborneCarriers ==
  LET Bows == [Turret |-> 4, BowL |-> 1, BowR |-> 1]
      Bow  == [Turret |-> 6, Periscope |-> 0, BowL |-> 1]
  IN  <<Sets("ACV-15", Crewed(<<"Turret">>, 0), [Driver |-> 2, Turret |-> 4]),
        Sets("ACV-15_Desert", Crewed(<<"Turret">>, 0), [Driver |-> 2, Turret |-> 4]),
        Sets("BMD1M", Crewed(<<"Turret", "BowL", "BowR">>, 0), Bows),
        Sets("BMD1M_Desert", Crewed(<<"Turret", "BowL", "BowR">>, 0), Bows),
        Sets("BMD4M_Desert", Crewed(<<"Turret", "Periscope">>, 0), Bow)>>

(* Bow guns on both sides; all but the plain transports carry one more on  *)
(* the roof.                                                               *)
BowGunCarriers ==
  LET Bows == [Driver |-> 1, BowL |-> 1, BowR |-> 1]
  IN  Alike(<<"BTR-D_Transport", "BTR-D_Transport_Desert">>, Crewed(<<"BowL", "BowR">>, 8), Bows)
      \o Alike(<<"BTR-D_AGS17", "BTR-D_AGS17_Desert", "BTR-D_Kord", "BTR-D_Kord_Desert",
                 "BTR-D_PKM", "BTR-D_PKM_Desert">>,
               Crewed(<<"Roof", "BowL", "BowR">>, 7), Overlay(Bows, [Roof |-> 1]))

Boats ==
  Alike(<<"RHIB_AGS17", "RHIB_DSHK", "RHIB_US_M134", "RHIB_US_M2", "RHIB_US_M240", "RHIB_GFI_MG3",
          "RHIB_US_Mk19", "RHIB_RUS_NSV", "RHIB_PKM", "RHIB_RUS_PKP", "RHIB_QJY88", "RHIB_QJZ89">>,
        Crewed(<<"Turret">>, 8), [Turret |-> 1])

OneGun(name, passengers) == Sets(name, Crewed(<<"Turret">>, passengers), [Turret |-> 1])

TowHumvees ==
  <<OneGun("M1151_Light_TOW", 5), OneGun("M1151_Light_TOW_Woodland", 5),
    OneGun("MATV_TOW_Woodland", 3)>>

TowAliases ==
  <<Alias("M1151_Light_TOW_Woodland_CRF", "M1151_Light_TOW_Woodland"),
    Alias("MATV_USMC_TOW", "MATV_TOW"),
    Alias("MATV_USMC_TOW_Woodland", "MATV_TOW_Woodland")>>

CrfLights == <<OneGun("Technical2Seater_Camo_M2_CRF", 3), OneGun("M1151_Light_Woodland_CRF", 5)>>

OpenTops ==
  <<OneGun("M1151", 3), OneGun("M1151_WPMC", 3), OneGun("M1151_M240_WPMC", 3),
    OneGun("M1151_Technical", 3), OneGun("Safir_AGS-17", 3), OneGun("Safir_Kord", 3)>>

(* Most technicals hold what another one was given, of their own hull or   *)
(* not.                                                                    *)
Technicals ==
  LET All(names, of) == [i \in 1..Len(names) |-> Alias(names[i], of)]
      Ags == "Armored_Technical2Seater_Camo_AGS17"
      Dshk == "Technical_Dshk_INS_Armoured"
      M2 == "Technical2Seater_Camo_M2_CRF"
      Two == "Technical2Seater_M134_Black"
      Four == "Technical4Seater_M134_Black"
  IN  <<OneGun(Ags, 3), Alias("Technical2Seater_Camo_AGS17", Ags),
        OneGun(Dshk, 3), Alias("Technical2Seater_White_Dshk", Dshk),
        Alias("Technical2Seater_White_M2", M2),
        Alias("Armored_Technical2Seater_Camo_DSHK", Dshk),
        Alias("Armored_Technical2Seater_Camo_M2", M2),
        Alias("Technical2Seater_Camo_DSHK", Dshk), Alias("Technical2Seater_Camo_M2", M2)>>
      \o <<OneGun(Two, 3)>> \o All(<<"Technical2Seater_M134_Grey", "Technical2Seater_M134_Tan">>, Two)
      \o <<OneGun(Four, 4)>> \o All(<<"Technical4Seater_M134_Grey", "Technical4Seater_M134_Tan">>, Four)
      \o All(<<"Technical2Seater_M2_Black", "Technical2Seater_M2_Grey", "Technical2Seater_M2_Tan">>, M2)

Matvs ==
  <<OneGun("MATV", 3), OneGun("MATV_Woodland", 3), OneGun("MATV_M240", 3),
    OneGun("MATV_M240_Woodland", 3), OneGun("MATV_Mk19", 3), OneGun("MATV_Mk19_Woodland", 3),
    Alias("M1151", "MATV"), OneGun("M1151_Light", 5), OneGun("M1151_Woodland", 3),
    Alias("M1151_Light_Woodland", "M1151_Light_Woodland_CRF")>>

MatvTow == <<OneGun("MATV_TOW", 3)>>

(* Scout cars: a turret and a periscope without a gun. *)
ScoutCars ==
  LET Of(names, passengers, n) ==
        Alike(names, Crewed(<<"Turret", "Periscope">>, passengers), [Turret |-> n, Periscope |-> 0])
  IN  Of(<<"BRDM-2_GFI_Spandrel", "BRDM-2_Spandrel_RUS", "BRDM-2_Spandrel_RUS_Desert">>, 0, 1)
      \o Of(<<"BRDM-2_Insurgents", "BRDM-2_RUS_Desert", "BRDM-2_RUS", "BRDM-2_MIL">>, 2, 3)
      \o Of(<<"BRDM-2L1_AFU">>, 5, 3) \o Of(<<"BRDM-2_GFI">>, 2, 4)

(* The file, top to bottom. *)
Statements ==
  MainBattleTanks \o Abrams \o DoorGunners \o Helicopters \o AirborneCarriers \o BowGunCarriers
  \o Boats \o TowHumvees \o TowAliases \o CrfLights \o OpenTops \o Technicals \o Matvs
  \o MatvTow \o ScoutCars

MaxIn(S) == CHOOSE n \in S : \A m \in S : m <= n

(* The latest of the first k statements that assigns a name; 0: none does. *)
Assigned(name, k) == MaxIn({0} \cup {j \in 1..k : Statements[j].name = name})

(* What each statement assigns: an alias takes what its original holds at  *)
(* that point of the file.                                                 *)
Assigns[k \in 1..Len(Statements)] ==
  LET st == Statements[k]
      original == Assigned(st.of, k - 1)
  IN  IF st.of = None THEN st.to ELSE IF original = 0 THEN None ELSE Assigns[original]

VehicleLoadout(cls) ==
  LET at == Assigned(cls, Len(Statements)) IN IF at = 0 THEN None ELSE Assigns[at]

WeaponsOf(lo, turret) ==
  IF turret # None /\ turret \in DOMAIN lo.weapons THEN lo.weapons[turret] ELSE 0
=============================================================================
