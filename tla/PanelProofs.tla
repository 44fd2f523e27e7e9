----------------------------- MODULE PanelProofs -----------------------------
(***************************************************************************)
(* Proofs about what the screen shows: the panel of the selected vehicle   *)
(* and the catalogue it is drawn from, the rectangle the map is fitted     *)
(* to, the painted scene, and the rosters.                                 *)
(***************************************************************************)
EXTENDS ScreenProofs

-----------------------------------------------------------------------------
(* The catalogue of vehicles *)

Guns == UNION {[D -> Nat] : D \in SUBSET (Stations \cup {"Driver"})}
Rig == [seats : Seq({None} \cup Stations), weapons : Guns]

(* A sequence of statements that give classes a rig or another's.          *)
Fine(s) == \E X : s \in Seq(X) /\ \A x \in X : x.to \in Rig \cup {None}

LEMMA GunsFit ==
  ASSUME NEW w, DOMAIN w \subseteq Stations \cup {"Driver"}, w = [x \in DOMAIN w |-> w[x]],
         \A x \in DOMAIN w : w[x] \in Nat
  PROVE  w \in Guns
<1>1. w \in [DOMAIN w -> Nat]
  OBVIOUS
<1> QED
  BY <1>1 DEF Guns

LEMMA CrewFits ==
  ASSUME NEW t \in Seq({None} \cup Stations), NEW n \in Nat
  PROVE  Crewed(t, n) \in Seq({None} \cup Stations)
<1>1. [i \in 1..n |-> None] \in Seq({None} \cup Stations) /\ <<None>> \in Seq({None} \cup Stations)
  OBVIOUS
<1> QED
  BY <1>1 DEF Crewed

LEMMA SetsFit ==
  ASSUME NEW n, NEW s \in Seq({None} \cup Stations), NEW w \in Guns
  PROVE  Sets(n, s, w).to \in Rig \cup {None}
BY DEF Sets, Rig

LEMMA AliasFits ==
  ASSUME NEW n, NEW o
  PROVE  Alias(n, o).to \in Rig \cup {None}
BY DEF Alias

LEMMA AlikeFits ==
  ASSUME NEW X, NEW names \in Seq(X), NEW s \in Seq({None} \cup Stations), NEW w \in Guns
  PROVE  Fine(Alike(names, s, w))
<1> DEFINE Y == {Sets(names[i], s, w) : i \in 1..Len(names)}
<1>1. Alike(names, s, w) \in Seq(Y)
  BY DEF Alike
<1>2. \A y \in Y : y.to \in Rig \cup {None}
  BY SetsFit
<1> QED
  BY <1>1, <1>2 DEF Fine

LEMMA FineJoin ==
  ASSUME NEW s, Fine(s), NEW t, Fine(t)
  PROVE  Fine(s \o t)
<1>1. PICK X : s \in Seq(X) /\ \A x \in X : x.to \in Rig \cup {None}
  BY DEF Fine
<1>2. PICK Y : t \in Seq(Y) /\ \A x \in Y : x.to \in Rig \cup {None}
  BY DEF Fine
<1>3. s \in Seq(X \cup Y) /\ t \in Seq(X \cup Y)
  BY <1>1, <1>2
<1>4. s \o t \in Seq(X \cup Y)
  BY <1>3
<1>5. \A x \in X \cup Y : x.to \in Rig \cup {None}
  BY <1>1, <1>2
<1> QED
  BY <1>4, <1>5 DEF Fine

\* The guns of a tank's gunner and what its family adds.
LEMMA TanksFit == Fine(MainBattleTanks)
<1> DEFINE W(n) == [Driver |-> 1, Turret |-> n, Roof |-> 1]
           D == [Driver |-> 1]
           c == Crewed(<<"Turret", "Periscope", "Roof">>, 0)
           e == Crewed(<< >>, 1)
           X == {Sets("FV4034", c, W(5)), Sets("LynxATV_Logistic", e, D), Sets("FV4034_Woodland", c, W(5)),
                 Sets("2A6_Desert", c, W(4)), Sets("2A6_Desert_Cage", c, W(4)), Sets("2A6_Woodland", c, W(4))}
<1>1. W(4) \in Guns /\ W(5) \in Guns /\ D \in Guns
  BY GunsFit DEF Stations
<1>2. c \in Seq({None} \cup Stations) /\ e \in Seq({None} \cup Stations)
  <2>1. <<"Turret", "Periscope", "Roof">> \in Seq({None} \cup Stations) /\ << >> \in Seq({None} \cup Stations)
    BY DEF Stations
  <2> QED
    BY <2>1, CrewFits
<1>3. MainBattleTanks \in Seq(X)
  BY DEF MainBattleTanks
<1> HIDE DEF W, D, c, e
<1>4. \A x \in X : x.to \in Rig \cup {None}
  BY <1>1, <1>2, SetsFit
<1> QED
  BY <1>3, <1>4 DEF Fine

LEMMA OneFine ==
  ASSUME NEW st, st.to \in Rig \cup {None}
  PROVE  Fine(<<st>>)
<1> DEFINE X == {st}
           t == <<st>>
<1>1. t \in Seq(X)
  OBVIOUS
<1>2. \A x \in X : x.to \in Rig \cup {None}
  OBVIOUS
<1> HIDE DEF X, t
<1>3. Fine(t)
  BY <1>1, <1>2 DEF Fine
<1> QED
  BY <1>3 DEF t

LEMMA OneGunFits ==
  ASSUME NEW n, NEW k \in Nat
  PROVE  OneGun(n, k).to \in Rig \cup {None}
<1>1. [Turret |-> 1] \in Guns
  BY GunsFit DEF Stations
<1>2. <<"Turret">> \in Seq({None} \cup Stations)
  BY DEF Stations
<1> QED
  BY <1>1, <1>2, CrewFits, SetsFit DEF OneGun

LEMMA AbramsFit == Fine(Abrams)
<1> DEFINE G == [Driver |-> 1, Turret |-> 4]
           a == Overlay(G, [Roof |-> 1])
           b == Overlay(G, [Cupola |-> 1])
           d == Overlay(G, [Crows |-> 1, Loader |-> 1])
           c == Crewed(<<"Turret", "Periscope", "Roof">>, 0)
           e == Crewed(<<"Turret", "Cupola">>, 0)
           f == Crewed(<<"Turret", "Crows", "Loader">>, 0)
           st == Sets("2A6_Woodland_Cage", c, a)
           m == <<"M1A1_USMC", "M1A1_USMC_Woodland", "AUS_M1A1">>
           n == <<"M1A2", "M1A2_Woodland">>
<1>1. a \in Guns /\ b \in Guns /\ d \in Guns
  <2>1. a \in Guns
    BY GunsFit DEF Stations, Overlay
  <2>2. b \in Guns
    BY GunsFit DEF Stations, Overlay
  <2>3. d \in Guns
    BY GunsFit DEF Stations, Overlay
  <2> QED
    BY <2>1, <2>2, <2>3
<1>2. c \in Seq({None} \cup Stations) /\ e \in Seq({None} \cup Stations) /\ f \in Seq({None} \cup Stations)
  <2>1. /\ <<"Turret", "Periscope", "Roof">> \in Seq({None} \cup Stations)
        /\ <<"Turret", "Cupola">> \in Seq({None} \cup Stations)
        /\ <<"Turret", "Crows", "Loader">> \in Seq({None} \cup Stations)
    BY DEF Stations
  <2> QED
    BY <2>1, CrewFits
<1>3. m \in Seq({m[i] : i \in 1..3}) /\ n \in Seq({n[i] : i \in 1..2})
  OBVIOUS
<1>4. Abrams = <<st>> \o Alike(m, e, b) \o Alike(n, f, d)
  BY DEF Abrams
<1> HIDE DEF a, b, c, d, e, f, m, n
<1>5. Fine(<<st>>)
  <2>1. st.to \in Rig \cup {None}
    BY <1>1, <1>2, SetsFit
  <2> QED
    BY <2>1, OneFine
<1>6. Fine(Alike(m, e, b)) /\ Fine(Alike(n, f, d))
  BY <1>1, <1>2, <1>3, AlikeFits
<1> QED
  BY <1>4, <1>5, <1>6, FineJoin

LEMMA DoorGunnersFit == Fine(DoorGunners)
<1> DEFINE T == [Left |-> 1, Right |-> 1]
           S3 == Overlay(T, [Scope |-> 0])
           c == Crewed(<<"Scope", "Left", "Right">>, 7)
           D(n) == Crewed(<<None, "Left", "Right">>, n)
           X == {Sets("CH146_Desert", c, S3), Sets("CH178", D(9), T), Sets("MI8_VDV", D(9), T),
                 Alias("MI8_AFU", "MI8_VDV"), Alias("MI8", "MI8_VDV"), Sets("MRH90_Mag58", D(12), T),
                 Sets("CH146_Raven", D(9), T)}
<1>1. T \in Guns /\ S3 \in Guns
  <2>1. T \in Guns
    BY GunsFit DEF Stations
  <2>2. S3 \in Guns
    BY GunsFit DEF Stations, Overlay
  <2> QED
    BY <2>1, <2>2
<1>2. c \in Seq({None} \cup Stations) /\ D(9) \in Seq({None} \cup Stations) /\ D(12) \in Seq({None} \cup Stations)
  <2>1. /\ <<"Scope", "Left", "Right">> \in Seq({None} \cup Stations)
        /\ <<None, "Left", "Right">> \in Seq({None} \cup Stations)
    BY DEF Stations
  <2> QED
    BY <2>1, CrewFits
<1>3. DoorGunners \in Seq(X)
  BY DEF DoorGunners
<1> HIDE DEF T, S3, c, D
<1>4. \A x \in X : x.to \in Rig \cup {None}
  BY <1>1, <1>2, SetsFit, AliasFits
<1> QED
  BY <1>3, <1>4 DEF Fine

LEMMA HelicoptersFit == Fine(Helicopters)
<1> DEFINE T == [Left |-> 1, Right |-> 1]
           O == [Door |-> 1]
           S2 == [Scope |-> 0, Door |-> 1]
           D(a, b, c) == <<None, a, b, c>> \o [i \in 1..9 |-> None]
           d1 == D(None, "Left", "Right")
           d2 == D("Scope", "Door", "Door")
           d3 == D(None, "Door", "Door")
           X == {Sets("UH1H_GFI", d1, T), Sets("UH1Y", d2, S2), Sets("UH60", d3, O),
                 Sets("UH60_AUS", d1, T), Sets("UH60_TLF_PKM", d3, O)}
<1>1. T \in Guns /\ O \in Guns /\ S2 \in Guns
  <2>1. T \in Guns
    BY GunsFit DEF Stations
  <2>2. O \in Guns
    BY GunsFit DEF Stations
  <2>3. S2 \in Guns
    BY GunsFit DEF Stations
  <2> QED
    BY <2>1, <2>2, <2>3
<1>2. d1 \in Seq({None} \cup Stations) /\ d2 \in Seq({None} \cup Stations) /\ d3 \in Seq({None} \cup Stations)
  <2>1. /\ <<None, None, "Left", "Right">> \in Seq({None} \cup Stations)
        /\ <<None, "Scope", "Door", "Door">> \in Seq({None} \cup Stations)
        /\ <<None, None, "Door", "Door">> \in Seq({None} \cup Stations)
        /\ [i \in 1..9 |-> None] \in Seq({None} \cup Stations)
    BY DEF Stations
  <2> QED
    BY <2>1
<1>3. Helicopters \in Seq(X)
  BY DEF Helicopters
<1> HIDE DEF T, O, S2, d1, d2, d3
<1>4. \A x \in X : x.to \in Rig \cup {None}
  BY <1>1, <1>2, SetsFit
<1> QED
  BY <1>3, <1>4 DEF Fine

LEMMA CarriersFit == Fine(AirborneCarriers) /\ Fine(BowGunCarriers) /\ Fine(Boats)
<1> DEFINE A == [Driver |-> 2, Turret |-> 4]
           B == [Turret |-> 4, BowL |-> 1, BowR |-> 1]
           C == [Turret |-> 6, Periscope |-> 0, BowL |-> 1]
           E == [Driver |-> 1, BowL |-> 1, BowR |-> 1]
           G == Overlay(E, [Roof |-> 1])
           H == [Turret |-> 1]
           one == Crewed(<<"Turret">>, 0)
           bows == Crewed(<<"Turret", "BowL", "BowR">>, 0)
           two == Crewed(<<"Turret", "Periscope">>, 0)
           sides == Crewed(<<"BowL", "BowR">>, 8)
           roof == Crewed(<<"Roof", "BowL", "BowR">>, 7)
           boat == Crewed(<<"Turret">>, 8)
           X == {Sets("ACV-15", one, A), Sets("ACV-15_Desert", one, A), Sets("BMD1M", bows, B),
                 Sets("BMD1M_Desert", bows, B), Sets("BMD4M_Desert", two, C)}
           m == <<"BTR-D_Transport", "BTR-D_Transport_Desert">>
           n == <<"BTR-D_AGS17", "BTR-D_AGS17_Desert", "BTR-D_Kord", "BTR-D_Kord_Desert",
                  "BTR-D_PKM", "BTR-D_PKM_Desert">>
           o == <<"RHIB_AGS17", "RHIB_DSHK", "RHIB_US_M134", "RHIB_US_M2", "RHIB_US_M240", "RHIB_GFI_MG3",
                  "RHIB_US_Mk19", "RHIB_RUS_NSV", "RHIB_PKM", "RHIB_RUS_PKP", "RHIB_QJY88", "RHIB_QJZ89">>
<1>1. A \in Guns /\ B \in Guns /\ C \in Guns /\ E \in Guns /\ G \in Guns /\ H \in Guns
  <2>1. A \in Guns /\ H \in Guns
    BY GunsFit DEF Stations
  <2>2. B \in Guns
    BY GunsFit DEF Stations
  <2>3. C \in Guns
    BY GunsFit DEF Stations
  <2>4. E \in Guns
    BY GunsFit DEF Stations
  <2>5. G \in Guns
    BY GunsFit DEF Stations, Overlay
  <2> QED
    BY <2>1, <2>2, <2>3, <2>4, <2>5
<1>2. /\ one \in Seq({None} \cup Stations) /\ bows \in Seq({None} \cup Stations)
      /\ two \in Seq({None} \cup Stations) /\ sides \in Seq({None} \cup Stations)
      /\ roof \in Seq({None} \cup Stations) /\ boat \in Seq({None} \cup Stations)
  <2>1. /\ <<"Turret">> \in Seq({None} \cup Stations)
        /\ <<"Turret", "BowL", "BowR">> \in Seq({None} \cup Stations)
        /\ <<"Turret", "Periscope">> \in Seq({None} \cup Stations)
        /\ <<"BowL", "BowR">> \in Seq({None} \cup Stations)
        /\ <<"Roof", "BowL", "BowR">> \in Seq({None} \cup Stations)
    BY DEF Stations
  <2> QED
    BY <2>1, CrewFits
<1>3. m \in Seq({m[i] : i \in 1..2}) /\ n \in Seq({n[i] : i \in 1..6}) /\ o \in Seq({o[i] : i \in 1..12})
  <2>1. m \in Seq({m[i] : i \in 1..2})
    OBVIOUS
  <2>2. n \in Seq({n[i] : i \in 1..6})
    OBVIOUS
  <2>3. o \in Seq({o[i] : i \in 1..12})
    OBVIOUS
  <2> QED
    BY <2>1, <2>2, <2>3
<1>4. AirborneCarriers \in Seq(X)
  BY DEF AirborneCarriers
<1>5. BowGunCarriers = Alike(m, sides, E) \o Alike(n, roof, G) /\ Boats = Alike(o, boat, H)
  BY DEF BowGunCarriers, Boats
<1> HIDE DEF A, B, C, E, G, H, one, bows, two, sides, roof, boat, m, n, o
<1>6. \A x \in X : x.to \in Rig \cup {None}
  BY <1>1, <1>2, SetsFit
<1>7. Fine(AirborneCarriers)
  BY <1>4, <1>6 DEF Fine
<1>8. Fine(Alike(m, sides, E)) /\ Fine(Alike(n, roof, G)) /\ Fine(Alike(o, boat, H))
  BY <1>1, <1>2, <1>3, AlikeFits
<1> QED
  BY <1>5, <1>7, <1>8, FineJoin

LEMMA LightsFit ==
  /\ Fine(TowHumvees) /\ Fine(TowAliases) /\ Fine(CrfLights) /\ Fine(OpenTops) /\ Fine(Matvs) /\ Fine(MatvTow)
<1>1. Fine(TowHumvees)
  <2> DEFINE X == {OneGun("M1151_Light_TOW", 5), OneGun("M1151_Light_TOW_Woodland", 5),
                   OneGun("MATV_TOW_Woodland", 3)}
  <2>1. TowHumvees \in Seq(X)
    BY DEF TowHumvees
  <2>2. \A x \in X : x.to \in Rig \cup {None}
    BY OneGunFits
  <2> QED
    BY <2>1, <2>2 DEF Fine
<1>2. Fine(TowAliases)
  <2> DEFINE X == {Alias("M1151_Light_TOW_Woodland_CRF", "M1151_Light_TOW_Woodland"),
                   Alias("MATV_USMC_TOW", "MATV_TOW"),
                   Alias("MATV_USMC_TOW_Woodland", "MATV_TOW_Woodland")}
  <2>1. TowAliases \in Seq(X)
    BY DEF TowAliases
  <2>2. \A x \in X : x.to \in Rig \cup {None}
    BY AliasFits
  <2> QED
    BY <2>1, <2>2 DEF Fine
<1>3. Fine(CrfLights)
  <2> DEFINE X == {OneGun("Technical2Seater_Camo_M2_CRF", 3), OneGun("M1151_Light_Woodland_CRF", 5)}
  <2>1. CrfLights \in Seq(X)
    BY DEF CrfLights
  <2>2. \A x \in X : x.to \in Rig \cup {None}
    BY OneGunFits
  <2> QED
    BY <2>1, <2>2 DEF Fine
<1>4. Fine(OpenTops)
  <2> DEFINE X == {OneGun("M1151", 3), OneGun("M1151_WPMC", 3), OneGun("M1151_M240_WPMC", 3),
                   OneGun("M1151_Technical", 3), OneGun("Safir_AGS-17", 3), OneGun("Safir_Kord", 3)}
  <2>1. OpenTops \in Seq(X)
    BY DEF OpenTops
  <2>2. \A x \in X : x.to \in Rig \cup {None}
    BY OneGunFits
  <2> QED
    BY <2>1, <2>2 DEF Fine
<1>5. Fine(Matvs)
  <2> DEFINE X == {OneGun("MATV", 3), OneGun("MATV_Woodland", 3), OneGun("MATV_M240", 3),
                   OneGun("MATV_M240_Woodland", 3), OneGun("MATV_Mk19", 3), OneGun("MATV_Mk19_Woodland", 3),
                   Alias("M1151", "MATV"), OneGun("M1151_Light", 5), OneGun("M1151_Woodland", 3),
                   Alias("M1151_Light_Woodland", "M1151_Light_Woodland_CRF")}
  <2>1. Matvs \in Seq(X)
    BY DEF Matvs
  <2>2. \A x \in X : x.to \in Rig \cup {None}
    BY OneGunFits, AliasFits
  <2> QED
    BY <2>1, <2>2 DEF Fine
<1>6. Fine(MatvTow)
  <2>1. MatvTow \in Seq({OneGun("MATV_TOW", 3)})
    BY DEF MatvTow
  <2>2. \A x \in {OneGun("MATV_TOW", 3)} : x.to \in Rig \cup {None}
    BY OneGunFits
  <2> QED
    BY <2>1, <2>2 DEF Fine
<1> QED
  BY <1>1, <1>2, <1>3, <1>4, <1>5, <1>6

\* Several aliases of one class, and the guns of the technicals.
LEMMA AliasesFit ==
  ASSUME NEW X, NEW names \in Seq(X), NEW of
  PROVE  Fine([i \in 1..Len(names) |-> Alias(names[i], of)])
<1> DEFINE Y == {Alias(names[i], of) : i \in 1..Len(names)}
<1>1. [i \in 1..Len(names) |-> Alias(names[i], of)] \in Seq(Y)
  OBVIOUS
<1>2. \A y \in Y : y.to \in Rig \cup {None}
  BY AliasFits
<1> QED
  BY <1>1, <1>2 DEF Fine

LEMMA TechnicalsFit == Fine(Technicals)
<1> DEFINE Ags == "Armored_Technical2Seater_Camo_AGS17"
           Dshk == "Technical_Dshk_INS_Armoured"
           M2 == "Technical2Seater_Camo_M2_CRF"
           Two == "Technical2Seater_M134_Black"
           Four == "Technical4Seater_M134_Black"
           X == {OneGun(Ags, 3), Alias("Technical2Seater_Camo_AGS17", Ags),
                 OneGun(Dshk, 3), Alias("Technical2Seater_White_Dshk", Dshk),
                 Alias("Technical2Seater_White_M2", M2),
                 Alias("Armored_Technical2Seater_Camo_DSHK", Dshk),
                 Alias("Armored_Technical2Seater_Camo_M2", M2),
                 Alias("Technical2Seater_Camo_DSHK", Dshk), Alias("Technical2Seater_Camo_M2", M2)}
           old == <<OneGun(Ags, 3), Alias("Technical2Seater_Camo_AGS17", Ags),
                    OneGun(Dshk, 3), Alias("Technical2Seater_White_Dshk", Dshk),
                    Alias("Technical2Seater_White_M2", M2),
                    Alias("Armored_Technical2Seater_Camo_DSHK", Dshk),
                    Alias("Armored_Technical2Seater_Camo_M2", M2),
                    Alias("Technical2Seater_Camo_DSHK", Dshk), Alias("Technical2Seater_Camo_M2", M2)>>
           All(names, of) == [i \in 1..Len(names) |-> Alias(names[i], of)]
           twos == <<"Technical2Seater_M134_Grey", "Technical2Seater_M134_Tan">>
           fours == <<"Technical4Seater_M134_Grey", "Technical4Seater_M134_Tan">>
           browns == <<"Technical2Seater_M2_Black", "Technical2Seater_M2_Grey", "Technical2Seater_M2_Tan">>
<1>1. twos \in Seq({twos[i] : i \in 1..2}) /\ fours \in Seq({fours[i] : i \in 1..2})
      /\ browns \in Seq({browns[i] : i \in 1..3})
  OBVIOUS
<1>2. Technicals = old \o <<OneGun(Two, 3)>> \o All(twos, Two) \o <<OneGun(Four, 4)>>
                   \o All(fours, Four) \o All(browns, M2)
  BY DEF Technicals
<1>3. Fine(old)
  <2>1. old \in Seq(X)
    OBVIOUS
  <2>2. \A x \in X : x.to \in Rig \cup {None}
    BY OneGunFits, AliasFits
  <2> HIDE DEF X, old
  <2> QED
    BY <2>1, <2>2 DEF Fine
<1>4. Fine(<<OneGun(Two, 3)>>) /\ Fine(<<OneGun(Four, 4)>>)
  BY OneGunFits, OneFine
<1> HIDE DEF Ags, Dshk, M2, Two, Four, old, twos, fours, browns
<1>5. Fine(All(twos, Two)) /\ Fine(All(fours, Four)) /\ Fine(All(browns, M2))
  BY <1>1, AliasesFit
<1> HIDE DEF All
<1>6. Fine(old \o <<OneGun(Two, 3)>> \o All(twos, Two))
  BY <1>3, <1>4, <1>5, FineJoin
<1>7. Fine(old \o <<OneGun(Two, 3)>> \o All(twos, Two) \o <<OneGun(Four, 4)>> \o All(fours, Four))
  BY <1>4, <1>5, <1>6, FineJoin
<1> QED
  BY <1>2, <1>5, <1>7, FineJoin

LEMMA ScoutCarsFit == Fine(ScoutCars)
<1> DEFINE W(n) == [Turret |-> n, Periscope |-> 0]
           C(n) == Crewed(<<"Turret", "Periscope">>, n)
           a == <<"BRDM-2_GFI_Spandrel", "BRDM-2_Spandrel_RUS", "BRDM-2_Spandrel_RUS_Desert">>
           b == <<"BRDM-2_Insurgents", "BRDM-2_RUS_Desert", "BRDM-2_RUS", "BRDM-2_MIL">>
           c == <<"BRDM-2L1_AFU">>
           d == <<"BRDM-2_GFI">>
<1>1. W(1) \in Guns /\ W(3) \in Guns /\ W(4) \in Guns
  BY GunsFit DEF Stations
<1>2. C(0) \in Seq({None} \cup Stations) /\ C(2) \in Seq({None} \cup Stations) /\ C(5) \in Seq({None} \cup Stations)
  <2>1. <<"Turret", "Periscope">> \in Seq({None} \cup Stations)
    BY DEF Stations
  <2> QED
    BY <2>1, CrewFits
<1>3. /\ a \in Seq({a[i] : i \in 1..3}) /\ b \in Seq({b[i] : i \in 1..4})
      /\ c \in Seq({c[i] : i \in 1..1}) /\ d \in Seq({d[i] : i \in 1..1})
  OBVIOUS
<1>4. ScoutCars = Alike(a, C(0), W(1)) \o Alike(b, C(2), W(3)) \o Alike(c, C(5), W(3)) \o Alike(d, C(2), W(4))
  BY DEF ScoutCars
<1> HIDE DEF W, C, a, b, c, d
<1>5. /\ Fine(Alike(a, C(0), W(1))) /\ Fine(Alike(b, C(2), W(3)))
      /\ Fine(Alike(c, C(5), W(3))) /\ Fine(Alike(d, C(2), W(4)))
  BY <1>1, <1>2, <1>3, AlikeFits
<1>6. Fine(Alike(a, C(0), W(1)) \o Alike(b, C(2), W(3)) \o Alike(c, C(5), W(3)))
  BY <1>5, FineJoin
<1> QED
  BY <1>4, <1>5, <1>6, FineJoin

\* What the file assigns is a rig or another class's.
LEMMA StatementsFit ==
  /\ Len(Statements) \in Nat
  /\ \A k \in 1..Len(Statements) : Statements[k].to \in Rig \cup {None}
<1> DEFINE a == MainBattleTanks \o Abrams \o DoorGunners \o Helicopters
           b == a \o AirborneCarriers \o BowGunCarriers \o Boats
           c == b \o TowHumvees \o TowAliases \o CrfLights \o OpenTops
<1>1. Fine(MainBattleTanks \o Abrams)
  BY TanksFit, AbramsFit, FineJoin
<1>2. Fine(MainBattleTanks \o Abrams \o DoorGunners)
  BY <1>1, DoorGunnersFit, FineJoin
<1>3. Fine(a)
  BY <1>2, HelicoptersFit, FineJoin
<1> HIDE DEF a
<1>4. Fine(a \o AirborneCarriers \o BowGunCarriers)
  <2>1. Fine(a \o AirborneCarriers)
    BY <1>3, CarriersFit, FineJoin
  <2> QED
    BY <2>1, CarriersFit, FineJoin
<1>5. Fine(b)
  BY <1>4, CarriersFit, FineJoin
<1> HIDE DEF b
<1>6. Fine(b \o TowHumvees \o TowAliases)
  <2>1. Fine(b \o TowHumvees)
    BY <1>5, LightsFit, FineJoin
  <2> QED
    BY <2>1, LightsFit, FineJoin
<1>7. Fine(b \o TowHumvees \o TowAliases \o CrfLights)
  BY <1>6, LightsFit, FineJoin
<1>8. Fine(c)
  BY <1>7, LightsFit, FineJoin
<1> HIDE DEF c
<1>9. Statements = c \o Technicals \o Matvs \o MatvTow \o ScoutCars
  BY DEF Statements, a, b, c
<1>10. Fine(c \o Technicals \o Matvs)
  <2>1. Fine(c \o Technicals)
    BY <1>8, TechnicalsFit, FineJoin
  <2> QED
    BY <2>1, LightsFit, FineJoin
<1>11. Fine(c \o Technicals \o Matvs \o MatvTow)
  BY <1>10, LightsFit, FineJoin
<1>12. Fine(Statements)
  BY <1>9, <1>11, ScoutCarsFit, FineJoin
<1>13. PICK X : Statements \in Seq(X) /\ \A x \in X : x.to \in Rig \cup {None}
  BY <1>12 DEF Fine
<1> QED
  BY <1>13

LEMMA AssignedIs ==
  ASSUME NEW name, NEW k \in Nat
  PROVE  Assigned(name, k) \in 0..k
<1> DEFINE A == {0} \cup {j \in 1..k : Statements[j].name = name}
           T == {k - x : x \in A}
<1>1. A \subseteq 0..k /\ 0 \in A
  OBVIOUS
<1> HIDE DEF A
<1>2. T \in SUBSET Nat /\ T # {}
  <2>1. \A x \in A : k - x \in Nat
    BY <1>1
  <2> QED
    BY <1>1, <2>1
<1>3. PICK m \in T : \A t \in T : m <= t
  BY <1>2, LeastNat
<1>4. PICK x \in A : m = k - x
  BY <1>3
<1>5. \A y \in A : y <= x
  <2> SUFFICES ASSUME NEW y \in A PROVE y <= x
    OBVIOUS
  <2>1. m <= k - y
    BY <1>3
  <2> QED
    BY <1>1, <1>4, <2>1
<1>6. MaxIn(A) \in A
  BY <1>5 DEF MaxIn
<1>7. Assigned(name, k) = MaxIn(A)
  BY DEF Assigned, A
<1> QED
  BY <1>1, <1>6, <1>7

(* What statement k assigns when g says what those before it did.          *)
Given(g, k) ==
  LET original == Assigned(Statements[k].of, k - 1)
  IN  IF Statements[k].of = None THEN Statements[k].to
      ELSE IF original = 0 THEN None ELSE g[original]

LEMMA AssignsExist ==
  ASSUME NEW n \in Nat
  PROVE  \E g : g = [k \in 1..n |-> Given(g, k)]
<1> DEFINE Is(g, k) == g = [i \in 1..k |-> Given(g, i)]
           T == {k \in Nat : ~\E g : Is(g, k)}
<1> SUFFICES ASSUME T # {} PROVE FALSE
  OBVIOUS
<1>1. PICK m \in T : \A k \in T : m <= k
  BY LeastNat
<1>2. m \in Nat /\ ~\E g : Is(g, m)
  OBVIOUS
<1>3. CASE m = 0
  <2> DEFINE e == [i \in 1..0 |-> 0]
  <2>1. Is(e, 0)
    OBVIOUS
  <2> QED
    BY <1>2, <1>3, <2>1
<1>4. CASE m # 0
  <2>1. m - 1 \in Nat
    BY <1>2, <1>4
  <2>2. m - 1 \notin T
    <3> SUFFICES ASSUME m - 1 \in T PROVE FALSE
      OBVIOUS
    <3>1. m <= m - 1
      BY <1>1
    <3> QED
      BY <1>2, <3>1
  <2>3. PICK h : Is(h, m - 1)
    BY <2>1, <2>2
  <2> DEFINE g == [i \in 1..m |-> IF i < m THEN h[i] ELSE Given(h, m)]
  <2>4. \A i \in 1..m : Given(g, i) = Given(h, i)
    <3> SUFFICES ASSUME NEW i \in 1..m PROVE Given(g, i) = Given(h, i)
      OBVIOUS
    <3>1. i - 1 \in Nat
      OBVIOUS
    <3>2. Assigned(Statements[i].of, i - 1) \in 0..i - 1
      BY <3>1, AssignedIs
    <3>3. Assigned(Statements[i].of, i - 1) # 0 =>
            g[Assigned(Statements[i].of, i - 1)] = h[Assigned(Statements[i].of, i - 1)]
      BY <1>2, <3>2
    <3> QED
      BY <3>3 DEF Given
  <2>5. \A i \in 1..m : g[i] = Given(h, i)
    <3> SUFFICES ASSUME NEW i \in 1..m PROVE g[i] = Given(h, i)
      OBVIOUS
    <3>1. CASE i < m
      <4>1. i \in 1..m - 1 /\ g[i] = h[i]
        BY <1>2, <3>1
      <4> QED
        BY <2>3, <4>1
    <3>2. CASE i = m
      BY <1>2, <3>2
    <3> QED
      BY <1>2, <3>1, <3>2
  <2>6. Is(g, m)
    BY <2>4, <2>5
  <2> QED
    BY <1>2, <2>6
<1> QED
  BY <1>2, <1>3, <1>4

\* The catalogue has a rig for a class, or nothing.
LEMMA LoadoutFits ==
  ASSUME NEW c
  PROVE  VehicleLoadout(c) \in Rig \cup {None}
<1> DEFINE n == Len(Statements)
           T == {k \in 1..n : Assigns[k] \notin Rig \cup {None}}
<1>1. n \in Nat /\ \A k \in 1..n : Statements[k].to \in Rig \cup {None}
  BY StatementsFit
<1>2. Assigns = [k \in 1..n |-> Given(Assigns, k)]
  <2>1. Assigns = CHOOSE g : g = [k \in 1..n |-> Given(g, k)]
    BY DEF Assigns, Given
  <2>2. \E g : g = [k \in 1..n |-> Given(g, k)]
    BY <1>1, AssignsExist
  <2> QED
    BY <2>1, <2>2
<1> HIDE DEF n
<1>3. T = {}
  <2> SUFFICES ASSUME T # {} PROVE FALSE
    OBVIOUS
  <2>0. T \in SUBSET Nat
    BY <1>1
  <2>1. PICK m \in T : \A k \in T : m <= k
    BY <2>0, LeastNat
  <2>2. m \in 1..n /\ Assigns[m] \notin Rig \cup {None}
    BY <2>1
  <2>3. Assigns[m] = Given(Assigns, m)
    BY <1>2, <2>2
  <2> DEFINE o == Assigned(Statements[m].of, m - 1)
  <2>4. m - 1 \in Nat
    BY <1>1, <2>2
  <2>5. o \in 0..m - 1
    BY <2>4, AssignedIs
  <2>6. o # 0 => o \in 1..n /\ ~(m <= o)
    BY <1>1, <2>2, <2>5
  <2>7. o # 0 => Assigns[o] \in Rig \cup {None}
    BY <2>1, <2>6
  <2> HIDE DEF o
  <2>8. Given(Assigns, m) = IF Statements[m].of = None THEN Statements[m].to
                            ELSE IF o = 0 THEN None ELSE Assigns[o]
    BY DEF Given, o
  <2> QED
    BY <1>1, <2>2, <2>3, <2>7, <2>8
<1>4. Assigned(c, n) \in 0..n
  BY <1>1, AssignedIs
<1>5. Assigned(c, n) # 0 => Assigned(c, n) \in 1..n
  BY <1>1, <1>4
<1> QED
  BY <1>3, <1>5 DEF VehicleLoadout, n

-----------------------------------------------------------------------------
(* The vehicle between frames *)

VehicleOn == [VehicleNext]_vehicleVars

LEMMA VehicleParts ==
  /\ ScreenInit => VehicleInit \/ VehicleOff
  /\ [ScreenNext]_screenVars => VehicleOn
<1>1. ASSUME UNCHANGED screenVars PROVE VehicleOn
  BY <1>1 DEF screenVars, VehicleOn
<1>2. ASSUME ScreenNext PROVE VehicleOn
  BY <1>2 DEF ScreenNext, VehicleOn
<1>3. ScreenInit => VehicleInit \/ VehicleOff
  BY DEF ScreenInit
<1> QED
  BY <1>1, <1>2, <1>3

TurretRec == [cls : {Unmatched} \cup Stations, mags : {None, 0, 2}, weapon : {None, 1, 2}]

(* Each turret of a known class has a seat of that class to itself.        *)
SeatedBy(f, ts, seats) ==
  /\ \A t \in 1..Len(ts) : ts[t].cls # Unmatched => f[t] \in 1..Len(seats) /\ seats[f[t]] = ts[t].cls
  /\ \A t, u \in 1..Len(ts) : ts[t].cls # Unmatched /\ ts[u].cls # Unmatched /\ f[t] = f[u] => t = u

VehicleInv ==
  veh # None =>
    /\ veh \in Classes /\ loadout \in Rig \cup {None} /\ inSnap \in BOOLEAN /\ seatsRead \in BOOLEAN
    /\ men \in [Men -> {None} \cup 1..RealSeats]
    /\ \A m, o \in Men : men[m] # None /\ men[m] = men[o] => m = o
    /\ turrets \in Seq(TurretRec)
    /\ \A t \in 1..Len(turrets) : turrets[t].mags # None => turrets[t].weapon # None
    /\ loadout # None => \E f : SeatedBy(f, turrets, loadout.seats)
    /\ parts = PartsOf[veh]

LEMMA RealSeatsNat ==
  ASSUME loadout \in Rig \cup {None}
  PROVE  RealSeats \in Nat
<1>1. loadout # None => Len(loadout.seats) \in Nat
  BY DEF Rig
<1> QED
  BY <1>1, VehicleAssumption DEF RealSeats

Asleep(cls) == [cls |-> cls, mags |-> None, weapon |-> None]
AllAsleep(s) == [i \in 1..Len(s) |-> Asleep(s[i])]

\* Turrets asleep are turrets, and seated when their classes are.
LEMMA AsleepAre ==
  ASSUME NEW s \in Seq({Unmatched} \cup Stations)
  PROVE  /\ AllAsleep(s) \in Seq(TurretRec) /\ Len(AllAsleep(s)) = Len(s)
         /\ \A t \in 1..Len(s) : AllAsleep(s)[t] = Asleep(s[t]) /\ AllAsleep(s)[t].cls = s[t] /\ AllAsleep(s)[t].mags = None
<1>1. \A t \in 1..Len(s) : Asleep(s[t]) \in TurretRec
  BY DEF Asleep, TurretRec
<1>2. AllAsleep(s) \in Seq(TurretRec) /\ Len(AllAsleep(s)) = Len(s)
  BY <1>1 DEF AllAsleep
<1> QED
  BY <1>2 DEF AllAsleep, Asleep

LEMMA TurretsFit ==
  ASSUME NEW lo \in Rig \cup {None}, NEW ts \in LiveTurrets(lo)
  PROVE  /\ ts \in Seq(TurretRec)
         /\ \A t \in 1..Len(ts) : ts[t].mags = None
         /\ lo # None => \E f : SeatedBy(f, ts, lo.seats)
<1> DEFINE D == {i \in 1..Len(lo.seats) : lo.seats[i] # None}
           known == IF lo = None THEN <<"Turret">> ELSE AtPlaces(lo.seats, D)
           n == Len(known)
           late == IF known = << >> THEN known ELSE <<Unmatched>> \o Tail(known)
<1>1. /\ known \in Seq(Stations) /\ n \in Nat
      /\ lo # None => Picks(known, lo.seats, D) /\ D \subseteq 1..Len(lo.seats)
  <2>1. CASE lo = None
    <3>1. <<"Turret">> \in Seq(Stations)
      BY DEF Stations
    <3> QED
      BY <2>1, <3>1
  <2>2. CASE lo # None
    <3>1. lo.seats \in Seq({None} \cup Stations) /\ Len(lo.seats) \in Nat
      BY <2>2 DEF Rig
    <3>2. Picks(known, lo.seats, D)
      BY <2>2, <3>1, PlacesPick
    <3>3. \A i \in D : lo.seats[i] \in Stations
      BY <3>1
    <3> HIDE DEF D, known
    <3>4. n \in Nat /\ known = [m \in 1..n |-> known[m]] /\ \A m \in 1..n : known[m] \in Stations
      BY <3>2, <3>3 DEF Picks
    <3>5. D \subseteq 1..Len(lo.seats)
      BY DEF D
    <3> QED
      BY <3>2, <3>4, <3>5
  <2> QED
    BY <2>1, <2>2
<1>2. ts \in {AllAsleep(s) : s \in {known, Reverse(known), late}} \cup {Append(AllAsleep(known), Asleep(Unmatched))}
  BY DEF LiveTurrets, AllAsleep, Asleep
<1> DEFINE g == [t \in 1..n + 1 |-> NthOf(D, t)]
           h == [t \in 1..n |-> NthOf(D, n - t + 1)]
<1> HIDE DEF D, known
<1>3. lo # None => /\ \A t \in 1..n : NthOf(D, t) \in 1..Len(lo.seats) /\ known[t] = lo.seats[NthOf(D, t)]
                   /\ \A t, u \in 1..n : NthOf(D, t) = NthOf(D, u) => t = u
  BY <1>1 DEF Picks
<1>4. CASE ts = AllAsleep(known)
  <2>1. ts \in Seq(TurretRec) /\ Len(ts) = n /\ \A t \in 1..n : ts[t].cls = known[t] /\ ts[t].mags = None
    BY <1>1, <1>4, AsleepAre
  <2>2. lo # None => SeatedBy(g, ts, lo.seats)
    BY <1>1, <1>3, <2>1 DEF SeatedBy
  <2> QED
    BY <2>1, <2>2
<1>5. CASE ts = AllAsleep(Reverse(known))
  <2>1. Reverse(known) \in Seq(Stations) /\ Len(Reverse(known)) = n
        /\ \A t \in 1..n : n - t + 1 \in 1..n /\ Reverse(known)[t] = known[n - t + 1]
    BY <1>1 DEF Reverse
  <2>2. ts \in Seq(TurretRec) /\ Len(ts) = n /\ \A t \in 1..n : ts[t].cls = known[n - t + 1] /\ ts[t].mags = None
    BY <1>5, <2>1, AsleepAre
  <2>3. lo # None => SeatedBy(h, ts, lo.seats)
    <3> SUFFICES ASSUME lo # None PROVE SeatedBy(h, ts, lo.seats)
      OBVIOUS
    <3>1. \A t \in 1..n : h[t] \in 1..Len(lo.seats) /\ lo.seats[h[t]] = ts[t].cls
      BY <1>3, <2>1, <2>2
    <3>2. \A t, u \in 1..n : h[t] = h[u] => t = u
      <4> SUFFICES ASSUME NEW t \in 1..n, NEW u \in 1..n, h[t] = h[u] PROVE t = u
        OBVIOUS
      <4>1. n - t + 1 = n - u + 1
        BY <1>3, <2>1
      <4> QED
        BY <1>1, <4>1
    <3> QED
      BY <2>2, <3>1, <3>2 DEF SeatedBy
  <2> QED
    BY <2>2, <2>3
<1>6. CASE ts = AllAsleep(late)
  <2>1. late \in Seq({Unmatched} \cup Stations) /\ Len(late) = n
        /\ \A t \in 1..n : late[t] = known[t] \/ late[t] = Unmatched
    <3>1. CASE known = << >>
      BY <1>1, <3>1
    <3>2. CASE known # << >>
      <4>1. Tail(known) \in Seq(Stations) /\ Len(Tail(known)) = n - 1 /\ n > 0
            /\ \A t \in 1..n - 1 : Tail(known)[t] = known[t + 1]
        BY <1>1, <3>2
      <4>2. <<Unmatched>> \in Seq({Unmatched} \cup Stations) /\ Tail(known) \in Seq({Unmatched} \cup Stations)
        BY <4>1
      <4>3. late = <<Unmatched>> \o Tail(known) /\ late \in Seq({Unmatched} \cup Stations)
        BY <3>2, <4>2
      <4>4. Len(late) = n
        BY <1>1, <4>1, <4>3
      <4>5. \A t \in 1..n : late[t] = IF t = 1 THEN Unmatched ELSE Tail(known)[t - 1]
        BY <1>1, <4>1, <4>2, <4>3
      <4>6. \A t \in 1..n : t # 1 => t - 1 \in 1..n - 1 /\ (t - 1) + 1 = t
        BY <1>1
      <4> QED
        BY <4>1, <4>3, <4>4, <4>5, <4>6
    <3> QED
      BY <3>1, <3>2
  <2> HIDE DEF late
  <2>2. ts \in Seq(TurretRec) /\ Len(ts) = n /\ \A t \in 1..n : ts[t].cls = late[t] /\ ts[t].mags = None
    BY <1>6, <2>1, AsleepAre
  <2>3. lo # None => SeatedBy(g, ts, lo.seats)
    BY <1>1, <1>3, <2>1, <2>2 DEF SeatedBy
  <2> QED
    BY <2>2, <2>3
<1>7. CASE ts = Append(AllAsleep(known), Asleep(Unmatched))
  <2>1. AllAsleep(known) \in Seq(TurretRec) /\ Len(AllAsleep(known)) = n
        /\ \A t \in 1..n : AllAsleep(known)[t].cls = known[t] /\ AllAsleep(known)[t].mags = None
    BY <1>1, AsleepAre
  <2>2. Asleep(Unmatched) \in TurretRec /\ Asleep(Unmatched).cls = Unmatched /\ Asleep(Unmatched).mags = None
    BY DEF Asleep, TurretRec
  <2>3. ts \in Seq(TurretRec) /\ Len(ts) = n + 1
        /\ \A t \in 1..n + 1 : ts[t] = IF t = n + 1 THEN Asleep(Unmatched) ELSE AllAsleep(known)[t]
    BY <1>1, <1>7, <2>1, <2>2
  <2>4. \A t \in 1..n + 1 : t # n + 1 => t \in 1..n
    BY <1>1
  <2>5. \A t \in 1..n + 1 : ts[t].mags = None /\ (ts[t].cls # Unmatched => t \in 1..n /\ ts[t].cls = known[t])
    BY <2>1, <2>2, <2>3, <2>4
  <2>6. lo # None => SeatedBy(g, ts, lo.seats)
    BY <1>1, <1>3, <2>3, <2>5 DEF SeatedBy
  <2> QED
    BY <2>3, <2>5, <2>6
<1> QED
  BY <1>2, <1>4, <1>5, <1>6, <1>7

LEMMA VehicleStarts ==
  ASSUME VehicleInit \/ VehicleOff
  PROVE  VehicleInv
<1>1. CASE VehicleOff
  BY <1>1 DEF VehicleOff, VehicleInv
<1>2. CASE VehicleInit
  <2>1. loadout \in Rig \cup {None}
    BY <1>2, LoadoutFits DEF VehicleInit
  <2>2. /\ turrets \in Seq(TurretRec)
        /\ \A t \in 1..Len(turrets) : turrets[t].mags = None
        /\ loadout # None => \E f : SeatedBy(f, turrets, loadout.seats)
    BY <1>2, <2>1, TurretsFit DEF VehicleInit
  <2>3. men \in [Men -> {None} \cup 1..RealSeats] /\ \A m \in Men : men[m] = None
    BY <1>2 DEF VehicleInit
  <2>4. veh \in Classes /\ inSnap = TRUE /\ seatsRead = TRUE /\ parts = PartsOf[veh]
    BY <1>2 DEF VehicleInit
  <2> QED
    BY <2>1, <2>2, <2>3, <2>4 DEF VehicleInv
<1> QED
  BY <1>1, <1>2

LEMMA VehicleKeeps ==
  ASSUME VehicleInv, VehicleOn
  PROVE  VehicleInv'
<1>1. CASE UNCHANGED vehicleVars
  <2>1. UNCHANGED <<veh, loadout, inSnap, men, seatsRead, turrets, parts>>
    BY <1>1 DEF vehicleVars
  <2> QED
    BY <2>1 DEF VehicleInv, RealSeats
<1>2. CASE VehicleNext
  <2>0. veh # None
    BY <1>2 DEF VehicleNext
  <2>1. ASSUME NEW m \in Men, NEW i \in {None} \cup 1..RealSeats, Board(m, i)
        PROVE  VehicleInv'
    <3>1. /\ men' = [men EXCEPT ![m] = i]
          /\ UNCHANGED <<veh, loadout, inSnap, seatsRead, turrets, parts>>
          /\ i # None => \A o \in Men : men[o] # i
      BY <2>1 DEF Board
    <3>2. RealSeats' = RealSeats
      BY <3>1 DEF RealSeats
    <3>3. men \in [Men -> {None} \cup 1..RealSeats] /\ \A k, o \in Men : men[k] # None /\ men[k] = men[o] => k = o
      BY <2>0 DEF VehicleInv
    <3>4. men' \in [Men -> {None} \cup 1..RealSeats]
      BY <3>1, <3>3
    <3>5. \A k, o \in Men : men'[k] # None /\ men'[k] = men'[o] => k = o
      BY <3>1, <3>3
    <3> QED
      BY <3>1, <3>2, <3>4, <3>5 DEF VehicleInv
  <2>2. ASSUME NEW t \in 1..Len(turrets), NEW n \in {None, 0, 2},
               NEW w \in IF n = None THEN {None} ELSE {1, 2}, Magazines(t, n, w)
        PROVE  VehicleInv'
    <3>1. /\ turrets' = [turrets EXCEPT ![t] = [cls |-> turrets[t].cls, mags |-> n, weapon |-> w]]
          /\ UNCHANGED <<veh, loadout, inSnap, men, seatsRead, parts>>
      BY <2>2 DEF Magazines
    <3>2. RealSeats' = RealSeats
      BY <3>1 DEF RealSeats
    <3>3. turrets \in Seq(TurretRec) /\ Len(turrets) \in Nat
      BY <2>0 DEF VehicleInv
    <3>4. n \in {None, 0, 2} /\ w \in {None, 1, 2} /\ (n # None => w # None)
      BY VehicleAssumption
    <3>5. turrets[t] \in TurretRec
      BY <3>3
    <3>6. Len(turrets') = Len(turrets) /\ turrets' = [u \in 1..Len(turrets) |-> turrets'[u]]
      <4> DEFINE x == [cls |-> turrets[t].cls, mags |-> n, weapon |-> w]
      <4>1. x \in TurretRec
        BY <3>4, <3>5 DEF TurretRec
      <4>2. turrets' = [turrets EXCEPT ![t] = x]
        BY <3>1
      <4> HIDE DEF x
      <4>3. turrets' \in [1..Len(turrets) -> TurretRec]
        <5>1. turrets \in [1..Len(turrets) -> TurretRec]
          BY <3>3
        <5> QED
          BY <4>1, <4>2, <5>1
      <4> QED
        BY <3>3, <4>3
    <3>7. \A u \in 1..Len(turrets) : turrets'[u] = IF u = t THEN [cls |-> turrets[t].cls, mags |-> n, weapon |-> w] ELSE turrets[u]
      BY <3>1, <3>3
    <3>8. \A u \in 1..Len(turrets) :
            /\ turrets'[u] \in TurretRec /\ turrets'[u].cls = turrets[u].cls
            /\ turrets'[u].mags # None => turrets'[u].weapon # None
      <4> SUFFICES ASSUME NEW u \in 1..Len(turrets)
                   PROVE  /\ turrets'[u] \in TurretRec /\ turrets'[u].cls = turrets[u].cls
                          /\ turrets'[u].mags # None => turrets'[u].weapon # None
        OBVIOUS
      <4>1. CASE u = t
        <5>1. turrets'[u] = [cls |-> turrets[t].cls, mags |-> n, weapon |-> w]
          BY <3>7, <4>1
        <5> QED
          BY <3>4, <3>5, <4>1, <5>1 DEF TurretRec
      <4>2. CASE u # t
        <5>1. turrets'[u] = turrets[u] /\ turrets[u] \in TurretRec
          BY <3>3, <3>7, <4>2
        <5> QED
          BY <2>0, <5>1 DEF VehicleInv
      <4> QED
        BY <4>1, <4>2
    <3>9. turrets' \in Seq(TurretRec)
      <4>1. turrets' \in [1..Len(turrets) -> TurretRec]
        BY <3>6, <3>8
      <4> QED
        BY <3>3, <4>1
    <3>10. loadout' # None => \E f : SeatedBy(f, turrets', loadout'.seats)
      <4> SUFFICES ASSUME loadout # None PROVE \E f : SeatedBy(f, turrets', loadout.seats)
        BY <3>1
      <4>1. PICK f : SeatedBy(f, turrets, loadout.seats)
        BY <2>0 DEF VehicleInv
      <4>2. SeatedBy(f, turrets', loadout.seats)
        BY <3>6, <3>8, <4>1 DEF SeatedBy
      <4> QED
        BY <4>2
    <3> QED
      BY <2>0, <3>1, <3>2, <3>6, <3>8, <3>9, <3>10 DEF VehicleInv
  <2>3. CASE SeatsUnread
    <3>1. seatsRead' = ~seatsRead /\ UNCHANGED <<veh, loadout, inSnap, men, turrets, parts>>
      BY <2>3 DEF SeatsUnread
    <3> QED
      BY <3>1 DEF VehicleInv, RealSeats
  <2>4. CASE LeavesFrame
    <3>1. inSnap' = ~inSnap /\ UNCHANGED <<veh, loadout, men, seatsRead, turrets, parts>>
      BY <2>4 DEF LeavesFrame
    <3> QED
      BY <3>1 DEF VehicleInv, RealSeats
  <2> QED
    BY <1>2, <2>1, <2>2, <2>3, <2>4 DEF VehicleNext
<1> QED
  BY <1>1, <1>2 DEF VehicleOn

-----------------------------------------------------------------------------
(* The seats on display *)

\* A finite set in some order: each of its elements once.
LEMMA SetToSeqIs ==
  ASSUME NEW X, IsFiniteSet(X)
  PROVE  /\ Cardinality(X) \in Nat /\ SetToSeq(X) \in [1..Cardinality(X) -> X]
         /\ \A x \in X : \E i \in 1..Cardinality(X) : SetToSeq(X)[i] = x
         /\ \A i, j \in 1..Cardinality(X) : SetToSeq(X)[i] = SetToSeq(X)[j] => i = j
<1> DEFINE n == Cardinality(X)
           q == SetToSeq(X)
<1>1. n \in Nat
  BY FS_CardinalityType
<1>2. PICK f : f \in Bijection(1..n, X)
  BY FS_CardinalityType DEF ExistsBijection
<1>3. f \in [1..n -> X] /\ IsInjective(f)
  BY <1>2 DEF Bijection, Injection
<1>4. q \in [1..n -> X] /\ IsInjective(q)
  BY <1>3 DEF SetToSeq
<1>5. q \in Injection(1..n, X)
  BY <1>4 DEF Injection
<1>6. Cardinality(1..n) = n /\ IsFiniteSet(1..n)
  BY <1>1, FS_Interval
<1>7. q \in Surjection(1..n, X)
  BY <1>5, <1>6, FS_Injection
<1> HIDE DEF q, n
<1>8. \A x \in X : \E i \in 1..n : q[i] = x
  BY <1>7 DEF Surjection
<1>9. \A i, j \in 1..n : q[i] = q[j] => i = j
  BY <1>4 DEF IsInjective
<1> QED
  BY <1>1, <1>4, <1>8, <1>9 DEF q, n

(* The seats are numbered from 0, and each man aboard is on one of them.   *)
Shown(ds) ==
  /\ Len(ds) \in Nat /\ ds = [i \in 1..Len(ds) |-> ds[i]]
  /\ \A i \in 1..Len(ds) : ds[i].idx = i - 1
  /\ \A m \in Men : men[m] # None => \E i \in 1..Len(ds) : ds[i].occ = m
  /\ \A i, j \in 1..Len(ds) : ds[i].occ \in Men /\ ds[i].occ = ds[j].occ => i = j

LEMMA SeatsAreShown ==
  ASSUME VehicleInv, veh # None
  PROVE  Shown(DisplaySeats)
<1>1. /\ RealSeats \in Nat /\ men \in [Men -> {None} \cup 1..RealSeats]
      /\ \A m, o \in Men : men[m] # None /\ men[m] = men[o] => m = o
  BY RealSeatsNat DEF VehicleInv
<1>2. CASE seatsRead
  <2> DEFINE Sitting(i) == {m \in Men : men[m] = i}
             occ(i) == IF Sitting(i) = {} THEN None ELSE CHOOSE m \in Sitting(i) : TRUE
             ds == [i \in 1..RealSeats |-> [idx |-> i - 1, occ |-> occ(i)]]
  <2>1. DisplaySeats = ds
    BY <1>2 DEF DisplaySeats
  <2> HIDE DEF occ, Sitting
  <2>2. Len(ds) = RealSeats /\ \A i \in 1..RealSeats : ds[i].idx = i - 1 /\ ds[i].occ = occ(i)
    BY <1>1
  <2> USE DEF occ, Sitting
  <2>3. ASSUME NEW i \in 1..RealSeats, NEW m \in Men, men[m] = i
        PROVE  occ(i) = m
    <3>1. Sitting(i) = {m}
      <4>1. \A o \in Sitting(i) : o = m
        BY <1>1, <2>3, VehicleAssumption
      <4> QED
        BY <2>3, <4>1
    <3> QED
      BY <3>1
  <2>4. \A i \in 1..RealSeats : occ(i) \in Men => men[occ(i)] = i
    <3> SUFFICES ASSUME NEW i \in 1..RealSeats, occ(i) \in Men PROVE men[occ(i)] = i
      OBVIOUS
    <3>1. Sitting(i) # {}
      BY VehicleAssumption
    <3>2. occ(i) \in Sitting(i)
      BY <3>1
    <3> QED
      BY <3>2
  <2> HIDE DEF occ, Sitting
  <2>5. \A m \in Men : men[m] # None => men[m] \in 1..RealSeats /\ ds[men[m]].occ = m
    BY <1>1, <2>2, <2>3
  <2>6. \A i, j \in 1..RealSeats : ds[i].occ \in Men /\ ds[i].occ = ds[j].occ => i = j
    BY <2>2, <2>4
  <2>7. ds = [i \in 1..Len(ds) |-> ds[i]]
    BY <2>2
  <2> HIDE DEF ds
  <2> QED
    BY <1>1, <2>1, <2>2, <2>5, <2>6, <2>7 DEF Shown
<1>3. CASE ~seatsRead
  <2> DEFINE q == SetToSeq(Men)
             n == Cardinality(Men)
             D == {i \in 1..Len(q) : men[q[i]] # None}
             p == AtPlaces(q, D)
             ds == [i \in 1..Len(p) |-> [idx |-> i - 1, occ |-> p[i]]]
  <2>1. DisplaySeats = ds
    BY <1>3 DEF DisplaySeats, PassengersOf
  <2>2. /\ n \in Nat /\ q \in [1..n -> Men]
        /\ \A m \in Men : \E i \in 1..n : q[i] = m
        /\ \A i, j \in 1..n : q[i] = q[j] => i = j
    BY VehicleAssumption, SetToSeqIs
  <2> HIDE DEF q, n
  <2>3. Len(q) = n
    BY <2>2
  <2>4. D \in SUBSET (1..n) /\ Picks(p, q, D)
    BY <2>2, <2>3, PlacesPick
  <2>5. \A m \in Men : men[m] # None => \E i \in D : q[i] = m
    BY <2>2, <2>3
  <2> HIDE DEF D, p
  <2>6. Len(p) \in Nat /\ \A i \in 1..Len(p) : NthOf(D, i) \in D /\ p[i] = q[NthOf(D, i)]
    BY <2>4 DEF Picks
  <2>7. \A i, j \in 1..Len(p) : p[i] = p[j] => i = j
    BY <2>2, <2>4, <2>6 DEF Picks
  <2>8. \A m \in Men : men[m] # None => \E i \in 1..Len(p) : p[i] = m
    <3> SUFFICES ASSUME NEW m \in Men, men[m] # None PROVE \E i \in 1..Len(p) : p[i] = m
      OBVIOUS
    <3>1. PICK x \in D : q[x] = m
      BY <2>5
    <3>2. Rank(D, x) \in 1..Len(p) /\ NthOf(D, Rank(D, x)) = x
      BY <2>4 DEF Picks
    <3> QED
      BY <2>6, <3>1, <3>2
  <2>9. Len(ds) = Len(p) /\ ds = [i \in 1..Len(ds) |-> ds[i]]
        /\ \A i \in 1..Len(p) : ds[i].idx = i - 1 /\ ds[i].occ = p[i]
    BY <2>6
  <2> HIDE DEF ds
  <2> QED
    BY <2>1, <2>6, <2>7, <2>8, <2>9 DEF Shown
<1> QED
  BY <1>2, <1>3 DEF DisplaySeats

\* Who is at a seat.
LEMMA OccupantIs ==
  ASSUME NEW ds, Shown(ds), NEW i \in Nat
  PROVE  Occupant(ds, i) = IF i + 1 <= Len(ds) THEN ds[i + 1].occ ELSE None
<1> DEFINE A == {k \in 1..Len(ds) : ds[k].idx = i}
<1>1. Len(ds) \in Nat /\ \A k \in 1..Len(ds) : ds[k].idx = k - 1
  BY DEF Shown
<1>2. A = IF i + 1 <= Len(ds) THEN {i + 1} ELSE {}
  <2>1. \A k \in A : k = i + 1
    BY <1>1
  <2>2. i + 1 <= Len(ds) => i + 1 \in A
    BY <1>1
  <2>3. \A k \in A : k <= Len(ds)
    BY <1>1
  <2> HIDE DEF A
  <2> QED
    BY <2>1, <2>2, <2>3
<1>3. MaxIn({i + 1}) = i + 1
  BY DEF MaxIn
<1>4. Occupant(ds, i) = IF A = {} THEN None ELSE ds[MaxIn(A)].occ
  BY DEF Occupant
<1> HIDE DEF A
<1> QED
  BY <1>2, <1>3, <1>4

-----------------------------------------------------------------------------
(* The guns *)

\* Places of the frame are finite sets of numbers.
LEMMA GunsAre ==
  ASSUME VehicleInv, veh # None
  PROVE  /\ Len(turrets) \in Nat /\ LiveArmed \in SUBSET (1..Len(turrets))
         /\ \A t \in LiveArmed : turrets[t] \in TurretRec /\ turrets[t].weapon \in {1, 2}
         /\ \A c : OfClass(c) \in SUBSET (1..Len(turrets)) /\ OfClass(c) \subseteq LiveArmed
         /\ None \notin LiveArmed
<1>1. /\ turrets \in Seq(TurretRec)
      /\ \A t \in 1..Len(turrets) : turrets[t].mags # None => turrets[t].weapon # None
  BY DEF VehicleInv
<1>2. \A t \in 1..Len(turrets) : turrets[t] \in TurretRec
  BY <1>1
<1>3. \A t \in LiveArmed : t \in 1..Len(turrets) /\ turrets[t].mags # None
  BY DEF LiveArmed
<1>4. \A t \in LiveArmed : turrets[t].weapon \in {1, 2}
  BY <1>1, <1>2, <1>3 DEF TurretRec
<1>5. None \notin LiveArmed
  BY <1>1, <1>3, VehicleAssumption
<1> QED
  BY <1>1, <1>2, <1>3, <1>4, <1>5 DEF OfClass

(* The seats of a class.                                                   *)
SeatsOf(c) == {i \in 1..Len(loadout.seats) : loadout.seats[i] = c}

LEMMA SeatsFit ==
  ASSUME VehicleInv, veh # None, loadout # None
  PROVE  /\ loadout.seats \in Seq({None} \cup Stations) /\ Len(loadout.seats) \in Nat
         /\ \A i \in 1..Len(loadout.seats) : loadout.seats[i] \in {None} \cup Stations
         /\ \A c : SeatsOf(c) \in SUBSET (1..Len(loadout.seats))
         /\ \A i \in 1..Len(loadout.seats) : WeaponsOf(loadout, loadout.seats[i]) \in Nat
<1>1. loadout \in Rig
  BY DEF VehicleInv
<1>2. loadout.seats \in Seq({None} \cup Stations) /\ loadout.weapons \in Guns
  BY <1>1 DEF Rig
<1>3. \A c : WeaponsOf(loadout, c) \in Nat
  BY <1>2 DEF WeaponsOf, Guns
<1> QED
  BY <1>2, <1>3 DEF SeatsOf

\* There are as many seats as armed turrets of a class that has one.
LEMMA SeatsSuffice ==
  ASSUME VehicleInv, veh # None, loadout # None, NEW c, c # Unmatched
  PROVE  Cardinality(OfClass(c)) <= Cardinality(SeatsOf(c))
<1>1. PICK f : SeatedBy(f, turrets, loadout.seats)
  BY DEF VehicleInv
<1> DEFINE g == [t \in OfClass(c) |-> f[t]]
<1>2. OfClass(c) \subseteq 1..Len(turrets) /\ \A t \in OfClass(c) : turrets[t].cls = c
  BY GunsAre DEF OfClass
<1>3. \A t \in OfClass(c) : f[t] \in SeatsOf(c)
  BY <1>1, <1>2 DEF SeatedBy, SeatsOf
<1>4. \A t, u \in OfClass(c) : f[t] = f[u] => t = u
  BY <1>1, <1>2 DEF SeatedBy
<1>5. g \in Injection(OfClass(c), SeatsOf(c))
  BY <1>3, <1>4 DEF Injection, IsInjective
<1>6. IsFiniteSet(SeatsOf(c))
  BY SeatsFit, RanksAre
<1> QED
  BY <1>5, <1>6, FS_Injection

(* Which turret seat i claims: the one of its class whose place among them *)
(* is that of the seat among the seats of the class.                       *)
ClaimIs(i) ==
  LET c == loadout.seats[i]
  IN  /\ Rank(SeatsOf(c), i) \in Nat
      /\ Claims(i) = IF Rank(SeatsOf(c), i) <= Cardinality(OfClass(c))
                     THEN NthOf(OfClass(c), Rank(SeatsOf(c), i)) ELSE None

LEMMA ClaimsAre ==
  ASSUME VehicleInv, veh # None, loadout # None, NEW i \in 1..Len(loadout.seats)
  PROVE  ClaimIs(i)
<1> DEFINE c == loadout.seats[i]
<1>1. i \in SeatsOf(c) /\ SeatsOf(c) \in SUBSET (1..Len(loadout.seats)) /\ Len(loadout.seats) \in Nat
  BY SeatsFit DEF SeatsOf
<1>2. {j \in 1..i : loadout.seats[j] = c} = {j \in SeatsOf(c) : j <= i}
  BY <1>1 DEF SeatsOf
<1>3. Rank(SeatsOf(c), i) = Cardinality({j \in 1..i : loadout.seats[j] = c})
  BY <1>2 DEF Rank
<1>4. Rank(SeatsOf(c), i) \in 1..Cardinality(SeatsOf(c)) /\ Cardinality(SeatsOf(c)) \in Nat
  BY <1>1, RanksAre
<1> QED
  BY <1>3, <1>4 DEF ClaimIs, Claims

\* A claimed turret is armed, of the seat's class, and claimed once.
LEMMA ClaimTells ==
  ASSUME VehicleInv, veh # None, loadout # None, NEW i \in 1..Len(loadout.seats),
         Claims(i) # None
  PROVE  /\ Claims(i) \in OfClass(loadout.seats[i])
         /\ \A j \in 1..Len(loadout.seats) : Claims(j) = Claims(i) => j = i
<1> DEFINE c(j) == loadout.seats[j]
           k(j) == Rank(SeatsOf(c(j)), j)
<1>1. \A j \in 1..Len(loadout.seats) : Claims(j) # None =>
         /\ Claims(j) \in OfClass(c(j)) /\ Rank(OfClass(c(j)), Claims(j)) = k(j)
  <2> SUFFICES ASSUME NEW j \in 1..Len(loadout.seats), Claims(j) # None
               PROVE  Claims(j) \in OfClass(c(j)) /\ Rank(OfClass(c(j)), Claims(j)) = k(j)
    OBVIOUS
  <2>1. ClaimIs(j)
    BY ClaimsAre
  <2>2. k(j) <= Cardinality(OfClass(c(j))) /\ k(j) \in Nat /\ Claims(j) = NthOf(OfClass(c(j)), k(j))
    BY <2>1 DEF ClaimIs
  <2>3. OfClass(c(j)) \in SUBSET (1..Len(turrets)) /\ Len(turrets) \in Nat
    BY GunsAre
  <2>4. k(j) \in 1..Cardinality(OfClass(c(j)))
    <3>1. j \in SeatsOf(c(j)) /\ SeatsOf(c(j)) \in SUBSET (1..Len(loadout.seats)) /\ Len(loadout.seats) \in Nat
      BY SeatsFit DEF SeatsOf
    <3>2. k(j) \in 1..Cardinality(SeatsOf(c(j))) /\ Cardinality(SeatsOf(c(j))) \in Nat
      BY <3>1, RanksAre
    <3>3. Cardinality(OfClass(c(j))) \in Nat
      BY <2>3, RanksAre
    <3> QED
      BY <2>2, <3>2, <3>3
  <2> QED
    BY <2>2, <2>3, <2>4, NthOfIs
<1>2. ASSUME NEW j \in 1..Len(loadout.seats), Claims(j) = Claims(i)
      PROVE  j = i
  <2>1. turrets[Claims(j)].cls = c(j) /\ turrets[Claims(i)].cls = c(i)
    BY <1>1, <1>2 DEF OfClass
  <2>2. c(j) = c(i) /\ k(j) = k(i)
    BY <1>1, <1>2, <2>1
  <2>3. i \in SeatsOf(c(i)) /\ j \in SeatsOf(c(i)) /\ SeatsOf(c(i)) \in SUBSET (1..Len(loadout.seats))
        /\ Len(loadout.seats) \in Nat
    BY <2>2, SeatsFit DEF SeatsOf
  <2>4. Rank(SeatsOf(c(i)), j) = Rank(SeatsOf(c(i)), i)
    BY <2>2
  <2> QED
    BY <2>3, <2>4, RankTells
<1> QED
  BY <1>1, <1>2

\* An armed turret of a class some seat has is claimed by a seat of it.
LEMMA KnownIsClaimed ==
  ASSUME VehicleInv, veh # None, loadout # None, NEW t \in LiveArmed,
         Contains(loadout.seats, turrets[t].cls)
  PROVE  \E i \in 1..Len(loadout.seats) : loadout.seats[i] = turrets[t].cls /\ Claims(i) = t
<1> DEFINE c == turrets[t].cls
           n == Len(loadout.seats)
<1>1. PICK j \in 1..n : loadout.seats[j] = c
  BY DEF Contains
<1>2. c # None /\ c # Unmatched
  <2>1. c \in {None} \cup Stations /\ c \in {Unmatched} \cup Stations
    BY <1>1, SeatsFit, GunsAre DEF TurretRec
  <2>2. Unmatched # None /\ Unmatched \notin Stations /\ None \notin Stations
    BY VehicleAssumption DEF Unmatched, Stations
  <2> QED
    BY <2>1, <2>2
<1>3. t \in OfClass(c) /\ OfClass(c) \in SUBSET (1..Len(turrets)) /\ Len(turrets) \in Nat
  BY <1>2, GunsAre DEF OfClass
<1>4. SeatsOf(c) \in SUBSET (1..n) /\ n \in Nat
  BY SeatsFit
<1>5. Rank(OfClass(c), t) \in 1..Cardinality(SeatsOf(c))
  <2>1. Rank(OfClass(c), t) \in 1..Cardinality(OfClass(c)) /\ Cardinality(OfClass(c)) \in Nat
    BY <1>3, RanksAre
  <2>2. Cardinality(SeatsOf(c)) \in Nat
    BY <1>4, RanksAre
  <2>3. Cardinality(OfClass(c)) <= Cardinality(SeatsOf(c))
    BY <1>2, SeatsSuffice
  <2> QED
    BY <2>1, <2>2, <2>3
<1> DEFINE i == NthOf(SeatsOf(c), Rank(OfClass(c), t))
<1>6. i \in SeatsOf(c) /\ Rank(SeatsOf(c), i) = Rank(OfClass(c), t)
  BY <1>4, <1>5, NthOfIs
<1>7. i \in 1..n /\ loadout.seats[i] = c
  BY <1>6 DEF SeatsOf
<1>8. Rank(OfClass(c), t) <= Cardinality(OfClass(c)) /\ NthOf(OfClass(c), Rank(OfClass(c), t)) = t
  <2>1. Rank(OfClass(c), t) \in 1..Cardinality(OfClass(c)) /\ Cardinality(OfClass(c)) \in Nat
    BY <1>3, RanksAre
  <2>2. NthOf(OfClass(c), Rank(OfClass(c), t)) = t
    BY <1>3, NthOfRank
  <2> QED
    BY <2>1, <2>2
<1>9. ClaimIs(i)
  BY <1>7, ClaimsAre
<1> HIDE DEF i
<1>10. Claims(i) = t
  BY <1>6, <1>7, <1>8, <1>9 DEF ClaimIs
<1> QED
  BY <1>7, <1>10

-----------------------------------------------------------------------------
(* The rows of the crew list *)

Listed == IF loadout = None THEN 0 ELSE Len(loadout.seats)
Beyond(ds) == {i \in 1..Len(ds) : loadout = None \/ ds[i].idx >= Len(loadout.seats)}
ExtraTag == IF loadout = None THEN "s" ELSE "x"

(* A row, field by field.                                                  *)
IsRow(r) == r = Row(r.key, r.occ, r.turret, r.live, r.guns, r.weaponSeat)

LEMMA RowIs ==
  ASSUME NEW r, NEW k, NEW o, NEW t, NEW l, NEW g, NEW b, r = Row(k, o, t, l, g, b)
  PROVE  /\ IsRow(r) /\ r.key = k /\ r.occ = o /\ r.turret = t /\ r.live = l /\ r.guns = g
         /\ r.weaponSeat = b
BY DEF Row, IsRow

(* The rows of the seats: those of the catalogue, then those it lacks.     *)
SeatRowsAre(rows, ds) ==
  /\ Listed \in Nat /\ Beyond(ds) \in SUBSET (1..Len(ds)) /\ Beyond(ds) = {i \in 1..Len(ds) : i > Listed}
  /\ Cardinality(Beyond(ds)) \in Nat
  /\ Len(rows) = Listed + Cardinality(Beyond(ds))
  /\ \A r \in 1..Len(rows) : IsRow(rows[r])
  /\ \A i \in 1..Listed :
       /\ loadout # None /\ i \in 1..Len(loadout.seats)
       /\ rows[i].key = <<"s", i - 1>> /\ rows[i].occ = Occupant(ds, i - 1)
       /\ rows[i].turret = loadout.seats[i] /\ rows[i].live = Claims(i) /\ rows[i].guns \in Nat
  /\ \A k \in 1..Cardinality(Beyond(ds)) :
       /\ NthOf(Beyond(ds), k) \in Beyond(ds) /\ Rank(Beyond(ds), NthOf(Beyond(ds), k)) = k
       /\ rows[Listed + k].key = <<ExtraTag, NthOf(Beyond(ds), k) - 1>>
       /\ rows[Listed + k].occ = ds[NthOf(Beyond(ds), k)].occ
       /\ rows[Listed + k].live = None

LEMMA SeatRowsFit ==
  ASSUME VehicleInv, veh # None, NEW ds, Shown(ds)
  PROVE  SeatRowsAre(SeatRows(ds), ds)
<1> DEFINE D == Beyond(ds)
           c == Cardinality(D)
           more == AtPlaces(ds, D)
           cat == IF loadout = None THEN << >> ELSE CatalogueRows(ds)
           ext == [k \in 1..Len(more) |-> Row(<<ExtraTag, more[k].idx>>, more[k].occ, None, None, 0, FALSE)]
<1>1. SeatRows(ds) = cat \o ext
  BY DEF SeatRows, Beyond, ExtraTag
<1>2. Len(ds) \in Nat /\ \A i \in 1..Len(ds) : ds[i].idx = i - 1
  BY DEF Shown
<1>3. Listed \in Nat /\ (loadout # None => Len(loadout.seats) = Listed)
  BY SeatsFit DEF Listed
<1>4. D \in SUBSET (1..Len(ds)) /\ D = {i \in 1..Len(ds) : i > Listed}
  <2>1. \A i \in 1..Len(ds) : (loadout = None \/ ds[i].idx >= Len(loadout.seats)) <=> i > Listed
    <3>1. CASE loadout = None
      BY <3>1 DEF Listed
    <3>2. CASE loadout # None
      BY <1>2, <1>3, <3>2
    <3> QED
      BY <3>1, <3>2
  <2> QED
    BY <2>1 DEF Beyond
<1>5. c \in Nat
  BY <1>2, <1>4, RanksAre
<1>6. Picks(more, ds, D)
  BY <1>2, <1>4, PlacesPick
<1> HIDE DEF D, more
<1>7. \A k \in 1..c : NthOf(D, k) \in D /\ Rank(D, NthOf(D, k)) = k
  BY <1>2, <1>4, NthOfIs
<1>8. /\ Len(ext) = c /\ ext \in [1..c -> Range(ext)]
      /\ \A k \in 1..c : ext[k] = Row(<<ExtraTag, NthOf(D, k) - 1>>, ds[NthOf(D, k)].occ, None, None, 0, FALSE)
  <2>1. Len(more) = c /\ \A k \in 1..c : NthOf(D, k) \in D /\ more[k] = ds[NthOf(D, k)]
    BY <1>6 DEF Picks
  <2>2. \A k \in 1..c : more[k].idx = NthOf(D, k) - 1 /\ more[k].occ = ds[NthOf(D, k)].occ
    BY <1>2, <1>4, <2>1
  <2>3. \A k \in 1..c : ext[k] = Row(<<ExtraTag, NthOf(D, k) - 1>>, ds[NthOf(D, k)].occ, None, None, 0, FALSE)
    BY <2>1, <2>2
  <2>4. Len(ext) = c /\ DOMAIN ext = 1..c /\ ext = [k \in 1..c |-> ext[k]]
    BY <1>5, <2>1
  <2> HIDE DEF ext
  <2> QED
    BY <2>3, <2>4 DEF Range
<1> HIDE DEF ext
<1>9. /\ Len(cat) = Listed /\ cat = [i \in 1..Listed |-> cat[i]]
      /\ \A i \in 1..Listed :
           /\ loadout # None /\ i \in 1..Len(loadout.seats) /\ IsRow(cat[i])
           /\ cat[i].key = <<"s", i - 1>> /\ cat[i].occ = Occupant(ds, i - 1)
           /\ cat[i].turret = loadout.seats[i] /\ cat[i].live = Claims(i) /\ cat[i].guns \in Nat
  <2>1. CASE loadout = None
    BY <2>1 DEF Listed
  <2>2. CASE loadout # None
    <3>1. Listed = Len(loadout.seats) /\ cat = CatalogueRows(ds)
      BY <1>3, <2>2
    <3>2. \A i \in 1..Listed : WeaponsOf(loadout, loadout.seats[i]) \in Nat
      BY <2>2, <3>1, SeatsFit
    <3>3. \A i \in 1..Listed : \E b : cat[i] = Row(<<"s", i - 1>>, Occupant(ds, i - 1), loadout.seats[i], Claims(i),
                                                WeaponsOf(loadout, loadout.seats[i]), b)
      BY <3>1 DEF CatalogueRows
    <3> HIDE DEF cat
    <3>4. Len(cat) = Listed /\ cat = [i \in 1..Listed |-> cat[i]]
      <4> DEFINE Seat(i) == Row(<<"s", i - 1>>, Occupant(ds, i - 1), loadout.seats[i], Claims(i),
                                WeaponsOf(loadout, loadout.seats[i]),
                                loadout.seats[i] # None /\ WeaponsOf(loadout, loadout.seats[i]) > 0)
      <4>1. cat = [i \in 1..Listed |-> Seat(i)]
        BY <3>1 DEF CatalogueRows
      <4> HIDE DEF Seat
      <4> QED
        BY <1>3, <4>1
    <3>5. ASSUME NEW i \in 1..Listed
          PROVE  /\ IsRow(cat[i]) /\ cat[i].key = <<"s", i - 1>> /\ cat[i].occ = Occupant(ds, i - 1)
                 /\ cat[i].turret = loadout.seats[i] /\ cat[i].live = Claims(i) /\ cat[i].guns \in Nat
      <4>1. PICK b : cat[i] = Row(<<"s", i - 1>>, Occupant(ds, i - 1), loadout.seats[i], Claims(i),
                                  WeaponsOf(loadout, loadout.seats[i]), b)
        BY <3>3
      <4>2. /\ IsRow(cat[i]) /\ cat[i].key = <<"s", i - 1>> /\ cat[i].occ = Occupant(ds, i - 1)
            /\ cat[i].turret = loadout.seats[i] /\ cat[i].live = Claims(i)
            /\ cat[i].guns = WeaponsOf(loadout, loadout.seats[i])
        BY <4>1, RowIs
      <4> QED
        BY <3>2, <4>2
    <3> QED
      BY <2>2, <3>1, <3>4, <3>5
  <2> QED
    BY <2>1, <2>2
<1> HIDE DEF cat
<1> DEFINE rows == cat \o ext
<1>10. /\ Len(rows) = Listed + c
       /\ \A i \in 1..Listed : rows[i] = cat[i]
       /\ \A k \in 1..c : rows[Listed + k] = ext[k]
  <2>1. cat \in Seq(Range(cat)) /\ ext \in Seq(Range(ext))
    <3>1. cat \in [1..Listed -> Range(cat)] /\ ext \in [1..c -> Range(ext)]
      BY <1>8, <1>9 DEF Range
    <3> QED
      BY <1>3, <1>5, <3>1
  <2> QED
    BY <1>3, <1>5, <1>8, <1>9, <2>1
<1> HIDE DEF rows
<1>11. \A k \in 1..c : /\ IsRow(rows[Listed + k])
                       /\ rows[Listed + k].key = <<ExtraTag, NthOf(D, k) - 1>>
                       /\ rows[Listed + k].occ = ds[NthOf(D, k)].occ
                       /\ rows[Listed + k].live = None
  <2> SUFFICES ASSUME NEW k \in 1..c
               PROVE  /\ IsRow(ext[k]) /\ ext[k].key = <<ExtraTag, NthOf(D, k) - 1>>
                      /\ ext[k].occ = ds[NthOf(D, k)].occ /\ ext[k].live = None
    BY <1>10
  <2> QED
    BY <1>8 DEF Row, IsRow
<1>12. \A r \in 1..Len(rows) : IsRow(rows[r])
  <2> SUFFICES ASSUME NEW r \in 1..Len(rows) PROVE IsRow(rows[r])
    OBVIOUS
  <2>1. CASE r <= Listed
    BY <1>3, <1>5, <1>9, <1>10, <2>1
  <2>2. CASE r > Listed
    <3>1. r - Listed \in 1..c /\ Listed + (r - Listed) = r
      BY <1>3, <1>5, <1>10, <2>2
    <3> QED
      BY <1>11, <3>1
  <2> QED
    BY <1>3, <1>5, <1>10, <2>1, <2>2
<1>13. \A i \in 1..Listed :
         /\ loadout # None /\ i \in 1..Len(loadout.seats)
         /\ rows[i].key = <<"s", i - 1>> /\ rows[i].occ = Occupant(ds, i - 1)
         /\ rows[i].turret = loadout.seats[i] /\ rows[i].live = Claims(i) /\ rows[i].guns \in Nat
  BY <1>9, <1>10
<1>14. SeatRowsAre(rows, ds)
  BY <1>3, <1>4, <1>5, <1>7, <1>10, <1>11, <1>12, <1>13 DEF SeatRowsAre, D
<1> QED
  BY <1>1, <1>14 DEF rows

(* The rows once the guns that no seat claimed are among them.             *)
Surplus(guns, vacant) == MaxOf(Cardinality(guns) - Cardinality(vacant), 0)

FilledAre(full, rows, guns, vacant) ==
  /\ Surplus(guns, vacant) \in Nat
  /\ Len(full) = Len(rows) + Surplus(guns, vacant)
  /\ \A r \in 1..Len(rows) :
       /\ full[r].key = rows[r].key /\ full[r].occ = rows[r].occ
       /\ full[r].turret = rows[r].turret /\ full[r].guns = rows[r].guns
       /\ full[r].live = IF r \in vacant /\ Rank(vacant, r) <= Cardinality(guns)
                         THEN NthOf(guns, Rank(vacant, r)) ELSE rows[r].live
  /\ \A k \in 1..Surplus(guns, vacant) :
       /\ full[Len(rows) + k].key = <<"o", k - 1>> /\ full[Len(rows) + k].occ = None
       /\ full[Len(rows) + k].live = NthOf(guns, Cardinality(vacant) + k)

LEMMA FillsRows ==
  ASSUME NEW rows, Len(rows) \in Nat, \A r \in 1..Len(rows) : IsRow(rows[r]),
         NEW guns, Cardinality(guns) \in Nat, NEW vacant \in SUBSET (1..Len(rows))
  PROVE  FilledAre(Fill(rows, guns, vacant), rows, guns, vacant)
<1> DEFINE n == Len(rows)
           m == Surplus(guns, vacant)
           one(r) == IF r \in vacant /\ Rank(vacant, r) <= Cardinality(guns)
                     THEN [rows[r] EXCEPT !.live = NthOf(guns, Rank(vacant, r))] ELSE rows[r]
           a == [r \in 1..n |-> one(r)]
           two(k) == Row(<<"o", k - 1>>, None, None, NthOf(guns, Cardinality(vacant) + k), 0, TRUE)
           b == [k \in 1..m |-> two(k)]
<1>1. Fill(rows, guns, vacant) = a \o b
  BY DEF Fill, Rank, Surplus
<1>2. Cardinality(vacant) \in Nat
  BY RanksAre
<1>3. m \in Nat
  BY <1>2 DEF Surplus, MaxOf
<1>4. ASSUME NEW r \in 1..n
      PROVE  /\ one(r).key = rows[r].key /\ one(r).occ = rows[r].occ
             /\ one(r).turret = rows[r].turret /\ one(r).guns = rows[r].guns
             /\ one(r).live = IF r \in vacant /\ Rank(vacant, r) <= Cardinality(guns)
                              THEN NthOf(guns, Rank(vacant, r)) ELSE rows[r].live
  <2>1. rows[r] = Row(rows[r].key, rows[r].occ, rows[r].turret, rows[r].live, rows[r].guns, rows[r].weaponSeat)
    BY DEF IsRow
  <2> DEFINE x == rows[r]
  <2>2. x = [key |-> x.key, occ |-> x.occ, turret |-> x.turret, live |-> x.live, guns |-> x.guns,
             weaponSeat |-> x.weaponSeat]
    BY <2>1 DEF Row
  <2> HIDE DEF x
  <2>3. ASSUME NEW l
        PROVE  [x EXCEPT !.live = l] = [key |-> x.key, occ |-> x.occ, turret |-> x.turret, live |-> l,
                                        guns |-> x.guns, weaponSeat |-> x.weaponSeat]
    BY <2>2
  <2>4. CASE r \in vacant /\ Rank(vacant, r) <= Cardinality(guns)
    <3> DEFINE l == NthOf(guns, Rank(vacant, r))
    <3>1. one(r) = [x EXCEPT !.live = l]
      BY <2>4 DEF x
    <3> HIDE DEF l, one
    <3>2. one(r) = [key |-> x.key, occ |-> x.occ, turret |-> x.turret, live |-> l,
                    guns |-> x.guns, weaponSeat |-> x.weaponSeat]
      BY <2>3, <3>1
    <3>3. /\ one(r).key = x.key /\ one(r).occ = x.occ /\ one(r).turret = x.turret /\ one(r).guns = x.guns
          /\ one(r).live = l
      BY <3>2
    <3> QED
      BY <2>4, <3>3 DEF l, x
  <2>5. CASE ~(r \in vacant /\ Rank(vacant, r) <= Cardinality(guns))
    BY <2>5
  <2> QED
    BY <2>4, <2>5
<1>5. ASSUME NEW k \in 1..m
      PROVE  /\ two(k).key = <<"o", k - 1>> /\ two(k).occ = None
             /\ two(k).live = NthOf(guns, Cardinality(vacant) + k)
  BY DEF Row
<1> HIDE DEF one, two, m
<1>6. a \in Seq(Range(a)) /\ b \in Seq(Range(b)) /\ Len(a) = n /\ Len(b) = m
  <2>1. a \in [1..n -> Range(a)] /\ b \in [1..m -> Range(b)]
    BY DEF Range
  <2> QED
    BY <1>3, <2>1
<1>7. (\A r \in 1..n : a[r] = one(r)) /\ (\A k \in 1..m : b[k] = two(k))
  OBVIOUS
<1> HIDE DEF a, b
<1> DEFINE full == a \o b
<1>8. /\ Len(full) = n + m
      /\ \A r \in 1..n : full[r] = one(r)
      /\ \A k \in 1..m : full[n + k] = two(k)
  BY <1>3, <1>6, <1>7
<1> HIDE DEF full
<1>9. FilledAre(full, rows, guns, vacant)
  BY <1>3, <1>4, <1>5, <1>8 DEF FilledAre, m
<1> QED
  BY <1>1, <1>9 DEF full

\* What the crew list is made of.
CrewIs(full, rows, guns, vacant) ==
  /\ SeatRowsAre(rows, DisplaySeats) /\ FilledAre(full, rows, guns, vacant)
  /\ Len(rows) \in Nat /\ Len(full) \in Nat
  /\ Len(turrets) \in Nat /\ guns \in SUBSET (1..Len(turrets)) /\ guns \subseteq LiveArmed
  /\ \A t \in LiveArmed : t \notin guns <=> \E r \in 1..Len(rows) : rows[r].live = t
  /\ vacant \in SUBSET (1..Len(rows)) /\ \A r \in vacant : rows[r].live = None
  /\ Cardinality(guns) \in Nat /\ Cardinality(vacant) \in Nat

LEMMA CrewRowsAre ==
  ASSUME VehicleInv, veh # None
  PROVE  \E rows, guns, vacant : CrewIs(CrewRows, rows, guns, vacant)
<1> DEFINE ds == DisplaySeats
           rows == SeatRows(ds)
           guns == Leftover(rows)
           vacant == Vacant(rows)
           full == Fill(rows, guns, vacant)
<1>1. CrewRows = full
  BY DEF CrewRows
<1>2. SeatRowsAre(rows, ds)
  BY SeatsAreShown, SeatRowsFit
<1> HIDE DEF ds
<1> HIDE DEF rows
<1>3. Len(rows) \in Nat /\ \A r \in 1..Len(rows) : IsRow(rows[r])
  BY <1>2 DEF SeatRowsAre
<1>4. /\ Len(turrets) \in Nat /\ LiveArmed \in SUBSET (1..Len(turrets))
      /\ guns \in SUBSET (1..Len(turrets)) /\ guns \subseteq LiveArmed
      /\ \A t \in LiveArmed : t \notin guns <=> \E r \in 1..Len(rows) : rows[r].live = t
  BY GunsAre DEF Leftover
<1>5. vacant \in SUBSET (1..Len(rows)) /\ \A r \in vacant : rows[r].live = None
  BY DEF Vacant
<1> HIDE DEF guns, vacant
<1>6. Cardinality(guns) \in Nat /\ Cardinality(vacant) \in Nat
  BY <1>3, <1>4, <1>5, RanksAre
<1>7. FilledAre(full, rows, guns, vacant)
  BY <1>3, <1>5, <1>6, FillsRows
<1> HIDE DEF full
<1>8. Len(full) \in Nat
  BY <1>3, <1>7 DEF FilledAre
<1>9. CrewIs(full, rows, guns, vacant)
  BY <1>2, <1>3, <1>4, <1>5, <1>6, <1>7, <1>8 DEF CrewIs, ds
<1> QED
  BY <1>1, <1>9

(* The place of a row among those that take a gun by position.             *)
Turn(r, rows, vacant) ==
  IF r <= Len(rows) THEN Rank(vacant, r) ELSE Cardinality(vacant) + (r - Len(rows))

\* What the live turret of a row is.
LEMMA LiveIs ==
  ASSUME NEW full, NEW rows, NEW guns, NEW vacant, CrewIs(full, rows, guns, vacant),
         NEW r \in 1..Len(full), full[r].live # None
  PROVE  \/ r <= Len(rows) /\ rows[r].live = full[r].live
         \/ /\ r > Len(rows) \/ r \in vacant
            /\ Turn(r, rows, vacant) \in 1..Cardinality(guns)
            /\ full[r].live = NthOf(guns, Turn(r, rows, vacant))
<1> DEFINE n == Len(rows)
           g == Cardinality(guns)
           v == Cardinality(vacant)
           m == Surplus(guns, vacant)
<1>1. n \in Nat /\ g \in Nat /\ v \in Nat /\ m = MaxOf(g - v, 0) /\ Len(full) = n + m
  BY DEF CrewIs, FilledAre, Surplus
<1>2. m \in Nat /\ (m > 0 => m = g - v)
  BY <1>1 DEF MaxOf
<1> HIDE DEF n, g, v, m
<1>3. CASE r <= n
  <2>1. r \in 1..n
    BY <1>1, <1>2, <1>3
  <2>2. full[r].live = IF r \in vacant /\ Rank(vacant, r) <= g THEN NthOf(guns, Rank(vacant, r)) ELSE rows[r].live
    BY <2>1 DEF CrewIs, FilledAre, n, g
  <2>3. CASE r \in vacant /\ Rank(vacant, r) <= g
    <3>1. Rank(vacant, r) \in 1..v
      BY <2>3, RanksAre DEF CrewIs, v
    <3>2. Rank(vacant, r) \in 1..g
      BY <1>1, <2>3, <3>1
    <3>3. Turn(r, rows, vacant) = Rank(vacant, r)
      BY <1>3 DEF Turn, n
    <3> QED
      BY <2>2, <2>3, <3>2, <3>3 DEF g
  <2> QED
    BY <1>3, <2>2, <2>3 DEF n
<1>4. CASE r > n
  <2> DEFINE k == r - n
  <2>1. k \in 1..m /\ n + k = r
    BY <1>1, <1>2, <1>4
  <2> HIDE DEF k
  <2>2. full[n + k].live = NthOf(guns, v + k)
    BY <2>1 DEF CrewIs, FilledAre, n, v, m
  <2>3. Turn(r, rows, vacant) = v + k
    BY <1>1, <1>4 DEF Turn, k, n, v
  <2>4. v + k \in 1..g
    BY <1>1, <1>2, <2>1
  <2> QED
    BY <1>4, <2>1, <2>2, <2>3, <2>4 DEF n, g
<1> QED
  BY <1>1, <1>3, <1>4

\* No two rows take the same turn.
LEMMA TurnTells ==
  ASSUME NEW full, NEW rows, NEW guns, NEW vacant, CrewIs(full, rows, guns, vacant),
         NEW r \in 1..Len(full), NEW q \in 1..Len(full),
         r > Len(rows) \/ r \in vacant, q > Len(rows) \/ q \in vacant,
         Turn(r, rows, vacant) = Turn(q, rows, vacant)
  PROVE  r = q
<1> DEFINE n == Len(rows)
           v == Cardinality(vacant)
<1>1. n \in Nat /\ v \in Nat /\ Len(full) \in Nat /\ vacant \in SUBSET (1..n)
  BY DEF CrewIs
<1>2. \A x \in vacant : x <= n /\ Rank(vacant, x) \in 1..v /\ Turn(x, rows, vacant) = Rank(vacant, x)
  <2>1. \A x \in vacant : x \in 1..n /\ Rank(vacant, x) \in 1..v
    BY <1>1, RanksAre
  <2> QED
    BY <1>1, <2>1 DEF Turn
<1>3. \A x \in 1..Len(full) : x > n => Turn(x, rows, vacant) = v + (x - n)
  BY <1>1 DEF Turn
<1>4. CASE r \in vacant /\ q \in vacant
  BY <1>1, <1>2, <1>4, RankTells
<1>5. CASE r > n /\ q > n
  <2>1. v + (r - n) = v + (q - n)
    BY <1>3, <1>5
  <2> HIDE DEF v, n
  <2> QED
    BY <1>1, <2>1
<1> HIDE DEF v, n
<1>6. ASSUME NEW x \in vacant, NEW y \in 1..Len(full), y > n
      PROVE  Turn(x, rows, vacant) # Turn(y, rows, vacant)
  <2>1. Turn(x, rows, vacant) \in 1..v /\ Turn(y, rows, vacant) = v + (y - n)
    BY <1>2, <1>3, <1>6
  <2> QED
    BY <1>1, <1>6, <2>1
<1> QED
  BY <1>4, <1>5, <1>6 DEF n

\* Every turn is some row's, up to the number of guns.
LEMMA TurnsTaken ==
  ASSUME NEW full, NEW rows, NEW guns, NEW vacant, CrewIs(full, rows, guns, vacant),
         NEW k \in 1..Cardinality(guns)
  PROVE  \E r \in 1..Len(full) : full[r].live = NthOf(guns, k)
<1> DEFINE n == Len(rows)
           g == Cardinality(guns)
           v == Cardinality(vacant)
           m == Surplus(guns, vacant)
<1>1. n \in Nat /\ g \in Nat /\ v \in Nat /\ m = MaxOf(g - v, 0) /\ Len(full) = n + m /\ m \in Nat
  BY DEF CrewIs, FilledAre, Surplus
<1>2. CASE k <= v
  <2> DEFINE r == NthOf(vacant, k)
  <2>1. vacant \in SUBSET (1..n) /\ k \in 1..v
    BY <1>1, <1>2 DEF CrewIs
  <2>2. r \in vacant /\ Rank(vacant, r) = k
    BY <1>1, <2>1, NthOfIs
  <2> HIDE DEF r
  <2>3. r \in 1..n /\ Rank(vacant, r) <= g
    BY <1>1, <2>1, <2>2
  <2>4. full[r].live = NthOf(guns, Rank(vacant, r))
    BY <2>2, <2>3 DEF CrewIs, FilledAre
  <2>5. r \in 1..Len(full)
    BY <1>1, <2>3
  <2> QED
    BY <2>2, <2>4, <2>5
<1>3. CASE k > v
  <2> DEFINE j == k - v
  <2> HIDE DEF n, g, v, m
  <2>1. j \in 1..m /\ v + j = k
    BY <1>1, <1>3 DEF g, MaxOf
  <2> HIDE DEF j
  <2>2. full[n + j].live = NthOf(guns, v + j)
    BY <2>1 DEF CrewIs, FilledAre, n, v, m
  <2>3. n + j \in 1..Len(full)
    BY <1>1, <2>1
  <2> QED
    BY <2>1, <2>2, <2>3
<1> QED
  BY <1>1, <1>2, <1>3

\* A claim is unique, and it is kept.
LEMMA ClaimsKept ==
  ASSUME VehicleInv, veh # None, NEW full, NEW rows, NEW guns, NEW vacant,
         CrewIs(full, rows, guns, vacant)
  PROVE  /\ \A r, q \in 1..Len(rows) :
              rows[r].live # None /\ rows[r].live = rows[q].live => r = q
         /\ \A i \in 1..Listed :
              Claims(i) # None => /\ i \in 1..Len(full) /\ full[i].live = Claims(i)
                                  /\ full[i].turret = loadout.seats[i] /\ full[i].guns \in Nat
<1>1. SeatRowsAre(rows, DisplaySeats)
  BY DEF CrewIs
<1> DEFINE c == Cardinality(Beyond(DisplaySeats))
<1>2. Listed \in Nat /\ c \in Nat /\ Len(rows) = Listed + c
  BY <1>1 DEF SeatRowsAre
<1>3. ASSUME NEW r \in 1..Len(rows), rows[r].live # None
      PROVE  r \in 1..Listed /\ rows[r].live = Claims(r)
  <2>1. CASE r > Listed
    <3>1. r - Listed \in 1..c /\ Listed + (r - Listed) = r
      BY <1>2, <2>1
    <3>2. rows[Listed + (r - Listed)].live = None
      BY <1>1, <3>1 DEF SeatRowsAre
    <3> QED
      BY <1>3, <3>1, <3>2
  <2>2. CASE r <= Listed
    <3>1. r \in 1..Listed
      BY <1>2, <2>2
    <3> QED
      BY <1>1, <3>1 DEF SeatRowsAre
  <2> QED
    BY <1>2, <2>1, <2>2
<1>4. \A i \in 1..Listed : loadout # None /\ i \in 1..Len(loadout.seats) /\ rows[i].live = Claims(i)
                           /\ rows[i].turret = loadout.seats[i] /\ rows[i].guns \in Nat
  BY <1>1 DEF SeatRowsAre
<1>5. ASSUME NEW r \in 1..Len(rows), NEW q \in 1..Len(rows), rows[r].live # None, rows[r].live = rows[q].live
      PROVE  r = q
  <2>1. r \in 1..Listed /\ q \in 1..Listed /\ Claims(r) # None /\ Claims(r) = Claims(q)
    BY <1>3, <1>5
  <2> QED
    BY <1>4, <2>1, ClaimTells
<1>6. ASSUME NEW i \in 1..Listed, Claims(i) # None
      PROVE  /\ i \in 1..Len(full) /\ full[i].live = Claims(i)
             /\ full[i].turret = loadout.seats[i] /\ full[i].guns \in Nat
  <2>1. Len(full) = Len(rows) + Surplus(guns, vacant) /\ Surplus(guns, vacant) \in Nat
    BY DEF CrewIs, FilledAre
  <2>2. i \in 1..Len(rows) /\ i \in 1..Len(full)
    BY <1>2, <2>1
  <2>3. i \notin vacant
    BY <1>4, <1>6 DEF CrewIs
  <2>4. full[i].live = rows[i].live /\ full[i].turret = rows[i].turret /\ full[i].guns = rows[i].guns
    BY <2>2, <2>3 DEF CrewIs, FilledAre
  <2> QED
    BY <1>4, <2>2, <2>4
<1> QED
  BY <1>5, <1>6

\* Each armed gun is the live turret of one row.
LEMMA GunsShown ==
  ASSUME VehicleInv, veh # None, NEW t \in LiveArmed
  PROVE  \E r \in 1..Len(CrewRows) :
           CrewRows[r].live = t /\ \A q \in 1..Len(CrewRows) : CrewRows[q].live = t => q = r
<1> DEFINE full == CrewRows
<1>1. PICK rows, guns, vacant : CrewIs(full, rows, guns, vacant)
  BY CrewRowsAre
<1> HIDE DEF full
<1>2. t # None
  BY GunsAre
<1>3. /\ Len(turrets) \in Nat /\ guns \in SUBSET (1..Len(turrets)) /\ Cardinality(guns) \in Nat
      /\ t \notin guns <=> \E r \in 1..Len(rows) : rows[r].live = t
      /\ Len(rows) \in Nat /\ Len(full) \in Nat /\ Len(full) >= Len(rows)
      /\ \A r \in vacant : rows[r].live = None
  <2>1. Len(full) = Len(rows) + Surplus(guns, vacant) /\ Surplus(guns, vacant) \in Nat
    BY <1>1 DEF CrewIs, FilledAre
  <2> QED
    BY <1>1, <2>1 DEF CrewIs
<1>4. \A r, q \in 1..Len(rows) : rows[r].live # None /\ rows[r].live = rows[q].live => r = q
  BY <1>1, ClaimsKept
<1>5. CASE t \notin guns
  <2>1. PICK r \in 1..Len(rows) : rows[r].live = t
    BY <1>3, <1>5
  <2>2. r \in 1..Len(full) /\ full[r].live = t
    <3>1. full[r].live = rows[r].live
      BY <1>1, <1>2, <1>3, <2>1 DEF CrewIs, FilledAre
    <3> QED
      BY <1>3, <2>1, <3>1
  <2>3. ASSUME NEW q \in 1..Len(full), full[q].live = t PROVE q = r
    <3>1. \/ q <= Len(rows) /\ rows[q].live = t
          \/ \E k \in 1..Cardinality(guns) : t = NthOf(guns, k)
      BY <1>1, <1>2, <2>3, LiveIs
    <3>2. \A k \in 1..Cardinality(guns) : t # NthOf(guns, k)
      BY <1>3, <1>5, NthOfIs
    <3>3. q \in 1..Len(rows) /\ rows[q].live = t
      BY <1>3, <3>1, <3>2
    <3> QED
      BY <1>2, <1>4, <2>1, <3>3
  <2> QED
    BY <2>2, <2>3 DEF full
<1>6. CASE t \in guns
  <2> DEFINE k == Rank(guns, t)
  <2>1. k \in 1..Cardinality(guns)
    BY <1>3, <1>6, RanksAre
  <2>2. NthOf(guns, k) = t
    BY <1>3, <1>6, NthOfRank
  <2> HIDE DEF k
  <2>3. PICK r \in 1..Len(full) : full[r].live = t
    BY <1>1, <2>1, <2>2, TurnsTaken
  <2>4. ASSUME NEW q \in 1..Len(full), full[q].live = t
        PROVE  /\ q > Len(rows) \/ q \in vacant
               /\ Turn(q, rows, vacant) = k
    <3>1. ~(q <= Len(rows) /\ rows[q].live = t)
      BY <1>3, <1>6
    <3>2. /\ q > Len(rows) \/ q \in vacant
          /\ Turn(q, rows, vacant) \in 1..Cardinality(guns) /\ t = NthOf(guns, Turn(q, rows, vacant))
      BY <1>1, <1>2, <2>4, <3>1, LiveIs
    <3>3. Rank(guns, NthOf(guns, Turn(q, rows, vacant))) = Turn(q, rows, vacant)
      BY <1>3, <3>2, NthOfIs
    <3> QED
      BY <3>2, <3>3 DEF k
  <2>5. \A q \in 1..Len(full) : full[q].live = t => q = r
    BY <1>1, <2>3, <2>4, TurnTells
  <2> QED
    BY <2>3, <2>5 DEF full
<1> QED
  BY <1>5, <1>6

LEMMA GunsOnce ==
  ASSUME VehicleInv
  PROVE  EveryGunOnce
<1> SUFFICES ASSUME veh # None, NEW t \in LiveArmed
             PROVE  Cardinality(RowsWith(CrewRows, LAMBDA r : r.live = t)) = 1
  BY DEF EveryGunOnce, Crews
<1>1. PICK r \in 1..Len(CrewRows) :
        CrewRows[r].live = t /\ \A q \in 1..Len(CrewRows) : CrewRows[q].live = t => q = r
  BY GunsShown
<1>2. {q \in 1..Len(CrewRows) : CrewRows[q].live = t} = {r}
  BY <1>1
<1>3. Cardinality({r}) = 1
  BY FS_Singleton
<1> QED
  BY <1>2, <1>3 DEF RowsWith

LEMMA GunsSeated ==
  ASSUME VehicleInv
  PROVE  GunAtItsSeat
<1> SUFFICES ASSUME veh # None, NEW t \in LiveArmed, loadout # None,
                    Contains(loadout.seats, turrets[t].cls),
                    NEW r \in 1..Len(CrewRows), CrewRows[r].live = t
             PROVE  /\ CrewRows[r].turret = turrets[t].cls
                    /\ ActiveWeapon(CrewRows[r])[2] = turrets[t].weapon
  BY DEF GunAtItsSeat, Crews, RowsWith
<1> DEFINE full == CrewRows
<1>1. PICK i \in 1..Len(loadout.seats) : loadout.seats[i] = turrets[t].cls /\ Claims(i) = t
  BY KnownIsClaimed
<1>2. t # None /\ turrets[t].weapon \in {1, 2}
  BY GunsAre
<1>3. PICK rows, guns, vacant : CrewIs(full, rows, guns, vacant)
  BY CrewRowsAre
<1>4. PICK x \in 1..Len(full) : full[x].live = t /\ \A q \in 1..Len(full) : full[q].live = t => q = x
  BY GunsShown
<1> HIDE DEF full
<1>5. i \in 1..Listed
  BY <1>1 DEF Listed
<1>6. i \in 1..Len(full) /\ full[i].live = t /\ full[i].turret = loadout.seats[i] /\ full[i].guns \in Nat
  BY <1>1, <1>2, <1>3, <1>5, ClaimsKept
<1>7. r = i
  BY <1>4, <1>6 DEF full
<1>8. full[r].live = t /\ full[r].turret = turrets[t].cls /\ full[r].guns \in Nat
  BY <1>1, <1>6, <1>7
<1>9. turrets[t].weapon # None
  BY <1>2, VehicleAssumption
<1>10. ActiveWeapon(full[r])[2] = turrets[t].weapon
  <2> DEFINE w == turrets[t].weapon
             g == full[r].guns
  <2>1. ActiveWeapon(full[r]) = CASE w # None /\ w <= g -> <<full[r].turret, w>>
                                  [] w # None /\ w > g  -> <<"humanised", w>>
                                  [] w = None /\ g > 0  -> <<full[r].turret, 1>>
                                  [] OTHER -> full[r].turret
    BY <1>2, <1>8 DEF ActiveWeapon
  <2>2. w \in Int /\ g \in Int /\ w # None
    BY <1>2, <1>8, <1>9
  <2> HIDE DEF w, g
  <2>3. CASE w <= g
    <3>1. ActiveWeapon(full[r]) = <<full[r].turret, w>>
      BY <2>1, <2>2, <2>3
    <3> QED
      BY <3>1 DEF w
  <2>4. CASE w > g
    <3>1. ActiveWeapon(full[r]) = <<"humanised", w>>
      BY <2>1, <2>2, <2>4
    <3> QED
      BY <3>1 DEF w
  <2> QED
    BY <2>2, <2>3, <2>4
<1> QED
  BY <1>8, <1>10 DEF full

-----------------------------------------------------------------------------
(* The men and the keys *)

\* Who is in a row, and under which key.
LEMMA RowTells ==
  ASSUME NEW full, NEW rows, NEW guns, NEW vacant, CrewIs(full, rows, guns, vacant),
         Shown(DisplaySeats), NEW r \in 1..Len(full)
  PROVE  \/ /\ r \in 1..Listed /\ full[r].key = <<"s", r - 1>>
            /\ full[r].occ = IF r <= Len(DisplaySeats) THEN DisplaySeats[r].occ ELSE None
         \/ /\ r > Listed
            /\ r <= Len(rows)
            /\ \E i \in 1..Len(DisplaySeats) :
                 /\ i > Listed /\ Rank(Beyond(DisplaySeats), i) = r - Listed
                 /\ full[r].key = <<ExtraTag, i - 1>> /\ full[r].occ = DisplaySeats[i].occ
         \/ r > Len(rows) /\ full[r].key = <<"o", r - Len(rows) - 1>> /\ full[r].occ = None
<1> DEFINE ds == DisplaySeats
           D == Beyond(ds)
           c == Cardinality(D)
           m == Surplus(guns, vacant)
<1>1. SeatRowsAre(rows, ds) /\ FilledAre(full, rows, guns, vacant)
  BY DEF CrewIs
<1>2. /\ Listed \in Nat /\ c \in Nat /\ Len(rows) = Listed + c /\ m \in Nat /\ Len(full) = Len(rows) + m
      /\ D = {i \in 1..Len(ds) : i > Listed}
  BY <1>1 DEF SeatRowsAre, FilledAre
<1>3. \A x \in 1..Len(rows) : full[x].key = rows[x].key /\ full[x].occ = rows[x].occ
  BY <1>1 DEF FilledAre
<1>4. CASE r <= Listed
  <2>1. r \in 1..Listed /\ r \in 1..Len(rows) /\ r - 1 \in Nat /\ (r - 1) + 1 = r
    BY <1>2, <1>4
  <2>2. rows[r].key = <<"s", r - 1>> /\ rows[r].occ = Occupant(ds, r - 1)
    BY <1>1, <2>1 DEF SeatRowsAre
  <2>3. Occupant(ds, r - 1) = IF r <= Len(ds) THEN ds[r].occ ELSE None
    BY <2>1, OccupantIs
  <2> QED
    BY <1>3, <2>1, <2>2, <2>3
<1>5. CASE r > Listed /\ r <= Len(rows)
  <2> DEFINE k == r - Listed
             i == NthOf(D, k)
  <2>1. k \in 1..c /\ Listed + k = r /\ r \in 1..Len(rows)
    BY <1>2, <1>5
  <2> HIDE DEF k, c
  <2>2. /\ i \in D /\ Rank(D, i) = k
        /\ rows[Listed + k].key = <<ExtraTag, i - 1>> /\ rows[Listed + k].occ = ds[i].occ
    BY <1>1, <2>1 DEF SeatRowsAre, c
  <2> HIDE DEF i
  <2>3. i \in 1..Len(ds) /\ i > Listed
    BY <1>2, <2>2
  <2>4. full[r].key = <<ExtraTag, i - 1>> /\ full[r].occ = ds[i].occ
    BY <1>3, <2>1, <2>2
  <2> QED
    BY <1>5, <2>2, <2>3, <2>4 DEF k
<1>6. CASE r > Len(rows)
  <2> DEFINE k == r - Len(rows)
  <2>1. k \in 1..m /\ Len(rows) + k = r
    BY SMTT(30), <1>2, <1>6
  <2> HIDE DEF k, m
  <2>2. full[Len(rows) + k].key = <<"o", k - 1>> /\ full[Len(rows) + k].occ = None
    BY <1>1, <2>1 DEF FilledAre, m
  <2>3. full[r].key = <<"o", k - 1>> /\ full[r].occ = None
    BY <2>1, <2>2
  <2>4. k - 1 = r - Len(rows) - 1
    BY DEF k
  <2> QED
    BY <1>6, <2>3, <2>4
<1>7. r <= Listed \/ (r > Listed /\ r <= Len(rows)) \/ r > Len(rows)
  BY <1>2
<1> QED
  BY <1>4, <1>5, <1>6, <1>7

LEMMA MenOnce ==
  ASSUME VehicleInv
  PROVE  EveryManOnce
<1> SUFFICES ASSUME veh # None
             PROVE  /\ \A m \in Men : men[m] # None =>
                         Cardinality({r \in 1..Len(CrewRows) : CrewRows[r].occ = m}) = 1
                    /\ \A r, q \in 1..Len(CrewRows) : r # q => CrewRows[r].key # CrewRows[q].key
  BY DEF EveryManOnce, Crews, RowsWith
<1> DEFINE ds == DisplaySeats
           D == Beyond(ds)
           full == CrewRows
<1>1. PICK rows, guns, vacant : CrewIs(full, rows, guns, vacant)
  BY CrewRowsAre
<1>2. Shown(ds)
  BY SeatsAreShown
<1> HIDE DEF full
<1>3. /\ SeatRowsAre(rows, ds) /\ FilledAre(full, rows, guns, vacant)
      /\ Len(rows) \in Nat /\ Len(full) \in Nat
  BY <1>1 DEF CrewIs
<1>4. /\ Listed \in Nat /\ Cardinality(D) \in Nat /\ D \in SUBSET (1..Len(ds))
      /\ D = {i \in 1..Len(ds) : i > Listed}
      /\ Len(rows) = Listed + Cardinality(D)
      /\ Len(full) = Len(rows) + Surplus(guns, vacant) /\ Surplus(guns, vacant) \in Nat
  BY <1>3 DEF SeatRowsAre, FilledAre
<1>5. Len(ds) \in Nat
  BY <1>2 DEF Shown
<1>6. ASSUME NEW i \in 1..Len(ds), NEW j \in 1..Len(ds), i > Listed, j > Listed, Rank(D, i) = Rank(D, j)
      PROVE  i = j
  BY <1>4, <1>5, <1>6, RankTells
<1>7. ASSUME NEW m \in Men, men[m] # None
      PROVE  Cardinality({r \in 1..Len(full) : full[r].occ = m}) = 1
  <2>0. m # None
    BY VehicleAssumption
  <2>1. PICK i \in 1..Len(ds) : ds[i].occ = m /\ \A j \in 1..Len(ds) : ds[j].occ = m => j = i
    <3>1. PICK i \in 1..Len(ds) : ds[i].occ = m
      BY <1>2, <1>7 DEF Shown
    <3>2. \A j \in 1..Len(ds) : ds[j].occ = m => j = i
      BY <1>2, <3>1 DEF Shown
    <3> QED
      BY <3>1, <3>2
  <2>2. PICK r \in 1..Len(full) : full[r].occ = m
    <3>1. CASE i <= Listed
      <4>1. i \in 1..Listed /\ i \in 1..Len(rows) /\ i \in 1..Len(full) /\ i - 1 \in Nat /\ (i - 1) + 1 = i
        BY <1>4, <1>5, <3>1
      <4>2. full[i].occ = rows[i].occ
        BY <1>3, <4>1 DEF FilledAre
      <4>3. rows[i].occ = Occupant(ds, i - 1)
        BY <1>3, <4>1 DEF SeatRowsAre
      <4>4. Occupant(ds, i - 1) = IF i <= Len(ds) THEN ds[i].occ ELSE None
        BY <1>2, <4>1, OccupantIs
      <4>5. i <= Len(ds)
        BY <1>5
      <4> QED
        BY <2>1, <4>1, <4>2, <4>3, <4>4, <4>5
    <3>2. CASE i > Listed
      <4> DEFINE k == Rank(D, i)
      <4>1. i \in D
        BY <1>4, <3>2
      <4>2. k \in 1..Cardinality(D) /\ NthOf(D, k) = i
        <5>1. k \in 1..Cardinality(D)
          BY <1>4, <1>5, <4>1, RanksAre
        <5>2. NthOf(D, k) = i
          BY <1>4, <1>5, <4>1, NthOfRank
        <5> QED
          BY <5>1, <5>2
      <4> HIDE DEF k
      <4>3. rows[Listed + k].occ = ds[i].occ
        BY <1>3, <4>2 DEF SeatRowsAre
      <4>4. Listed + k \in 1..Len(rows) /\ Listed + k \in 1..Len(full)
        BY <1>4, <4>2
      <4>5. full[Listed + k].occ = rows[Listed + k].occ
        BY <1>3, <4>4 DEF FilledAre
      <4>6. full[Listed + k].occ = m
        BY <2>1, <4>3, <4>5
      <4> QED
        BY <4>4, <4>6
    <3>3. i <= Listed \/ i > Listed
      BY <1>4, <1>5
    <3> QED
      BY <3>1, <3>2, <3>3
  <2>3. ASSUME NEW q \in 1..Len(full), full[q].occ = m
        PROVE  \/ q <= Listed /\ q = i
               \/ q > Listed /\ i > Listed /\ Rank(D, i) = q - Listed
    <3>1. CASE q \in 1..Listed /\ full[q].occ = IF q <= Len(ds) THEN ds[q].occ ELSE None
      <4>1. q <= Len(ds) /\ ds[q].occ = m
        BY <2>0, <2>3, <3>1
      <4>2. q \in 1..Len(ds)
        BY <1>4, <1>5, <3>1, <4>1
      <4> QED
        BY <1>4, <2>1, <3>1, <4>1, <4>2
    <3>2. CASE /\ q > Listed
               /\ \E j \in 1..Len(ds) : j > Listed /\ Rank(D, j) = q - Listed /\ full[q].occ = ds[j].occ
      BY <2>1, <2>3, <3>2
    <3> QED
      BY <1>1, <1>2, <2>0, <2>3, <3>1, <3>2, RowTells
  <2>4. \A q \in 1..Len(full) : full[q].occ = m => q = r
    <3> SUFFICES ASSUME NEW q \in 1..Len(full), full[q].occ = m PROVE q = r
      OBVIOUS
    <3>1. \/ q <= Listed /\ q = i
          \/ q > Listed /\ i > Listed /\ Rank(D, i) = q - Listed
      BY <2>3
    <3>2. \/ r <= Listed /\ r = i
          \/ r > Listed /\ i > Listed /\ Rank(D, i) = r - Listed
      BY <2>2, <2>3
    <3> HIDE DEF D, ds
    <3>3. q \in Int /\ r \in Int /\ i \in Int /\ Listed \in Int
      BY <1>4, <1>5
    <3> QED
      BY <3>1, <3>2, <3>3
  <2>5. {q \in 1..Len(full) : full[q].occ = m} = {r}
    BY <2>2, <2>4
  <2> QED
    BY <2>5, FS_Singleton
<1>8. ASSUME NEW r \in 1..Len(full), NEW q \in 1..Len(full), full[r].key = full[q].key
      PROVE  r = q
  <2> DEFINE K(x) ==
        \/ x \in 1..Listed /\ full[x].key = <<"s", x - 1>>
        \/ x > Listed /\ x <= Len(rows) /\ \E i \in 1..Len(ds) : /\ i > Listed /\ Rank(D, i) = x - Listed
                                                                /\ full[x].key = <<ExtraTag, i - 1>>
        \/ x > Len(rows) /\ full[x].key = <<"o", x - Len(rows) - 1>>
  <2>1. K(r) /\ K(q)
    BY <1>1, <1>2, RowTells
  <2>2. \/ Listed = 0 /\ ExtraTag = "s"
        \/ ExtraTag = "x"
    BY DEF Listed, ExtraTag
  <2> HIDE DEF D, ds
  <2>3. r \in Int /\ q \in Int /\ Listed \in Nat /\ Len(rows) \in Int /\ Len(ds) \in Nat
    BY <1>4, <1>5
  <2>4. CASE r \in 1..Listed /\ full[r].key = <<"s", r - 1>>
    <3>1. ExtraTag = "x"
      BY <2>2, <2>3, <2>4
    <3>2. full[q].key[1] = "s" /\ full[q].key[2] = r - 1
      BY <1>8, <2>4
    <3>3. q \in 1..Listed /\ full[q].key = <<"s", q - 1>>
      BY <2>1, <3>1, <3>2
    <3> QED
      BY <2>3, <3>2, <3>3
  <2>5. CASE q \in 1..Listed /\ full[q].key = <<"s", q - 1>>
    <3>1. ExtraTag = "x"
      BY <2>2, <2>3, <2>5
    <3>2. full[r].key[1] = "s" /\ full[r].key[2] = q - 1
      BY <1>8, <2>5
    <3>3. r \in 1..Listed /\ full[r].key = <<"s", r - 1>>
      BY <2>1, <3>1, <3>2
    <3> QED
      BY <2>3, <3>2, <3>3
  <2>6. CASE r > Len(rows) /\ full[r].key = <<"o", r - Len(rows) - 1>>
    <3>1. full[q].key[1] = "o" /\ full[q].key[2] = r - Len(rows) - 1 /\ ExtraTag # "o"
      BY <1>8, <2>2, <2>6
    <3>2. full[q].key = <<"o", q - Len(rows) - 1>>
      BY <2>1, <3>1
    <3>3. q - Len(rows) - 1 = r - Len(rows) - 1
      BY <3>1, <3>2
    <3> QED
      BY <2>3, <3>3
  <2>7. CASE q > Len(rows) /\ full[q].key = <<"o", q - Len(rows) - 1>>
    <3>1. full[r].key[1] = "o" /\ full[r].key[2] = q - Len(rows) - 1 /\ ExtraTag # "o"
      BY <1>8, <2>2, <2>7
    <3>2. full[r].key = <<"o", r - Len(rows) - 1>>
      BY <2>1, <3>1
    <3>3. q - Len(rows) - 1 = r - Len(rows) - 1
      BY <3>1, <3>2
    <3> QED
      BY <2>3, <3>3
  <2>8. CASE /\ \E i \in 1..Len(ds) : i > Listed /\ Rank(D, i) = r - Listed /\ full[r].key = <<ExtraTag, i - 1>>
             /\ \E i \in 1..Len(ds) : i > Listed /\ Rank(D, i) = q - Listed /\ full[q].key = <<ExtraTag, i - 1>>
    <3>1. PICK i \in 1..Len(ds) : i > Listed /\ Rank(D, i) = r - Listed /\ full[r].key = <<ExtraTag, i - 1>>
      BY <2>8
    <3>2. PICK j \in 1..Len(ds) : j > Listed /\ Rank(D, j) = q - Listed /\ full[q].key = <<ExtraTag, j - 1>>
      BY <2>8
    <3>3. i - 1 = j - 1
      <4>1. full[r].key[2] = i - 1 /\ full[q].key[2] = j - 1
        BY <3>1, <3>2
      <4> QED
        BY <1>8, <4>1
    <3>4. i = j
      BY <2>3, <3>3
    <3>5. r - Listed = q - Listed
      BY <3>1, <3>2, <3>4
    <3> QED
      BY <2>3, <3>5
  <2> QED
    BY <2>1, <2>4, <2>5, <2>6, <2>7, <2>8
<1> QED
  BY <1>7, <1>8 DEF full

-----------------------------------------------------------------------------
(* The grid of parts *)

(* The parts drawn in these slots.                                         *)
InSlots(T) == {i \in 1..Len(parts) : Slot(parts[i]) \in T}

(* A sequence of the elements of a set, each once.                         *)
Covers(s, A) ==
  /\ IsFiniteSet(A) /\ Cardinality(A) \in Nat /\ Len(s) = Cardinality(A)
  /\ s = [k \in 1..Cardinality(A) |-> s[k]]
  /\ \A k \in 1..Cardinality(A) : s[k] \in A
  /\ \A x \in A : \E k \in 1..Cardinality(A) : s[k] = x

LEMMA CoversJoin ==
  ASSUME NEW s, NEW A, Covers(s, A), NEW t, NEW B, Covers(t, B), A \cap B = {}
  PROVE  /\ Covers(s \o t, A \cup B)
         /\ \A k \in 1..Len(s) : (s \o t)[k] = s[k]
         /\ \A k \in 1..Len(t) : (s \o t)[Len(s) + k] = t[k]
         /\ Len(s \o t) = Len(s) + Len(t)
<1> DEFINE a == Cardinality(A)
           b == Cardinality(B)
           u == s \o t
<1>1. /\ a \in Nat /\ b \in Nat /\ Len(s) = a /\ Len(t) = b
      /\ IsFiniteSet(A) /\ IsFiniteSet(B)
  BY DEF Covers
<1>2. s \in Seq(A) /\ t \in Seq(B)
  <2>1. s \in [1..a -> A] /\ t \in [1..b -> B]
    BY DEF Covers
  <2> QED
    BY <1>1, <2>1
<1>3. IsFiniteSet(A \cup B) /\ Cardinality(A \cup B) = a + b
  <2>1. /\ IsFiniteSet(A \cup B)
        /\ Cardinality(A \cup B) = a + b - Cardinality(A \cap B)
    BY <1>1, FS_Union
  <2>2. Cardinality(A \cap B) = 0
    BY FS_EmptySet
  <2> QED
    BY <1>1, <2>1, <2>2
<1>4. /\ Len(u) = a + b /\ u = [k \in 1..a + b |-> u[k]]
      /\ \A k \in 1..a : u[k] = s[k]
      /\ \A k \in 1..b : u[a + k] = t[k]
  <2>1. /\ Len(u) = a + b /\ \A k \in 1..a : u[k] = s[k]
        /\ \A k \in 1..b : u[a + k] = t[k]
    BY <1>1, <1>2
  <2>2. u \in Seq(A \cup B)
    BY <1>2
  <2> HIDE DEF u, a, b
  <2>3. u = [k \in 1..Len(u) |-> u[k]]
    BY <2>2
  <2> QED
    BY <2>1, <2>3
<1>5. (\A k \in 1..a : s[k] \in A) /\ (\A k \in 1..b : t[k] \in B)
  BY DEF Covers
<1>6. (\A x \in A : \E k \in 1..a : s[k] = x) /\ (\A x \in B : \E k \in 1..b : t[k] = x)
  BY DEF Covers
<1> HIDE DEF u, a, b
<1>7. \A k \in 1..a + b : u[k] \in A \cup B
  <2> SUFFICES ASSUME NEW k \in 1..a + b PROVE u[k] \in A \cup B
    OBVIOUS
  <2>1. CASE k <= a
    <3>1. k \in 1..a
      BY <1>1, <2>1
    <3> QED
      BY <1>4, <1>5, <3>1
  <2>2. CASE k > a
    <3>1. k - a \in 1..b /\ a + (k - a) = k
      BY <1>1, <2>2
    <3> QED
      BY <1>4, <1>5, <3>1
  <2> QED
    BY <1>1, <2>1, <2>2
<1>8. \A x \in A \cup B : \E k \in 1..a + b : u[k] = x
  <2> SUFFICES ASSUME NEW x \in A \cup B PROVE \E k \in 1..a + b : u[k] = x
    OBVIOUS
  <2>1. CASE x \in A
    <3>1. PICK k \in 1..a : s[k] = x
      BY <1>6, <2>1
    <3>2. k \in 1..a + b
      BY <1>1
    <3> QED
      BY <1>4, <3>1, <3>2
  <2>2. CASE x \in B
    <3>1. PICK k \in 1..b : t[k] = x
      BY <1>6, <2>2
    <3>2. a + k \in 1..a + b
      BY <1>1
    <3> QED
      BY <1>4, <3>1, <3>2
  <2> QED
    BY <2>1, <2>2
<1>9. a + b \in Nat
  BY <1>1
<1> QED
  BY <1>1, <1>3, <1>4, <1>7, <1>8, <1>9 DEF Covers, u

LEMMA PartsAre ==
  ASSUME VehicleInv, veh # None
  PROVE  /\ Len(parts) \in Nat /\ \A i \in 1..Len(parts) : parts[i].n \in Int
         /\ \A s : Slotted(s) \in SUBSET (1..Len(parts)) /\ Slotted(s) = InSlots({s})
<1>1. parts = PartsOf[veh] /\ veh \in Classes
  BY DEF VehicleInv
<1>2. parts \in Seq(Range(parts)) /\ \A p \in Range(parts) : p.n \in Int
  BY <1>1, VehicleAssumption
<1>3. Len(parts) \in Nat /\ \A i \in 1..Len(parts) : parts[i] \in Range(parts)
  BY <1>2
<1> QED
  BY <1>2, <1>3 DEF Slotted, InSlots

LEMMA InSlotCovers ==
  ASSUME VehicleInv, veh # None, NEW s
  PROVE  Covers(InSlot(s), InSlots({s}))
<1> DEFINE ids == [i \in 1..Len(parts) |-> i]
           D == Slotted(s)
           q == AtPlaces(ids, D)
<1>1. D \in SUBSET (1..Len(parts)) /\ D = InSlots({s}) /\ Len(parts) \in Nat
  BY PartsAre
<1>2. q = InSlot(s)
  BY DEF InSlot
<1> HIDE DEF D
<1>3. Picks(q, ids, D)
  BY <1>1, PlacesPick
<1>4. IsFiniteSet(D) /\ Cardinality(D) \in Nat
  BY <1>1, RanksAre
<1> HIDE DEF q
<1>5. /\ Len(q) = Cardinality(D) /\ q = [m \in 1..Len(q) |-> q[m]]
      /\ \A m \in 1..Len(q) : NthOf(D, m) \in D /\ q[m] = NthOf(D, m)
      /\ \A x \in D : Rank(D, x) \in 1..Len(q) /\ NthOf(D, Rank(D, x)) = x
  <2>1. /\ Len(q) = Cardinality(D) /\ q = [m \in 1..Len(q) |-> q[m]]
        /\ \A m \in 1..Len(q) : NthOf(D, m) \in D /\ q[m] = ids[NthOf(D, m)]
        /\ \A x \in D : Rank(D, x) \in 1..Len(q) /\ NthOf(D, Rank(D, x)) = x
    BY <1>3 DEF Picks
  <2>2. \A x \in D : ids[x] = x
    BY <1>1
  <2> QED
    BY <2>1, <2>2
<1>6. Covers(q, D)
  BY <1>4, <1>5 DEF Covers
<1> QED
  BY <1>1, <1>2, <1>6

(* The wheels of a side: who comes before whom.                            *)
Sooner(i, j) ==
  \/ parts[i].n < parts[j].n
  \/ parts[i].n = parts[j].n /\ i <= j
SoonerIn(D, i) == {j \in D : Sooner(j, i)}
PlaceIn(D, i) == Cardinality(SoonerIn(D, i))

LEMMA PlacesIn ==
  ASSUME VehicleInv, veh # None, NEW D \in SUBSET (1..Len(parts))
  PROVE  /\ \A i \in D : PlaceIn(D, i) \in 1..Cardinality(D)
         /\ \A i, j \in D : i # j /\ Sooner(i, j) => PlaceIn(D, i) < PlaceIn(D, j)
<1>1. /\ Len(parts) \in Nat /\ \A i \in D : i \in Int /\ parts[i].n \in Int
      /\ IsFiniteSet(D) /\ Cardinality(D) \in Nat
  <2>1. Len(parts) \in Nat /\ \A i \in 1..Len(parts) : parts[i].n \in Int
    BY PartsAre
  <2>2. IsFiniteSet(D) /\ Cardinality(D) \in Nat
    BY <2>1, RanksAre
  <2> QED
    BY <2>1, <2>2
<1>2. ASSUME NEW i \in D
      PROVE  /\ i \in SoonerIn(D, i) /\ IsFiniteSet(SoonerIn(D, i))
             /\ PlaceIn(D, i) \in 1..Cardinality(D)
  <2>1. SoonerIn(D, i) \in SUBSET D /\ i \in SoonerIn(D, i)
    BY <1>1 DEF SoonerIn, Sooner
  <2>2. IsFiniteSet(SoonerIn(D, i)) /\ PlaceIn(D, i) <= Cardinality(D)
    BY <1>1, <2>1, FS_Subset DEF PlaceIn
  <2>3. PlaceIn(D, i) \in Nat /\ PlaceIn(D, i) # 0
    BY <2>1, <2>2, FS_CardinalityType, FS_EmptySet DEF PlaceIn
  <2> QED
    BY <1>1, <2>1, <2>2, <2>3
<1>3. ASSUME NEW i \in D, NEW j \in D, i # j, Sooner(i, j)
      PROVE  PlaceIn(D, i) < PlaceIn(D, j)
  <2>1. j \notin SoonerIn(D, i)
    BY <1>1, <1>3 DEF SoonerIn, Sooner
  <2>2. SoonerIn(D, i) \in SUBSET SoonerIn(D, j)
    <3> SUFFICES ASSUME NEW x \in D, Sooner(x, i) PROVE Sooner(x, j)
      BY DEF SoonerIn
    <3> QED
      BY <1>1, <1>3 DEF Sooner
  <2>3. /\ PlaceIn(D, i) <= PlaceIn(D, j)
        /\ PlaceIn(D, i) = PlaceIn(D, j) => SoonerIn(D, i) = SoonerIn(D, j)
    BY <1>2, <2>2, FS_Subset DEF PlaceIn
  <2>4. PlaceIn(D, i) # PlaceIn(D, j)
    BY <1>2, <2>1, <2>3
  <2>5. PlaceIn(D, i) \in Int /\ PlaceIn(D, j) \in Int
    BY <1>1, <1>2
  <2> QED
    BY <2>3, <2>4, <2>5
<1> QED
  BY <1>2, <1>3

LEMMA ByIdxCovers ==
  ASSUME VehicleInv, veh # None, NEW s
  PROVE  /\ Covers(ByIdx(s), InSlots({s}))
         /\ \A k, l \in 1..Len(ByIdx(s)) : k < l => parts[ByIdx(s)[k]].n <= parts[ByIdx(s)[l]].n
<1> DEFINE D == Slotted(s)
           c == Cardinality(D)
           q == ByIdx(s)
           place == [i \in D |-> PlaceIn(D, i)]
<1>1. D \in SUBSET (1..Len(parts)) /\ D = InSlots({s}) /\ Len(parts) \in Nat
  BY PartsAre
<1>2. q = [k \in 1..c |-> CHOOSE i \in D : PlaceIn(D, i) = k]
  BY Zenon DEF ByIdx, PlaceIn, SoonerIn, Sooner
<1> HIDE DEF D, q
<1>3. IsFiniteSet(D) /\ c \in Nat
  BY <1>1, RanksAre
<1>4. /\ \A i \in D : PlaceIn(D, i) \in 1..c
      /\ \A i, j \in D : i # j /\ Sooner(i, j) => PlaceIn(D, i) < PlaceIn(D, j)
  BY <1>1, PlacesIn
<1>5. \A i \in D : i \in Int /\ parts[i].n \in Int
  BY <1>1, PartsAre
<1>6. \A i, j \in D : PlaceIn(D, i) = PlaceIn(D, j) => i = j
  <2> SUFFICES ASSUME NEW i \in D, NEW j \in D, PlaceIn(D, i) = PlaceIn(D, j), i # j PROVE FALSE
    OBVIOUS
  <2>1. Sooner(i, j) \/ Sooner(j, i)
    BY <1>5 DEF Sooner
  <2>2. PlaceIn(D, i) < PlaceIn(D, j) \/ PlaceIn(D, j) < PlaceIn(D, i)
    BY <1>4, <2>1
  <2>3. PlaceIn(D, i) \in Int /\ PlaceIn(D, j) \in Int
    BY <1>4
  <2> QED
    BY <2>2, <2>3
<1>7. place \in Injection(D, 1..c)
  <2>1. place \in [D -> 1..c]
    BY <1>4
  <2> QED
    BY <1>6, <2>1 DEF Injection, IsInjective
<1>8. Cardinality(1..c) = c /\ IsFiniteSet(1..c)
  BY <1>3, FS_Interval
<1>9. place \in Surjection(D, 1..c)
  BY <1>3, <1>7, <1>8, FS_Injection
<1>10. \A k \in 1..c : \E i \in D : PlaceIn(D, i) = k
  BY <1>9 DEF Surjection
<1>11. \A k \in 1..c : q[k] \in D /\ PlaceIn(D, q[k]) = k
  <2> SUFFICES ASSUME NEW k \in 1..c PROVE q[k] \in D /\ PlaceIn(D, q[k]) = k
    OBVIOUS
  <2>1. q[k] = CHOOSE i \in D : PlaceIn(D, i) = k
    BY <1>2
  <2> QED
    BY <1>10, <2>1
<1>12. Len(q) = c /\ q = [k \in 1..c |-> q[k]]
  <2> DEFINE f(k) == CHOOSE i \in D : PlaceIn(D, i) = k
  <2>1. q = [k \in 1..c |-> f(k)]
    BY <1>2
  <2> HIDE DEF f, c
  <2> QED
    BY <1>3, <2>1
<1>13. \A x \in D : \E k \in 1..c : q[k] = x
  <2> SUFFICES ASSUME NEW x \in D PROVE \E k \in 1..c : q[k] = x
    OBVIOUS
  <2>1. PlaceIn(D, x) \in 1..c
    BY <1>4
  <2>2. q[PlaceIn(D, x)] \in D /\ PlaceIn(D, q[PlaceIn(D, x)]) = PlaceIn(D, x)
    BY <1>11, <2>1
  <2> QED
    BY <1>6, <2>1, <2>2
<1>14. ASSUME NEW k \in 1..c, NEW l \in 1..c, k < l
       PROVE  parts[q[k]].n <= parts[q[l]].n
  <2> DEFINE x == q[k]
             y == q[l]
  <2>1. x \in D /\ y \in D /\ PlaceIn(D, x) = k /\ PlaceIn(D, y) = l
    BY <1>11
  <2> HIDE DEF x, y
  <2>2. x # y /\ k \in Int /\ l \in Int
    BY <1>3, <1>14, <2>1
  <2>3. ~Sooner(y, x)
    BY <1>4, <1>14, <2>1, <2>2
  <2>4. parts[x].n \in Int /\ parts[y].n \in Int
    BY <1>5, <2>1
  <2>5. parts[x].n <= parts[y].n
    BY <2>3, <2>4 DEF Sooner
  <2> QED
    BY <2>5 DEF x, y
<1> HIDE DEF c
<1>15. Covers(q, D)
  BY <1>3, <1>11, <1>12, <1>13 DEF Covers, c
<1>16. \A k, l \in 1..Len(q) : k < l => parts[q[k]].n <= parts[q[l]].n
  BY <1>12, <1>14
<1> QED
  BY <1>1, <1>15, <1>16 DEF q

\* What fills different slots is of different parts.
LEMMA SlotsJoin ==
  ASSUME VehicleInv, veh # None, NEW s, NEW t, NEW A, NEW B,
         Covers(s, InSlots(A)), Covers(t, InSlots(B)), A \cap B = {}
  PROVE  Covers(s \o t, InSlots(A \cup B))
<1>1. InSlots(A) \cap InSlots(B) = {} /\ InSlots(A) \cup InSlots(B) = InSlots(A \cup B)
  BY DEF InSlots
<1>2. Covers(s \o t, InSlots(A) \cup InSlots(B))
  BY <1>1, CoversJoin
<1> QED
  BY <1>1, <1>2

\* The wheels of a side are in their order.
LEMMA SideSorted ==
  ASSUME VehicleInv, veh # None, NEW w \in {"wheelL", "wheelR"}, NEW tr \in {"trackL", "trackR"},
         NEW s, s = ByIdx(w) \o InSlot(tr), NEW i \in 1..Len(s), NEW j \in 1..Len(s), i < j,
         parts[s[i]].kind \in {"wheelL", "wheelR"}, parts[s[j]].kind \in {"wheelL", "wheelR"}
  PROVE  parts[s[i]].n <= parts[s[j]].n
<1> DEFINE u == ByIdx(w)
           v == InSlot(tr)
<1>1. /\ Covers(u, InSlots({w})) /\ Covers(v, InSlots({tr}))
      /\ \A k, l \in 1..Len(u) : k < l => parts[u[k]].n <= parts[u[l]].n
  BY ByIdxCovers, InSlotCovers
<1>2. InSlots({w}) \cap InSlots({tr}) = {}
  BY DEF InSlots
<1> HIDE DEF u, v
<1>3. /\ \A k \in 1..Len(u) : (u \o v)[k] = u[k]
      /\ \A k \in 1..Len(v) : (u \o v)[Len(u) + k] = v[k]
      /\ Len(u \o v) = Len(u) + Len(v)
  BY <1>1, <1>2, CoversJoin
<1>4. s = u \o v
  BY DEF u, v
<1>5. Len(u) \in Nat /\ Len(v) \in Nat
  BY <1>1 DEF Covers
<1>6. ASSUME NEW k \in 1..Len(s), parts[s[k]].kind \in {"wheelL", "wheelR"}
      PROVE  k \in 1..Len(u) /\ s[k] = u[k]
  <2>1. CASE k <= Len(u)
    <3>1. k \in 1..Len(u)
      BY <1>3, <1>4, <1>5, <2>1
    <3> QED
      BY <1>3, <1>4, <3>1
  <2>2. CASE k > Len(u)
    <3>1. k - Len(u) \in 1..Len(v) /\ Len(u) + (k - Len(u)) = k
      BY <1>3, <1>4, <1>5, <2>2
    <3>2. s[k] = v[k - Len(u)]
      BY <1>3, <1>4, <3>1
    <3>3. s[k] \in InSlots({tr})
      BY <1>1, <3>1, <3>2 DEF Covers
    <3>4. Slot(parts[s[k]]) = tr
      BY <3>3 DEF InSlots
    <3>5. Slot(parts[s[k]]) = parts[s[k]].kind
      BY <1>6 DEF Slot
    <3> QED
      BY Zenon, <1>6, <3>4, <3>5
  <2> QED
    BY <1>3, <1>4, <1>5, <2>1, <2>2
<1>7. i \in 1..Len(u) /\ j \in 1..Len(u) /\ s[i] = u[i] /\ s[j] = u[j]
  BY <1>6
<1> QED
  BY <1>1, <1>7

LEMMA PartsHold ==
  ASSUME VehicleInv
  PROVE  PartsShown
<1> SUFFICES ASSUME veh # None, ~IsHeli PROVE PartsShown
  BY DEF PartsShown
<1> DEFINE L == ByIdx("wheelL") \o InSlot("trackL")
           R == ByIdx("wheelR") \o InSlot("trackR")
           m == InSlot("turretBase") \o InSlot("ammo")
           M == m \o InSlot("engine")
           O == InSlot("other")
           all == L \o M \o R \o O
           T == {"wheelL"} \cup {"trackL"} \cup ({"turretBase"} \cup {"ammo"} \cup {"engine"})
                \cup ({"wheelR"} \cup {"trackR"}) \cup {"other"}
<1>1. Grid = <<L, M, R, O>>
  BY DEF Grid
<1>2. Covers(L, InSlots({"wheelL"} \cup {"trackL"})) /\ Covers(R, InSlots({"wheelR"} \cup {"trackR"}))
  <2>1. Covers(L, InSlots({"wheelL"} \cup {"trackL"}))
    BY ByIdxCovers, InSlotCovers, SlotsJoin
  <2>2. Covers(R, InSlots({"wheelR"} \cup {"trackR"}))
    BY ByIdxCovers, InSlotCovers, SlotsJoin
  <2> QED
    BY <2>1, <2>2
<1>3. Covers(m, InSlots({"turretBase"} \cup {"ammo"}))
  BY InSlotCovers, SlotsJoin
<1> HIDE DEF m
<1>4. Covers(M, InSlots({"turretBase"} \cup {"ammo"} \cup {"engine"}))
  <2>1. Covers(InSlot("engine"), InSlots({"engine"})) /\ ({"turretBase"} \cup {"ammo"}) \cap {"engine"} = {}
    BY InSlotCovers
  <2> QED
    BY <1>3, <2>1, SlotsJoin
<1> HIDE DEF L, R, M
<1>5. Covers(L \o M, InSlots({"wheelL"} \cup {"trackL"} \cup ({"turretBase"} \cup {"ammo"} \cup {"engine"})))
  <2>1. ({"wheelL"} \cup {"trackL"}) \cap ({"turretBase"} \cup {"ammo"} \cup {"engine"}) = {}
    OBVIOUS
  <2> QED
    BY <1>2, <1>4, <2>1, SlotsJoin
<1>6. Covers(L \o M \o R, InSlots({"wheelL"} \cup {"trackL"} \cup ({"turretBase"} \cup {"ammo"} \cup {"engine"})
                                  \cup ({"wheelR"} \cup {"trackR"})))
  <2>1. ({"wheelL"} \cup {"trackL"} \cup ({"turretBase"} \cup {"ammo"} \cup {"engine"}))
        \cap ({"wheelR"} \cup {"trackR"}) = {}
    OBVIOUS
  <2> QED
    BY <1>2, <1>5, <2>1, SlotsJoin
<1>7. Covers(all, InSlots(T))
  <2>1. ({"wheelL"} \cup {"trackL"} \cup ({"turretBase"} \cup {"ammo"} \cup {"engine"})
         \cup ({"wheelR"} \cup {"trackR"})) \cap {"other"} = {}
    OBVIOUS
  <2>2. Covers(O, InSlots({"other"}))
    BY InSlotCovers
  <2> QED
    BY <1>6, <2>1, <2>2, SlotsJoin
<1>8. InSlots(T) = 1..Len(parts)
  <2> SUFFICES ASSUME NEW i \in 1..Len(parts) PROVE Slot(parts[i]) \in T
    BY DEF InSlots
  <2>1. Slot(parts[i]) # "rotorMain" /\ Slot(parts[i]) # "rotorTail"
    BY DEF IsHeli, Slotted
  <2>2. Slot(parts[i]) \in {"engine", "ammo", "rotorMain", "rotorTail", "wheelL", "wheelR",
                            "trackL", "trackR", "turretBase", "other"}
    BY DEF Slot
  <2> QED
    BY <2>1, <2>2
<1> HIDE DEF T, all
<1>9. Len(all) = Len(parts) /\ ToSet(all) = 1..Len(parts)
  <2>1. Len(parts) \in Nat
    BY PartsAre
  <2>2. Cardinality(1..Len(parts)) = Len(parts)
    <3>1. \A n \in Nat : Cardinality(1..n) = n
      BY FS_Interval
    <3> QED
      BY <2>1, <3>1
  <2>3. Covers(all, 1..Len(parts))
    BY <1>7, <1>8
  <2>4. /\ Len(all) = Len(parts) /\ DOMAIN all = 1..Len(parts)
        /\ \A k \in 1..Len(parts) : all[k] \in 1..Len(parts)
        /\ \A x \in 1..Len(parts) : \E k \in 1..Len(parts) : all[k] = x
    BY <2>2, <2>3 DEF Covers
  <2> QED
    BY <2>4 DEF ToSet
<1>10. ASSUME NEW c \in {1, 3}, NEW i \in 1..Len(Grid[c]), NEW j \in 1..Len(Grid[c]), i < j,
             parts[Grid[c][i]].kind = parts[Grid[c][j]].kind,
             parts[Grid[c][i]].kind \in {"wheelL", "wheelR"}
       PROVE parts[Grid[c][i]].n <= parts[Grid[c][j]].n
  <2>1. CASE c = 1
    <3>1. Grid[c] = L
      BY <1>1, <2>1
    <3>2. Grid[c] = ByIdx("wheelL") \o InSlot("trackL")
      BY <3>1 DEF L
    <3> QED
      BY <1>10, <3>2, SideSorted
  <2>2. CASE c = 3
    <3>1. Grid[c] = R
      BY <1>1, <2>2
    <3>2. Grid[c] = ByIdx("wheelR") \o InSlot("trackR")
      BY <3>1 DEF R
    <3> QED
      BY <1>10, <3>2, SideSorted
  <2> QED
    BY <2>1, <2>2
<1>11. Grid[1] \o Grid[2] \o Grid[3] \o Grid[4] = all
  BY <1>1 DEF all
<1> QED
  BY <1>9, <1>10, <1>11 DEF PartsShown

LEMMA VehicleTypes ==
  ASSUME VehicleInv
  PROVE  VehicleTypeOK
<1> SUFFICES ASSUME veh # None PROVE VehicleTypeOK
  BY DEF VehicleTypeOK
<1>1. turrets \in Seq(TurretRec)
  BY DEF VehicleInv
<1>2. \A r \in 1..Len(turrets) : turrets[r] \in TurretRec
  BY <1>1
<1>3. \A r \in 1..Len(turrets) : turrets[r].mags \in {None, 0, 2}
  BY <1>2 DEF TurretRec
<1> QED
  BY <1>3 DEF VehicleInv, VehicleTypeOK

(* Every gun, man and part of the selected vehicle is on its panel once,   *)
(* each where it belongs, for every class of the catalogue, every crew and *)
(* whatever was read of the turrets.                                       *)
THEOREM PanelAccounts == ScreenSpec => []VehicleAccounted
<1>1. ScreenInit => VehicleInv
  BY VehicleParts, VehicleStarts
<1>2. VehicleInv /\ [ScreenNext]_screenVars => VehicleInv'
  BY VehicleParts, VehicleKeeps
<1>3. VehicleInv => VehicleAccounted
  BY VehicleTypes, GunsOnce, GunsSeated, MenOnce, PartsHold DEF VehicleAccounted
<1> QED
  BY <1>1, <1>2, <1>3, PTL DEF ScreenSpec

-----------------------------------------------------------------------------
(* The rectangle the map is fitted to *)

\* A number given to each member of a finite set is least somewhere.
LEMMA FiniteLeast ==
  ASSUME NEW X, IsFiniteSet(X), X # {}, NEW f \in [X -> Int]
  PROVE  \E m \in X : \A k \in X : f[m] <= f[k]
<1> DEFINE Upto(y) == {x \in X : f[x] <= f[y]}
           F == {Upto(y) : y \in X}
<1>1. F \subseteq FiniteSubsetsOf(X)
  <2> SUFFICES ASSUME NEW y \in X PROVE Upto(y) \in SUBSET X /\ IsFiniteSet(Upto(y))
    BY DEF FiniteSubsetsOf
  <2> QED
    BY FS_Subset
<1>2. F # {}
  <2>1. PICK y \in X : TRUE
    OBVIOUS
  <2>2. Upto(y) \in F
    BY <2>1
  <2> QED
    BY <2>2
<1>3. IsWellFoundedOn(StrictSubsetOrdering(X), FiniteSubsetsOf(X))
  BY FS_StrictSubsetOrderingWellFounded
<1> HIDE DEF F
<1>4. PICK x \in F : \A y \in F : <<y, x>> \notin StrictSubsetOrdering(X)
  BY <1>1, <1>2, <1>3, WFMin
<1>5. PICK m \in X : x = Upto(m)
  BY DEF F
<1>6. ASSUME NEW k \in X PROVE f[m] <= f[k]
  <2> SUFFICES ASSUME f[k] < f[m] PROVE FALSE
    OBVIOUS
  <2>1. f[k] \in Int /\ f[m] \in Int /\ m \in Upto(m) /\ m \notin Upto(k)
    OBVIOUS
  <2>2. ASSUME NEW z \in Upto(k) PROVE z \in Upto(m)
    <3>1. z \in X /\ f[z] \in Int /\ f[z] <= f[k]
      OBVIOUS
    <3> QED
      BY <2>1, <3>1
  <2>3. Upto(k) \in SUBSET X /\ Upto(m) \in SUBSET X /\ Upto(k) \subseteq Upto(m)
    BY <2>2
  <2> HIDE DEF Upto
  <2>4. <<Upto(k), Upto(m)>> \in StrictSubsetOrdering(X)
    BY <2>1, <2>3 DEF StrictSubsetOrdering
  <2> QED
    BY <1>4, <1>5, <2>4 DEF F
<1> QED
  BY <1>6

\* The box of a crowd holds it.
LEMMA BoxIs ==
  ASSUME NEW C \in Crowds
  PROVE  Box(C) \in Rect /\ \A p \in C : Holds(Box(C), p)
<1> DEFINE X == {p[1] : p \in C}
           Y == {p[2] : p \in C}
<1>1. C # {} /\ IsFiniteSet(C) /\ C \subseteq Int \X Int /\ Pad \in Nat
  BY FitAssumption
<1>2. /\ [p \in C |-> p[1]] \in [C -> Int] /\ [p \in C |-> -p[1]] \in [C -> Int]
      /\ [p \in C |-> p[2]] \in [C -> Int] /\ [p \in C |-> -p[2]] \in [C -> Int]
  BY <1>1
<1>3. /\ \E m \in C : \A k \in C : m[1] <= k[1]
      /\ \E m \in C : \A k \in C : -m[1] <= -k[1]
      /\ \E m \in C : \A k \in C : m[2] <= k[2]
      /\ \E m \in C : \A k \in C : -m[2] <= -k[2]
  <2>1. \E m \in C : \A k \in C : [p \in C |-> p[1]][m] <= [p \in C |-> p[1]][k]
    BY <1>1, <1>2, FiniteLeast
  <2>2. \E m \in C : \A k \in C : [p \in C |-> -p[1]][m] <= [p \in C |-> -p[1]][k]
    BY <1>1, <1>2, FiniteLeast
  <2>3. \E m \in C : \A k \in C : [p \in C |-> p[2]][m] <= [p \in C |-> p[2]][k]
    BY <1>1, <1>2, FiniteLeast
  <2>4. \E m \in C : \A k \in C : [p \in C |-> -p[2]][m] <= [p \in C |-> -p[2]][k]
    BY <1>1, <1>2, FiniteLeast
  <2> QED
    BY <2>1, <2>2, <2>3, <2>4
<1>4. \A p \in C : p[1] \in Int /\ p[2] \in Int
  BY <1>1
<1>5. X \subseteq Int /\ Y \subseteq Int
  BY <1>4
<1>6. Least(X) \in X /\ \A x \in X : Least(X) <= x
  <2>1. \E m \in X : \A x \in X : m <= x
    BY <1>3
  <2> QED
    BY <2>1 DEF Least
<1>7. Least(Y) \in Y /\ \A x \in Y : Least(Y) <= x
  <2>1. \E m \in Y : \A x \in Y : m <= x
    BY <1>3
  <2> QED
    BY <2>1 DEF Least
<1>8. Most(X) \in X /\ \A x \in X : Most(X) >= x
  <2>1. PICK m \in C : \A k \in C : -m[1] <= -k[1]
    BY <1>3
  <2>2. \A k \in C : m[1] >= k[1]
    BY <1>4, <2>1
  <2>3. \E n \in X : \A x \in X : n >= x
    BY <2>2
  <2> QED
    BY <2>3 DEF Most
<1>9. Most(Y) \in Y /\ \A x \in Y : Most(Y) >= x
  <2>1. PICK m \in C : \A k \in C : -m[2] <= -k[2]
    BY <1>3
  <2>2. \A k \in C : m[2] >= k[2]
    BY <1>4, <2>1
  <2>3. \E n \in Y : \A x \in Y : n >= x
    BY <2>2
  <2> QED
    BY <2>3 DEF Most
<1>10. Box(C) = [minX |-> Least(X) - Pad, maxX |-> Most(X) + Pad,
                 minY |-> Least(Y) - Pad, maxY |-> Most(Y) + Pad]
  BY DEF Box
<1>11. Least(X) \in Int /\ Most(X) \in Int /\ Least(Y) \in Int /\ Most(Y) \in Int
  BY <1>5, <1>6, <1>7, <1>8, <1>9
<1>12. \A p \in C : p[1] \in X /\ p[2] \in Y
  OBVIOUS
<1> HIDE DEF X, Y
<1>13. Box(C) \in Rect
  <2>1. Least(X) - Pad \in Int /\ Most(X) + Pad \in Int /\ Least(Y) - Pad \in Int /\ Most(Y) + Pad \in Int
    BY <1>1, <1>11
  <2> QED
    BY <1>10, <2>1 DEF Rect
<1>14. ASSUME NEW p \in C PROVE Holds(Box(C), p)
  <2>1. p[1] \in Int /\ p[2] \in Int /\ p[1] \in X /\ p[2] \in Y
    BY <1>4, <1>12
  <2>2. Least(X) <= p[1] /\ Most(X) >= p[1] /\ Least(Y) <= p[2] /\ Most(Y) >= p[2]
    BY <1>6, <1>7, <1>8, <1>9, <2>1
  <2>3. p[1] \in Least(X) - Pad .. Most(X) + Pad /\ p[2] \in Least(Y) - Pad .. Most(Y) + Pad
    BY <1>1, <1>11, <2>1, <2>2
  <2> QED
    BY <1>10, <2>3 DEF Holds
<1> QED
  BY <1>13, <1>14

-----------------------------------------------------------------------------
\* Multiples, and what is left of them when they are divided.
Multiple(x, u) == \E k \in Nat \ {0} : x = k * u

LEMMA DividesExactly ==
  ASSUME NEW a \in Nat, NEW b \in Nat \ {0}
  PROVE  (a * b) \div b = a
OBVIOUS

LEMMA MultipleIs ==
  ASSUME NEW x \in Nat \ {0}, NEW u \in Nat \ {0}, x % u = 0
  PROVE  Multiple(x, u)
<1>1. x = (u * (x \div u)) + (x % u) /\ x \div u \in Int
  OBVIOUS
<1>2. x = (x \div u) * u
  BY <1>1
<1>3. x \div u \in Nat \ {0}
  BY <1>1, <1>2
<1> QED
  BY <1>2, <1>3 DEF Multiple

\* The recursive function of the units exists, up to every number of refits.
LEMMA UnitsExist ==
  ASSUME NEW n \in Nat
  PROVE  \E g : g = [i \in 0..n |-> IF i = 0 THEN 2 ELSE g[i - 1] * Grain]
<1> DEFINE Is(g, k) == g = [i \in 0..k |-> IF i = 0 THEN 2 ELSE g[i - 1] * Grain]
           T == {k \in Nat : ~\E g : Is(g, k)}
<1> SUFFICES ASSUME T # {} PROVE FALSE
  OBVIOUS
<1>1. PICK m \in T : \A k \in T : m <= k
  BY LeastNat
<1>2. m \in Nat /\ ~\E g : Is(g, m)
  OBVIOUS
<1>3. CASE m = 0
  <2> DEFINE e == [i \in 0..0 |-> 2]
  <2>1. Is(e, 0)
    OBVIOUS
  <2> QED
    BY <1>2, <1>3, <2>1
<1>4. CASE m # 0
  <2>1. m - 1 \in Nat
    BY <1>2, <1>4
  <2>2. m - 1 \notin T
    <3> SUFFICES ASSUME m - 1 \in T PROVE FALSE
      OBVIOUS
    <3>1. m <= m - 1
      BY <1>1
    <3> QED
      BY <1>2, <3>1
  <2>3. PICK h : Is(h, m - 1)
    BY <2>1, <2>2
  <2> DEFINE g == [i \in 0..m |-> IF i < m THEN h[i] ELSE h[m - 1] * Grain]
  <2>4. \A i \in 0..m : g[i] = IF i = 0 THEN 2 ELSE g[i - 1] * Grain
    <3> SUFFICES ASSUME NEW i \in 0..m
                 PROVE  g[i] = IF i = 0 THEN 2 ELSE g[i - 1] * Grain
      OBVIOUS
    <3>1. CASE i < m
      <4>1. i \in 0..m - 1 /\ g[i] = h[i]
        BY <1>2, <3>1
      <4>2. h[i] = IF i = 0 THEN 2 ELSE h[i - 1] * Grain
        BY <2>3, <4>1
      <4>3. i # 0 => g[i - 1] = h[i - 1]
        BY <1>2, <3>1
      <4> QED
        BY <4>1, <4>2, <4>3
    <3>2. CASE i = m
      <4>1. i # 0 /\ g[i - 1] = h[m - 1] /\ g[i] = h[m - 1] * Grain
        BY <1>2, <1>4, <3>2
      <4> QED
        BY <4>1
    <3> QED
      BY <1>2, <3>1, <3>2
  <2> HIDE DEF g
  <2>5. g = [i \in 0..m |-> g[i]]
    BY DEF g
  <2>6. Is(g, m)
    BY <2>4, <2>5
  <2> QED
    BY <1>2, <2>6
<1> QED
  BY <1>3, <1>4

\* Each unit is so many of the next, and even.
LEMMA UnitsAre ==
  /\ Unit[0] = 2
  /\ \A n \in 1..MaxResizes + 1 : Unit[n] = Unit[n - 1] * Grain
<1>1. MaxResizes + 1 \in Nat
  BY FitAssumption
<1> DEFINE N == MaxResizes + 1
<1>2. Unit = CHOOSE g : g = [i \in 0..N |-> IF i = 0 THEN 2 ELSE g[i - 1] * Grain]
  BY DEF Unit
<1> HIDE DEF N
<1>3. \E g : g = [i \in 0..N |-> IF i = 0 THEN 2 ELSE g[i - 1] * Grain]
  BY <1>1, UnitsExist DEF N
<1>4. Unit = [i \in 0..N |-> IF i = 0 THEN 2 ELSE Unit[i - 1] * Grain]
  BY <1>2, <1>3, Zenon
<1> QED
  BY <1>1, <1>4 DEF N

LEMMA UnitsEven ==
  \A n \in 0..MaxResizes + 1 : \E k \in Nat \ {0} : Unit[n] = 2 * k
<1> DEFINE T == {n \in Nat : n <= MaxResizes + 1 /\ ~\E k \in Nat \ {0} : Unit[n] = 2 * k}
<1>1. MaxResizes \in Nat /\ Grain \in Nat \ {0}
  BY FitAssumption
<1> SUFFICES ASSUME T # {} PROVE FALSE
  BY <1>1
<1>2. PICK m \in T : \A k \in T : m <= k
  BY LeastNat
<1>3. m # 0
  BY UnitsAre
<1>4. m - 1 \in Nat /\ m \in 1..MaxResizes + 1
  BY <1>1, <1>3
<1>5. m - 1 \notin T
  BY <1>2, <1>4
<1>6. PICK k \in Nat \ {0} : Unit[m - 1] = 2 * k
  BY <1>1, <1>4, <1>5
<1>7. Unit[m] = 2 * (k * Grain) /\ k * Grain \in Nat \ {0}
  BY <1>1, <1>4, <1>6, UnitsAre
<1> QED
  BY <1>7

\* One side is refitted: it grows, by an even number, to what the other one
\* and the canvas ask for.
LEMMA SideGrows ==
  ASSUME NEW u \in Nat \ {0}, NEW g \in Nat \ {0}, NEW j \in Nat \ {0}, u = 2 * j,
         NEW w, NEW h, Multiple(w, u * g), Multiple(h, u * g),
         NEW a \in Nat \ {0}, NEW b \in Nat \ {0}, g % b = 0, w * b <= h * a
  PROVE  LET x == ((h * a) \div b - w) \div 2
         IN  x \in Nat /\ (w + 2 * x) * b = h * a /\ Multiple(w + 2 * x, u)
<1>1. PICK m \in Nat \ {0} : w = m * (u * g)
  BY DEF Multiple
<1>2. PICK n \in Nat \ {0} : h = n * (u * g)
  BY DEF Multiple
<1>a. Multiple(g, b)
  BY MultipleIs
<1>3. PICK c \in Nat \ {0} : g = c * b
  BY <1>a DEF Multiple
<1> DEFINE q == n * c * a
<1>4. q \in Nat \ {0} /\ m * g \in Nat \ {0} /\ m * c \in Nat \ {0}
  BY <1>3
<1>5. h * a = (q * u) * b
  BY <1>2, <1>3
<1>6. (h * a) \div b = q * u
  <2>1. q * u \in Nat
    BY <1>4
  <2> QED
    BY <1>5, <2>1, DividesExactly
<1>7. w = (m * g) * u
  BY <1>1
<1> DEFINE d == q - m * g
<1> HIDE DEF q
<1>8. (h * a) \div b - w = d * u /\ d \in Int
  BY <1>4, <1>6, <1>7
<1>9. d >= 0
  <2>1. w \in Nat /\ h \in Nat /\ w * b <= (q * u) * b
    BY <1>1, <1>2, <1>5
  <2>2. w <= q * u
    BY <1>4, <2>1
  <2>3. (m * g) * u <= q * u
    BY <1>7, <2>2
  <2> QED
    BY <1>4, <2>3
<1>10. d * u = (d * j) * 2 /\ d * j \in Nat
  BY <1>8, <1>9
<1>11. ((h * a) \div b - w) \div 2 = d * j
  BY <1>8, <1>10, DividesExactly
<1>12. w + 2 * (d * j) = q * u
  BY <1>4, <1>7, <1>8, <1>10
<1>13. Multiple(q * u, u)
  BY <1>4 DEF Multiple
<1> QED
  BY <1>5, <1>10, <1>11, <1>12, <1>13

\* The sides of a rectangle, and one within another.
Sides(r, u) == Multiple(r.maxX - r.minX, u) /\ Multiple(r.maxY - r.minY, u)
Within(r, q) == q.minX <= r.minX /\ r.maxX <= q.maxX /\ q.minY <= r.minY /\ r.maxY <= q.maxY

LEMMA SidesAre ==
  ASSUME NEW r \in Rect, NEW u \in Nat \ {0}, Sides(r, u)
  PROVE  /\ Wide(r) = r.maxX - r.minX /\ High(r) = r.maxY - r.minY
         /\ Wide(r) \in Nat \ {0} /\ High(r) \in Nat \ {0}
<1>1. PICK m \in Nat \ {0} : r.maxX - r.minX = m * u
  BY DEF Sides, Multiple
<1>2. PICK n \in Nat \ {0} : r.maxY - r.minY = n * u
  BY DEF Sides, Multiple
<1>3. m * u \in Nat \ {0} /\ n * u \in Nat \ {0}
  OBVIOUS
<1>4. r.maxX - r.minX >= 1 /\ r.maxY - r.minY >= 1
  BY <1>1, <1>2, <1>3
<1>5. r.maxX - r.minX \in Int /\ r.maxY - r.minY \in Int
  BY DEF Rect
<1> QED
  BY <1>4, <1>5 DEF Wide, High, MaxOf

LEMMA RefitIs ==
  ASSUME NEW r \in Rect, NEW c \in Canvases, NEW n \in 0..MaxResizes, Sides(r, Unit[n + 1])
  PROVE  LET q == RefitAspect(r, c)
         IN  /\ q \in Rect /\ Sides(q, Unit[n]) /\ Within(r, q)
             /\ Wide(q) * c[2] = High(q) * c[1]
<1> DEFINE u == Unit[n]
           w == r.maxX - r.minX
           h == r.maxY - r.minY
           q == RefitAspect(r, c)
<1>1. /\ MaxResizes \in Nat /\ Grain \in Nat \ {0} /\ c[1] \in Nat \ {0} /\ c[2] \in Nat \ {0}
      /\ Grain % c[1] = 0 /\ Grain % c[2] = 0
  BY FitAssumption
<1>2. PICK j \in Nat \ {0} : u = 2 * j
  BY <1>1, UnitsEven
<1>3. u \in Nat \ {0} /\ u * Grain \in Nat \ {0} /\ Unit[n + 1] = u * Grain
  <2>1. n + 1 \in 1..MaxResizes + 1 /\ (n + 1) - 1 = n
    BY <1>1
  <2>2. Unit[n + 1] = Unit[n] * Grain
    BY <2>1, UnitsAre
  <2>3. u \in Nat \ {0}
    BY <1>2
  <2> QED
    BY <1>1, <2>2, <2>3
<1>4. Multiple(w, u * Grain) /\ Multiple(h, u * Grain)
  BY <1>3 DEF Sides
<1>5. Wide(r) = w /\ High(r) = h /\ w \in Nat \ {0} /\ h \in Nat \ {0}
  BY <1>3, SidesAre
<1>6. /\ r = [minX |-> r.minX, maxX |-> r.maxX, minY |-> r.minY, maxY |-> r.maxY]
      /\ r.minX \in Int /\ r.maxX \in Int /\ r.minY \in Int /\ r.maxY \in Int
  BY DEF Rect
<1> HIDE DEF u
<1>7. ASSUME NEW x \in Nat, NEW k \in {w, h}, Multiple(k, u * Grain) PROVE Multiple(k, u)
  <2>1. PICK m \in Nat \ {0} : k = m * (u * Grain)
    BY <1>7 DEF Multiple
  <2>2. k = (m * Grain) * u /\ m * Grain \in Nat \ {0}
    BY <1>1, <1>3, <2>1
  <2> QED
    BY <2>2 DEF Multiple
<1>8. CASE w * c[2] < h * c[1]
  <2> DEFINE x == ((h * c[1]) \div c[2] - w) \div 2
  <2>1. w * c[2] <= h * c[1]
    BY <1>1, <1>5, <1>8
  <2>2. x \in Nat /\ (w + 2 * x) * c[2] = h * c[1] /\ Multiple(w + 2 * x, u)
    BY <1>1, <1>2, <1>3, <1>4, <2>1, SideGrows
  <2>3. q = Widen(r, x)
    BY <1>5, <1>8 DEF RefitAspect
  <2> HIDE DEF x, q
  <2>4. q = [minX |-> r.minX - x, maxX |-> r.maxX + x, minY |-> r.minY, maxY |-> r.maxY]
    BY <2>3 DEF Widen
  <2>5. q \in Rect /\ Within(r, q) /\ q.maxX - q.minX = w + 2 * x /\ q.maxY - q.minY = h
    BY <1>6, <2>2, <2>4 DEF Rect, Within
  <2>6. Multiple(h, u)
    BY <1>4, <1>7
  <2>7. Sides(q, u)
    BY <2>2, <2>5, <2>6 DEF Sides
  <2>8. Wide(q) = w + 2 * x /\ High(q) = h
    BY <1>3, <2>5, <2>7, SidesAre
  <2> QED
    BY <2>2, <2>5, <2>7, <2>8 DEF q, u
<1>9. CASE ~(w * c[2] < h * c[1])
  <2> DEFINE x == ((w * c[2]) \div c[1] - h) \div 2
  <2>1. h * c[1] <= w * c[2]
    <3>1. h * c[1] \in Int /\ w * c[2] \in Int
      BY <1>1, <1>5
    <3> QED
      BY <1>9, <3>1
  <2>2. x \in Nat /\ (h + 2 * x) * c[1] = w * c[2] /\ Multiple(h + 2 * x, u)
    BY SMTT(30), <1>1, <1>2, <1>3, <1>4, <2>1, SideGrows
  <2>3. q = Heighten(r, x)
    BY <1>5, <1>9 DEF RefitAspect
  <2> HIDE DEF x, q
  <2>4. q = [minX |-> r.minX, maxX |-> r.maxX, minY |-> r.minY - x, maxY |-> r.maxY + x]
    BY <2>3 DEF Heighten
  <2>5. q \in Rect /\ Within(r, q) /\ q.maxX - q.minX = w /\ q.maxY - q.minY = h + 2 * x
    BY <1>6, <2>2, <2>4 DEF Rect, Within
  <2>6. Multiple(w, u)
    BY <1>4, <1>7
  <2>7. Sides(q, u)
    BY <2>2, <2>5, <2>6 DEF Sides
  <2>8. Wide(q) = w /\ High(q) = h + 2 * x
    BY <1>3, <2>5, <2>7, SidesAre
  <2> QED
    BY <2>2, <2>5, <2>7, <2>8 DEF q, u
<1> QED
  BY <1>8, <1>9

\* The rectangle holds all there was to hold.
HoldsAll(r) ==
  IF layerRect = None THEN \A p \in crowd : Holds(r, p)
  ELSE Holds(r, <<layerRect.minX, layerRect.minY>>) /\ Holds(r, <<layerRect.maxX, layerRect.maxY>>)

LEMMA HeldWithin ==
  ASSUME NEW r \in Rect, NEW q \in Rect, Within(r, q), NEW p, Holds(r, p)
  PROVE  Holds(q, p)
BY DEF Rect, Within, Holds

LEMMA HoldsAllWithin ==
  ASSUME NEW r \in Rect, NEW q \in Rect, Within(r, q), HoldsAll(r)
  PROVE  HoldsAll(q)
<1>1. CASE layerRect = None
  <2>1. ASSUME NEW p \in crowd PROVE Holds(q, p)
    <3>1. Holds(r, p)
      BY <1>1 DEF HoldsAll
    <3> QED
      BY <3>1, HeldWithin
  <2> QED
    BY <1>1, <2>1 DEF HoldsAll
<1>2. CASE layerRect # None
  <2>1. Holds(r, <<layerRect.minX, layerRect.minY>>) /\ Holds(r, <<layerRect.maxX, layerRect.maxY>>)
    BY <1>2 DEF HoldsAll
  <2>2. Holds(q, <<layerRect.minX, layerRect.minY>>) /\ Holds(q, <<layerRect.maxX, layerRect.maxY>>)
    BY <2>1, HeldWithin
  <2> QED
    BY <1>2, <2>2 DEF HoldsAll
<1> QED
  BY <1>1, <1>2

FitInv ==
  rect # None =>
    /\ canvas \in Canvases /\ resizes \in 0..MaxResizes /\ rect \in Rect
    /\ Sides(rect, Unit[MaxResizes - resizes])
    /\ Wide(rect) * canvas[2] = High(rect) * canvas[1]
    /\ HoldsAll(rect)

LEMMA FitStarts == FitInit => FitInv
<1> SUFFICES ASSUME FitInit PROVE FitInv
  OBVIOUS
<1> DEFINE r == ToFit(crowd, layerRect)
<1>1. MaxResizes \in Nat /\ crowd \in Crowds /\ layerRect \in LayerRects /\ canvas \in Canvases /\ resizes = 0
  BY FitAssumption DEF FitInit
<1>2. r \in Rect
  BY <1>1, BoxIs, FitAssumption DEF ToFit
<1>3. HoldsAll(r)
  <2>1. CASE layerRect = None
    BY <1>1, <2>1, BoxIs DEF HoldsAll, ToFit
  <2>2. CASE layerRect # None
    <3>1. r = layerRect /\ r.minX \in Int /\ r.maxX \in Int /\ r.minY \in Int /\ r.maxY \in Int
      BY <1>2, <2>2 DEF ToFit, Rect
    <3>2. r.maxX - r.minX > 0 /\ r.maxY - r.minY > 0
      BY <1>1, FitAssumption
    <3> QED
      BY <2>2, <3>1, <3>2 DEF HoldsAll, Holds
  <2> QED
    BY <2>1, <2>2
<1>4. Sides(r, Unit[MaxResizes + 1])
  <2>1. PICK k \in Nat \ {0} : Unit[MaxResizes + 1] = 2 * k
    BY <1>1, UnitsEven
  <2>2. /\ r.maxX - r.minX > 0 /\ (r.maxX - r.minX) % Unit[MaxResizes + 1] = 0
        /\ r.maxY - r.minY > 0 /\ (r.maxY - r.minY) % Unit[MaxResizes + 1] = 0
    BY <1>1, FitAssumption
  <2>3. r.maxX - r.minX \in Nat \ {0} /\ r.maxY - r.minY \in Nat \ {0} /\ Unit[MaxResizes + 1] \in Nat \ {0}
    BY <1>2, <2>1, <2>2 DEF Rect
  <2> QED
    BY <2>2, <2>3, MultipleIs DEF Sides
<1> HIDE DEF r
<1>5. rect = RefitAspect(r, canvas)
  BY DEF FitInit, AutoFit, r
<1>6. rect \in Rect /\ Sides(rect, Unit[MaxResizes]) /\ Within(r, rect) /\ Wide(rect) * canvas[2] = High(rect) * canvas[1]
  <2>1. MaxResizes \in 0..MaxResizes
    BY <1>1
  <2> QED
    BY <1>1, <1>2, <1>4, <1>5, <2>1, RefitIs
<1>7. HoldsAll(rect)
  BY <1>2, <1>3, <1>6, HoldsAllWithin
<1>8. MaxResizes - resizes = MaxResizes /\ resizes \in 0..MaxResizes
  BY <1>1
<1> QED
  BY <1>1, <1>6, <1>7, <1>8 DEF FitInv

LEMMA FitKeeps == FitInv /\ [FitNext]_fitVars => FitInv'
<1> SUFFICES ASSUME FitInv, [FitNext]_fitVars PROVE FitInv'
  OBVIOUS
<1>1. CASE UNCHANGED fitVars
  BY <1>1 DEF FitInv, fitVars, HoldsAll
<1>2. CASE FitNext
  <2>1. PICK c \in Canvases : rect # None /\ Resize(c)
    BY <1>2 DEF FitNext
  <2>2. /\ canvas' = c /\ resizes' = resizes + 1 /\ rect' = RefitAspect(rect, c) /\ resizes < MaxResizes
        /\ UNCHANGED <<crowd, layerRect>>
    BY <2>1 DEF Resize
  <2>3. /\ MaxResizes \in Nat /\ resizes \in 0..MaxResizes /\ rect \in Rect
        /\ Sides(rect, Unit[MaxResizes - resizes]) /\ HoldsAll(rect)
    BY <2>1, FitAssumption DEF FitInv
  <2> DEFINE n == MaxResizes - (resizes + 1)
  <2>4. n \in 0..MaxResizes /\ n + 1 = MaxResizes - resizes /\ resizes' \in 0..MaxResizes /\ n = MaxResizes - resizes'
    BY <2>2, <2>3
  <2> HIDE DEF n
  <2>5. rect' \in Rect /\ Sides(rect', Unit[n]) /\ Within(rect, rect') /\ Wide(rect') * c[2] = High(rect') * c[1]
    BY <2>2, <2>3, <2>4, RefitIs
  <2>6. HoldsAll(rect')
    BY <2>3, <2>5, HoldsAllWithin
  <2>7. HoldsAll(rect)'
    BY <2>2, <2>6 DEF HoldsAll
  <2> QED
    BY <2>2, <2>4, <2>5, <2>7 DEF FitInv
<1> QED
  BY <1>1, <1>2

LEMMA FitParts ==
  /\ ScreenInit => FitInit \/ FitOff
  /\ [ScreenNext]_screenVars => [FitNext]_fitVars
<1>1. ASSUME UNCHANGED screenVars PROVE [FitNext]_fitVars
  BY <1>1 DEF screenVars
<1>2. ASSUME ScreenNext PROVE [FitNext]_fitVars
  BY <1>2 DEF ScreenNext
<1>3. ScreenInit => FitInit \/ FitOff
  BY DEF ScreenInit
<1> QED
  BY <1>1, <1>2, <1>3

(* However often the window is resized, the rectangle on the canvas has    *)
(* the shape of the canvas and holds all it was first fitted to.           *)
THEOREM FitKeepsAll == ScreenSpec => []FitHoldsAll
<1>1. ScreenInit => FitInv
  <2>1. FitOff => FitInv
    BY DEF FitOff, FitInv
  <2> QED
    BY <2>1, FitParts, FitStarts
<1>2. FitInv /\ [ScreenNext]_screenVars => FitInv'
  BY FitParts, FitKeeps
<1>3. FitInv => FitHoldsAll
  BY DEF FitInv, FitHoldsAll, HoldsAll
<1> QED
  BY <1>1, <1>2, <1>3, PTL DEF ScreenSpec

-----------------------------------------------------------------------------
(* The marks of a paint *)

\* All marks of s are of these layers and parts, and stand for one of O.
Paints(s, K, O) ==
  IsList(s) /\ \A k \in 1..Len(s) : <<s[k].layer, s[k].part>> \in K /\ s[k].of \in O
\* One of its marks stands for e.
Bears(s, e) == \E k \in 1..Len(s) : s[k].of = e

LEMMA ListIs ==
  ASSUME NEW s
  PROVE  /\ \A X : s \in Seq(X) => IsList(s)
         /\ IsList(s) => Len(s) \in Nat /\ DOMAIN s = 1..Len(s) /\ s = [i \in 1..Len(s) |-> s[i]]
<1>1. ASSUME NEW X, s \in Seq(X) PROVE IsList(s)
  <2>1. s = [i \in 1..Len(s) |-> s[i]] /\ Len(s) \in Nat
    BY <1>1
  <2>2. [i \in 1..Len(s) |-> s[i]] \in Seq({s[i] : i \in 1..Len(s)})
    BY <2>1
  <2> QED
    BY <2>1, <2>2 DEF IsList
<1>2. ASSUME IsList(s)
      PROVE  Len(s) \in Nat /\ DOMAIN s = 1..Len(s) /\ s = [i \in 1..Len(s) |-> s[i]]
  BY <1>2 DEF IsList
<1> QED
  BY <1>1, <1>2

\* Two lists one after the other.
LEMMA ListsJoin ==
  ASSUME NEW s, NEW t, IsList(s), IsList(t)
  PROVE  /\ IsList(s \o t) /\ Len(s) \in Nat /\ Len(t) \in Nat /\ Len(s \o t) = Len(s) + Len(t)
         /\ \A k \in 1..Len(s) : k \in 1..Len(s \o t) /\ (s \o t)[k] = s[k]
         /\ \A k \in 1..Len(t) : Len(s) + k \in 1..Len(s \o t) /\ (s \o t)[Len(s) + k] = t[k]
         /\ \A k \in 1..Len(s \o t) : k > Len(s) => k - Len(s) \in 1..Len(t) /\ (s \o t)[k] = t[k - Len(s)]
<1> DEFINE A == {s[i] : i \in 1..Len(s)}
           B == {t[i] : i \in 1..Len(t)}
           X == A \cup B
           r == s \o t
           p == Len(s)
           q == Len(t)
<1>1. s \in Seq(A) /\ t \in Seq(B)
  BY DEF IsList
<1> HIDE DEF A, B
<1>2. s \in Seq(X) /\ t \in Seq(X)
  <2>1. \A i \in 1..Len(s) : s[i] \in X
    BY <1>1
  <2>2. \A i \in 1..Len(t) : t[i] \in X
    BY <1>1
  <2>3. s = [i \in 1..Len(s) |-> s[i]] /\ t = [i \in 1..Len(t) |-> t[i]] /\ Len(s) \in Nat /\ Len(t) \in Nat
    BY <1>1
  <2> HIDE DEF X
  <2>4. [i \in 1..Len(s) |-> s[i]] \in Seq(X) /\ [i \in 1..Len(t) |-> t[i]] \in Seq(X)
    BY <2>1, <2>2, <2>3
  <2> QED
    BY <2>3, <2>4
<1> HIDE DEF X
<1>3. r \in Seq(X) /\ p \in Nat /\ q \in Nat /\ Len(r) = p + q
  BY <1>2
<1>4. IsList(r)
  BY <1>3, ListIs
<1>5. \A k \in 1..p + q : r[k] = IF k <= p THEN s[k] ELSE t[k - p]
  BY <1>2
<1> HIDE DEF r, p, q
<1>6. ASSUME NEW k \in 1..p PROVE k \in 1..Len(r) /\ r[k] = s[k]
  BY <1>3, <1>5
<1>7. ASSUME NEW k \in 1..q PROVE p + k \in 1..Len(r) /\ r[p + k] = t[k]
  <2>1. p + k \in 1..p + q /\ ~(p + k <= p) /\ (p + k) - p = k
    BY <1>3
  <2> QED
    BY <1>3, <1>5, <2>1
<1>8. ASSUME NEW k \in 1..Len(r), k > p PROVE k - p \in 1..q /\ r[k] = t[k - p]
  <2>1. k - p \in 1..q /\ k \in 1..p + q /\ ~(k <= p)
    BY <1>3, <1>8
  <2> QED
    BY <1>5, <2>1
<1> QED
  BY <1>3, <1>4, <1>6, <1>7, <1>8 DEF r, p, q

LEMMA FunctionIsList ==
  ASSUME NEW Y, NEW n \in Nat, NEW ss, ss = [i \in 1..n |-> ss[i]], \A i \in 1..n : ss[i] \in Y
  PROVE  ss \in Seq(Y) /\ Len(ss) = n
OBVIOUS

\* A sequence of lists is one of sequences over a set.
LEMMA ListsAre ==
  ASSUME NEW n \in Nat, NEW ss, ss = [i \in 1..n |-> ss[i]], \A i \in 1..n : IsList(ss[i])
  PROVE  \E X : ss \in Seq(Seq(X)) /\ Len(ss) = n
<1> DEFINE X == UNION {{ss[i][k] : k \in 1..Len(ss[i])} : i \in 1..n}
<1>1. ASSUME NEW i \in 1..n PROVE ss[i] \in Seq(X)
  <2>1. ss[i] \in Seq({ss[i][k] : k \in 1..Len(ss[i])})
    BY DEF IsList
  <2>2. {ss[i][k] : k \in 1..Len(ss[i])} \subseteq X
    OBVIOUS
  <2> DEFINE t == ss[i]
  <2> HIDE DEF X, t
  <2>3. t = [k \in 1..Len(t) |-> t[k]] /\ Len(t) \in Nat /\ \A k \in 1..Len(t) : t[k] \in X
    BY <2>1, <2>2 DEF t
  <2> QED
    BY <2>3 DEF t
<1> HIDE DEF X
<1>2. ss \in Seq(Seq(X)) /\ Len(ss) = n
  BY <1>1, FunctionIsList
<1> QED
  BY <1>2

LEMMA PaintsOne ==
  ASSUME NEW K, NEW O, NEW layer, NEW part, NEW of \in O, NEW look, <<layer, part>> \in K
  PROVE  Paints(Mark(layer, part, of, look), K, O) /\ Bears(Mark(layer, part, of, look), of)
<1> DEFINE m == [layer |-> layer, part |-> part, of |-> of, look |-> look]
<1>1. <<m>> \in Seq({m}) /\ Len(<<m>>) = 1 /\ <<m>>[1] = m
  OBVIOUS
<1>2. IsList(<<m>>)
  BY <1>1, ListIs
<1>3. m.layer = layer /\ m.part = part /\ m.of = of
  OBVIOUS
<1>4. Mark(layer, part, of, look) = <<m>>
  BY DEF Mark
<1> HIDE DEF m
<1>5. \A k \in 1..1 : k = 1
  OBVIOUS
<1> QED
  BY <1>1, <1>2, <1>3, <1>4, <1>5 DEF Paints, Bears

LEMMA PaintsNone ==
  ASSUME NEW K, NEW O
  PROVE  Paints(<< >>, K, O)
<1>1. << >> \in Seq({}) /\ 1..Len(<< >>) = {}
  OBVIOUS
<1>2. IsList(<< >>)
  BY <1>1, ListIs
<1> QED
  BY <1>1, <1>2 DEF Paints

LEMMA PaintsOnly ==
  ASSUME NEW K, NEW O, NEW c, NEW m, c => Paints(m, K, O)
  PROVE  Paints(Only(c, m), K, O)
BY PaintsNone DEF Only

LEMMA PaintsMore ==
  ASSUME NEW K, NEW O, NEW L, NEW Q, K \subseteq L, O \subseteq Q, NEW s, Paints(s, K, O)
  PROVE  Paints(s, L, Q)
BY DEF Paints

LEMMA PaintsJoin ==
  ASSUME NEW K, NEW O, NEW s, NEW t, Paints(s, K, O), Paints(t, K, O)
  PROVE  /\ Paints(s \o t, K, O)
         /\ \A e : Bears(s, e) \/ Bears(t, e) => Bears(s \o t, e)
<1>1. IsList(s) /\ IsList(t)
  BY DEF Paints
<1>2. /\ IsList(s \o t) /\ Len(s) \in Nat /\ Len(t) \in Nat /\ Len(s \o t) = Len(s) + Len(t)
      /\ \A k \in 1..Len(s) : k \in 1..Len(s \o t) /\ (s \o t)[k] = s[k]
      /\ \A k \in 1..Len(t) : Len(s) + k \in 1..Len(s \o t) /\ (s \o t)[Len(s) + k] = t[k]
      /\ \A k \in 1..Len(s \o t) : k > Len(s) => k - Len(s) \in 1..Len(t) /\ (s \o t)[k] = t[k - Len(s)]
  BY <1>1, ListsJoin
<1> DEFINE r == s \o t
<1> HIDE DEF r
<1>3. ASSUME NEW k \in 1..Len(r) PROVE <<r[k].layer, r[k].part>> \in K /\ r[k].of \in O
  <2>1. CASE k > Len(s)
    BY <1>2, <2>1 DEF r, Paints
  <2>2. CASE ~(k > Len(s))
    <3>1. k \in 1..Len(s)
      BY <1>2, <2>2 DEF r
    <3> QED
      BY <1>2, <3>1 DEF r, Paints
  <2> QED
    BY <2>1, <2>2
<1>4. Paints(r, K, O)
  BY <1>2, <1>3 DEF r, Paints
<1>5. ASSUME NEW e, Bears(s, e) \/ Bears(t, e) PROVE Bears(r, e)
  BY ZenonT(40), <1>2, <1>5 DEF r, Bears
<1> QED
  BY <1>4, <1>5 DEF r

\* The marks of each element of a sequence, one after the other.
LEMMA PaintsAll ==
  ASSUME NEW K, NEW O, NEW n \in Nat, NEW ss, ss = [i \in 1..n |-> ss[i]],
         \A i \in 1..n : Paints(ss[i], K, O)
  PROVE  /\ Paints(FlattenSeq(ss), K, O)
         /\ \A i \in 1..n : \A e : Bears(ss[i], e) => Bears(FlattenSeq(ss), e)
<1> DEFINE r == FlattenSeq(ss)
<1>1. \A i \in 1..n : IsList(ss[i])
  BY DEF Paints
<1>2. PICK X : ss \in Seq(Seq(X)) /\ Len(ss) = n
  BY <1>1, ListsAre
<1>3. r \in Seq(X)
  BY <1>2, FlattenType
<1>4. /\ \A k \in 1..Len(r) : \E i \in 1..Len(ss) : \E j \in 1..Len(ss[i]) : r[k] = ss[i][j]
      /\ \A i \in 1..Len(ss) : \A j \in 1..Len(ss[i]) : \E k \in 1..Len(r) : r[k] = ss[i][j]
  BY <1>2, FlattenHolds
<1> HIDE DEF r
<1>5. Paints(r, K, O)
  <2>1. IsList(r)
    BY <1>3, ListIs
  <2>2. ASSUME NEW k \in 1..Len(r) PROVE <<r[k].layer, r[k].part>> \in K /\ r[k].of \in O
    <3>1. PICK i \in 1..Len(ss) : \E j \in 1..Len(ss[i]) : r[k] = ss[i][j]
      BY <1>4
    <3>2. i \in 1..n
      BY <1>2
    <3> QED
      BY <3>1, <3>2 DEF Paints
  <2> QED
    BY <2>1, <2>2 DEF Paints
<1>6. ASSUME NEW i \in 1..n, NEW e, Bears(ss[i], e) PROVE Bears(r, e)
  <2>1. PICK j \in 1..Len(ss[i]) : ss[i][j].of = e
    BY <1>6 DEF Bears
  <2>2. i \in 1..Len(ss)
    BY <1>2
  <2>3. \E k \in 1..Len(r) : r[k] = ss[i][j]
    BY <1>4, <2>2
  <2> QED
    BY <2>1, <2>3 DEF Bears
<1> QED
  BY <1>5, <1>6 DEF r

\* What a mark may stand for: a thing or man that can be clicked, or nothing.
Named == Hittable \cup {None}

DeployableKinds == {<<"deployables", "badge">>, <<"deployables", "chip">>, <<"deployables", "stock">>}
VehicleKinds == {<<"vehicles", "badge">>, <<"vehicles", "ring">>, <<"vehicles", "triangle">>}
MarkerKinds ==
  {<<"markers", "label">>, <<"markers", "arrow">>, <<"markers", "pickets">>, <<"markers", "badge">>,
   <<"markers", "chip">>}
RallyKinds == {<<"rallies", "badge">>, <<"rallies", "ring">>, <<"rallies", "squad">>, <<"rallies", "spawns">>}
PlayerKinds ==
  {<<"players", "badge">>, <<"players", "needle">>, <<"players", "cross">>, <<"players", "ring">>}
RulerKinds == {<<"ruler", "path">>, <<"ruler", "reading">>}

LEMMA SceneIs ==
  ASSUME scene \in 1..Len(Scenes)
  PROVE  /\ Len(S.players) \in Nat /\ Len(S.vehicles) \in Nat /\ Len(S.deployables) \in Nat
         /\ Len(S.markers) \in Nat /\ Len(S.rallies) \in Nat /\ Len(S.spawners) \in Nat
         /\ \A i \in 1..Len(S.players) : S.players[i].key # None
         /\ \A kind \in {"vehicles", "deployables", "markers", "rallies", "spawners"} :
              \A i \in 1..Len(S.players), j \in 1..Len(S[kind]) : S.players[i].key # S[kind][j].id
<1>1. /\ IsList(Scenes[scene].players)
      /\ \A i \in 1..Len(Scenes[scene].players) : Scenes[scene].players[i].key # None
      /\ \A kind \in {"vehicles", "deployables", "markers", "rallies", "spawners"} :
            /\ IsList(Scenes[scene][kind])
            /\ \A i \in 1..Len(Scenes[scene].players), j \in 1..Len(Scenes[scene][kind]) :
                 Scenes[scene].players[i].key # Scenes[scene][kind][j].id
  BY PaintAssumption
<1>2. /\ IsList(S.vehicles) /\ IsList(S.deployables) /\ IsList(S.markers) /\ IsList(S.rallies)
      /\ IsList(S.spawners) /\ IsList(S.players)
  <2>1. /\ IsList(Scenes[scene]["vehicles"]) /\ IsList(Scenes[scene]["deployables"])
        /\ IsList(Scenes[scene]["markers"]) /\ IsList(Scenes[scene]["rallies"])
        /\ IsList(Scenes[scene]["spawners"])
    BY <1>1
  <2> QED
    BY <1>1, <2>1 DEF S
<1>3. /\ Len(S.players) \in Nat /\ Len(S.vehicles) \in Nat /\ Len(S.deployables) \in Nat
      /\ Len(S.markers) \in Nat /\ Len(S.rallies) \in Nat /\ Len(S.spawners) \in Nat
  BY <1>2, ListIs
<1>4. scene \in 1..Len(Scenes) /\ S = Scenes[scene]
  BY DEF S
<1> QED
  BY <1>1, <1>3, <1>4

\* A placed thing and a man on foot can be clicked.
LEMMA PlacedNamed ==
  ASSUME NEW s \in {S.markers, S.vehicles, S.deployables, S.spawners, S.rallies},
         NEW i \in 1..Len(s), s[i].placed
  PROVE  s[i].id \in Named
<1>1. s[i].id \in IdsOf(s)
  BY DEF IdsOf
<1>2. IdsOf(s) \subseteq Things
  BY DEF Things
<1> QED
  BY <1>1, <1>2 DEF Hittable, Named

LEMMA OnFootNamed ==
  ASSUME NEW i \in 1..Len(S.players), OnFoot(S.players[i])
  PROVE  S.players[i].key \in Named
BY DEF OnFoot, IsAdminCam, Hittable, Named

LEMMA FobRadiiPaint ==
  ASSUME scene \in 1..Len(Scenes)
  PROVE  Paints(FobRadii, {<<"deployables", "radius">>}, Named)
<1> DEFINE K == {<<"deployables", "radius">>}
           s == S.deployables
           R(d, r) == Mark("deployables", "radius", d.id, <<r, TeamColor(d.team)>>)
           ss == [i \in 1..Len(s) |-> Only(s[i].placed, Only(s[i].isFob, R(s[i], 150) \o R(s[i], 400)))]
<1>a. <<"deployables", "radius">> \in K
  BY DEF K
<1> HIDE DEF K
<1>1. ASSUME NEW i \in 1..Len(s) PROVE Paints(ss[i], K, Named)
  <2>1. ASSUME s[i].placed PROVE Paints(R(s[i], 150) \o R(s[i], 400), K, Named)
    <3>1. s[i].id \in Named
      BY <2>1, PlacedNamed
    <3>2. Paints(R(s[i], 150), K, Named) /\ Paints(R(s[i], 400), K, Named)
      BY <1>a, <3>1, PaintsOne
    <3> QED
      BY <3>2, PaintsJoin
  <2>2. s[i].placed => Paints(Only(s[i].isFob, R(s[i], 150) \o R(s[i], 400)), K, Named)
    BY <2>1, PaintsOnly
  <2>3. Paints(Only(s[i].placed, Only(s[i].isFob, R(s[i], 150) \o R(s[i], 400))), K, Named)
    BY <2>2, PaintsOnly
  <2> QED
    BY <2>3
<1>2. FobRadii = FlattenSeq(ss)
  BY DEF FobRadii, Placed
<1>3. Len(s) \in Nat /\ ss = [i \in 1..Len(s) |-> ss[i]]
  BY SceneIs
<1> HIDE DEF ss, s, K
<1> QED
  BY <1>1, <1>2, <1>3, PaintsAll DEF K

LEMMA OrdersPaint ==
  ASSUME scene \in 1..Len(Scenes)
  PROVE  Paints(ActionMarkerLines, {<<"markers", "order">>}, Named)
<1> DEFINE K == {<<"markers", "order">>}
           s == S.markers
           Line(m) == Mark("markers", "order", m.id, <<m.from, TeamColor(m.team)>>)
           ss == [i \in 1..Len(s) |-> Only(s[i].placed, Only(s[i].from # None, Line(s[i])))]
<1>a. <<"markers", "order">> \in K
  BY DEF K
<1> HIDE DEF K
<1>1. ASSUME NEW i \in 1..Len(s) PROVE Paints(ss[i], K, Named)
  <2>1. s[i].placed => Paints(Line(s[i]), K, Named)
    BY <1>a, PlacedNamed, PaintsOne
  <2>2. s[i].placed => Paints(Only(s[i].from # None, Line(s[i])), K, Named)
    BY <2>1, PaintsOnly
  <2>3. Paints(Only(s[i].placed, Only(s[i].from # None, Line(s[i]))), K, Named)
    BY <2>2, PaintsOnly
  <2> QED
    BY <2>3
<1>2. ActionMarkerLines = FlattenSeq(ss)
  BY DEF ActionMarkerLines, Placed
<1>3. Len(s) \in Nat /\ ss = [i \in 1..Len(s) |-> ss[i]]
  BY SceneIs
<1> HIDE DEF ss, s, K
<1> QED
  BY <1>1, <1>2, <1>3, PaintsAll DEF K

LEMMA SpawnersPaint ==
  ASSUME scene \in 1..Len(Scenes)
  PROVE  /\ Paints(Spawners, {<<"spawners", "badge">>}, Named)
         /\ \A i \in 1..Len(S.spawners) : S.spawners[i].placed => Bears(Spawners, S.spawners[i].id)
<1> DEFINE K == {<<"spawners", "badge">>}
           s == S.spawners
           Pad1(e) == Mark("spawners", "badge", e.id, <<TeamColor(e.team), e.enabled>>)
           ss == [i \in 1..Len(s) |-> Only(s[i].placed, Pad1(s[i]))]
<1>a. <<"spawners", "badge">> \in K
  BY DEF K
<1> HIDE DEF K
<1>1. ASSUME NEW i \in 1..Len(s)
      PROVE  Paints(ss[i], K, Named) /\ (s[i].placed => Bears(ss[i], s[i].id))
  <2>1. s[i].placed => Paints(Pad1(s[i]), K, Named) /\ Bears(Pad1(s[i]), s[i].id)
    BY <1>a, PlacedNamed, PaintsOne
  <2>2. Paints(Only(s[i].placed, Pad1(s[i])), K, Named)
    BY <2>1, PaintsOnly
  <2>3. s[i].placed => Only(s[i].placed, Pad1(s[i])) = Pad1(s[i])
    BY DEF Only
  <2> QED
    BY <2>1, <2>2, <2>3
<1>2. Spawners = FlattenSeq(ss)
  BY DEF Spawners, Placed
<1>3. Len(s) \in Nat /\ ss = [i \in 1..Len(s) |-> ss[i]]
  BY SceneIs
<1> HIDE DEF ss, s, K
<1>4. Paints(FlattenSeq(ss), K, Named) /\ \A i \in 1..Len(s) : \A e : Bears(ss[i], e) => Bears(FlattenSeq(ss), e)
  BY <1>1, <1>3, PaintsAll
<1> QED
  BY <1>1, <1>2, <1>4 DEF K, s

LEMMA DeployablesPaint ==
  ASSUME scene \in 1..Len(Scenes)
  PROVE  /\ Paints(Deployables, DeployableKinds, Named)
         /\ \A i \in 1..Len(S.deployables) : S.deployables[i].placed => Bears(Deployables, S.deployables[i].id)
<1> DEFINE K == DeployableKinds
           s == S.deployables
           Pic(d) == Picture(d, DeployableIcon(d))
           Badge(d) == DeployableBadge("deployables", d, TeamColor(d.team), Pic(d), d.isFob \/ "hab" \in d.cls)
           Chip(d) == Mark("deployables", "chip", d.id, <<TeamColor(d.team), d.isFob>>)
           One(d) == IF Ready(Pic(d)) THEN Badge(d) ELSE Chip(d)
           Stock(d) == Only(d.isFob, FobResourceLabel(d))
           ss == [i \in 1..Len(s) |-> Only(s[i].placed, One(s[i]) \o Stock(s[i]))]
<1>a. <<"deployables", "badge">> \in K /\ <<"deployables", "chip">> \in K /\ <<"deployables", "stock">> \in K
  BY DEF K, DeployableKinds
<1> HIDE DEF K
<1>1. ASSUME NEW i \in 1..Len(s)
      PROVE  Paints(ss[i], K, Named) /\ (s[i].placed => Bears(ss[i], s[i].id))
  <2>1. ASSUME s[i].placed
        PROVE  Paints(One(s[i]) \o Stock(s[i]), K, Named) /\ Bears(One(s[i]) \o Stock(s[i]), s[i].id)
    <3>1. s[i].id \in Named
      BY <2>1, PlacedNamed
    <3>2. Paints(Badge(s[i]), K, Named) /\ Bears(Badge(s[i]), s[i].id)
      BY <1>a, <3>1, PaintsOne DEF DeployableBadge
    <3>3. Paints(Chip(s[i]), K, Named) /\ Bears(Chip(s[i]), s[i].id)
      BY <1>a, <3>1, PaintsOne
    <3>4. Paints(FobResourceLabel(s[i]), K, Named)
      BY <1>a, <3>1, PaintsOne, PaintsOnly DEF FobResourceLabel
    <3>5. Paints(One(s[i]), K, Named) /\ Bears(One(s[i]), s[i].id)
      BY <3>2, <3>3
    <3>6. Paints(Stock(s[i]), K, Named)
      BY <3>4, PaintsOnly
    <3> HIDE DEF One, Stock
    <3> QED
      BY <3>5, <3>6, PaintsJoin
  <2>2. Paints(Only(s[i].placed, One(s[i]) \o Stock(s[i])), K, Named)
    BY <2>1, PaintsOnly
  <2>3. s[i].placed => Only(s[i].placed, One(s[i]) \o Stock(s[i])) = One(s[i]) \o Stock(s[i])
    BY Zenon DEF Only
  <2> QED
    BY Zenon, <2>1, <2>2, <2>3
<1>2. Deployables = FlattenSeq(ss)
  BY DEF Deployables, Placed
<1>3. Len(s) \in Nat /\ ss = [i \in 1..Len(s) |-> ss[i]]
  BY SceneIs
<1> HIDE DEF ss, s, K
<1>4. Paints(FlattenSeq(ss), K, Named) /\ \A i \in 1..Len(s) : \A e : Bears(ss[i], e) => Bears(FlattenSeq(ss), e)
  BY <1>1, <1>3, PaintsAll
<1> QED
  BY <1>1, <1>2, <1>4 DEF K, s

LEMMA RalliesPaint ==
  ASSUME scene \in 1..Len(Scenes)
  PROVE  /\ Paints(RallyPoints, RallyKinds, Named)
         /\ \A i \in 1..Len(S.rallies) : S.rallies[i].placed => Bears(RallyPoints, S.rallies[i].id)
<1> DEFINE K == RallyKinds
           s == S.rallies
           Colour(r) == TeamColor(OrElse(r.squadTeam, r.team))
           Badge(r) == DeployableBadge("rallies", r, IF r.enabled THEN Colour(r) ELSE "grey", "rallypoint", FALSE)
           Ring(r) == Only(r.sieged, Mark("rallies", "ring", r.id, <<"red">>))
           One(r) == Only(Ready("rallypoint"), Badge(r) \o Ring(r))
           Squad(r) == Mark("rallies", "squad", r.id, <<r.squad, Colour(r)>>)
           Left(r) == Mark("rallies", "spawns", r.id,
                           <<r.spawns, IF r.spawns >= 6 THEN "green" ELSE IF r.spawns >= 3 THEN "amber" ELSE "red">>)
           More(r) == Only(r.spawns # None /\ r.spawns >= 0, Left(r))
           All(r) == One(r) \o Squad(r) \o More(r)
           ss == [i \in 1..Len(s) |-> Only(s[i].placed, All(s[i]))]
<1>a. <<"rallies", "badge">> \in K /\ <<"rallies", "ring">> \in K /\ <<"rallies", "squad">> \in K
      /\ <<"rallies", "spawns">> \in K
  BY DEF K, RallyKinds
<1> HIDE DEF K
<1>1. ASSUME NEW i \in 1..Len(s)
      PROVE  Paints(ss[i], K, Named) /\ (s[i].placed => Bears(ss[i], s[i].id))
  <2>1. ASSUME s[i].placed
        PROVE  Paints(All(s[i]), K, Named) /\ Bears(All(s[i]), s[i].id)
    <3>1. s[i].id \in Named
      BY <2>1, PlacedNamed
    <3>2. Paints(Badge(s[i]), K, Named)
      BY <1>a, <3>1, PaintsOne DEF DeployableBadge
    <3>3. Paints(Ring(s[i]), K, Named)
      BY <1>a, <3>1, PaintsOne, PaintsOnly
    <3>4. Paints(Squad(s[i]), K, Named) /\ Bears(Squad(s[i]), s[i].id)
      BY <1>a, <3>1, PaintsOne
    <3>5. Paints(Left(s[i]), K, Named)
      BY <1>a, <3>1, PaintsOne
    <3>6. Paints(More(s[i]), K, Named)
      BY <3>5, PaintsOnly
    <3> HIDE DEF Badge, Ring, Squad, More
    <3>7. Paints(Badge(s[i]) \o Ring(s[i]), K, Named)
      BY <3>2, <3>3, PaintsJoin
    <3>8. Paints(One(s[i]), K, Named)
      BY <3>7, PaintsOnly
    <3> HIDE DEF One
    <3>9. Paints(One(s[i]) \o Squad(s[i]), K, Named) /\ Bears(One(s[i]) \o Squad(s[i]), s[i].id)
      BY <3>4, <3>8, PaintsJoin
    <3> DEFINE both == One(s[i]) \o Squad(s[i])
    <3>10. All(s[i]) = both \o More(s[i])
      OBVIOUS
    <3> HIDE DEF both, All
    <3>11. Paints(both, K, Named) /\ Bears(both, s[i].id)
      BY <3>9 DEF both
    <3>12. Paints(both \o More(s[i]), K, Named) /\ Bears(both \o More(s[i]), s[i].id)
      BY <3>6, <3>11, PaintsJoin
    <3> QED
      BY <3>10, <3>12
  <2> HIDE DEF All
  <2>2. Paints(Only(s[i].placed, All(s[i])), K, Named)
    BY <2>1, PaintsOnly
  <2>3. s[i].placed => Only(s[i].placed, All(s[i])) = All(s[i])
    BY DEF Only
  <2> QED
    BY <2>1, <2>2, <2>3
<1>2. RallyPoints = FlattenSeq(ss)
  BY DEF RallyPoints, Placed
<1>3. Len(s) \in Nat /\ ss = [i \in 1..Len(s) |-> ss[i]]
  BY ZenonT(30), SceneIs
<1> HIDE DEF ss, s
<1>4. Paints(FlattenSeq(ss), K, Named) /\ \A i \in 1..Len(s) : \A e : Bears(ss[i], e) => Bears(FlattenSeq(ss), e)
  BY <1>1, <1>3, PaintsAll
<1> QED
  BY <1>1, <1>2, <1>4 DEF K, s

\* The badges of the vehicles, then their numbers.
VehicleBadges ==
  Placed(S.vehicles, LAMBDA v :
    IF Ready(VehicleIcon(v)) THEN VehicleBadge(v, VehicleIcon(v), VehicleTurretIcon(v))
    ELSE Mark("vehicles", "triangle", v.id, <<TeamColor(v.team), v.attached>>))
VehicleNumbers ==
  Placed(S.vehicles, LAMBDA v :
    LET n == VehicleSquadNumber(v)
    IN  Only(layers["squadNumbers"] /\ n # None, NumberBadge("vehicles", v.id, n, TeamColor(v.team), FALSE)))

LEMMA VehiclesPaint ==
  ASSUME scene \in 1..Len(Scenes)
  PROVE  /\ VehicleMarks = VehicleBadges \o VehicleNumbers
         /\ Paints(VehicleBadges, VehicleKinds, Named) /\ Paints(VehicleNumbers, {<<"vehicles", "number">>}, Named)
         /\ \A i \in 1..Len(S.vehicles) : S.vehicles[i].placed => Bears(VehicleBadges, S.vehicles[i].id)
<1> DEFINE K == VehicleKinds
           N == {<<"vehicles", "number">>}
           s == S.vehicles
           Both(v) == Ready(VehicleTurretIcon(v)) /\ v.turretYaw /\ v.yaw
           Hull(v) == Mark("vehicles", "badge", v.id,
                           <<VehicleIcon(v), IF Both(v) THEN VehicleTurretIcon(v) ELSE None, TeamColor(v.team)>>)
           Ring(v) == Only(v.attached, Mark("vehicles", "ring", v.id, <<"white">>))
           Simple(v) == Mark("vehicles", "triangle", v.id, <<TeamColor(v.team), v.attached>>)
           One(v) == IF Ready(VehicleIcon(v)) THEN Hull(v) \o Ring(v) ELSE Simple(v)
           Num(v) == Mark("vehicles", "number", v.id, <<VehicleSquadNumber(v), TeamColor(v.team), FALSE>>)
           Maybe(v) == Only(layers["squadNumbers"] /\ VehicleSquadNumber(v) # None, Num(v))
           ss == [i \in 1..Len(s) |-> Only(s[i].placed, One(s[i]))]
           tt == [i \in 1..Len(s) |-> Only(s[i].placed, Maybe(s[i]))]
<1>a. /\ <<"vehicles", "badge">> \in K /\ <<"vehicles", "ring">> \in K /\ <<"vehicles", "triangle">> \in K
      /\ <<"vehicles", "number">> \in N
  BY DEF K, VehicleKinds
<1> HIDE DEF K, N
<1>1. ASSUME NEW i \in 1..Len(s)
      PROVE  Paints(ss[i], K, Named) /\ (s[i].placed => Bears(ss[i], s[i].id))
  <2>1. ASSUME s[i].placed PROVE Paints(One(s[i]), K, Named) /\ Bears(One(s[i]), s[i].id)
    <3>1. s[i].id \in Named
      BY <2>1, PlacedNamed
    <3>2. Paints(Hull(s[i]), K, Named) /\ Bears(Hull(s[i]), s[i].id)
      BY <1>a, <3>1, PaintsOne
    <3>3. Paints(Ring(s[i]), K, Named)
      BY <1>a, <3>1, PaintsOne, PaintsOnly
    <3>4. Paints(Simple(s[i]), K, Named) /\ Bears(Simple(s[i]), s[i].id)
      BY <1>a, <3>1, PaintsOne
    <3> HIDE DEF Hull, Ring, Simple
    <3>5. Paints(Hull(s[i]) \o Ring(s[i]), K, Named) /\ Bears(Hull(s[i]) \o Ring(s[i]), s[i].id)
      BY <3>2, <3>3, PaintsJoin
    <3> QED
      BY <3>4, <3>5
  <2> HIDE DEF One
  <2>2. Paints(Only(s[i].placed, One(s[i])), K, Named)
    BY <2>1, PaintsOnly
  <2>3. s[i].placed => Only(s[i].placed, One(s[i])) = One(s[i])
    BY DEF Only
  <2> QED
    BY <2>1, <2>2, <2>3
<1>2. ASSUME NEW i \in 1..Len(s) PROVE Paints(tt[i], N, Named)
  <2>1. s[i].placed => Paints(Num(s[i]), N, Named)
    BY <1>a, PlacedNamed, PaintsOne
  <2>2. s[i].placed => Paints(Maybe(s[i]), N, Named)
    BY <2>1, PaintsOnly
  <2> HIDE DEF Maybe
  <2>3. Paints(Only(s[i].placed, Maybe(s[i])), N, Named)
    BY <2>2, PaintsOnly
  <2> QED
    BY <2>3
<1>3. VehicleBadges = FlattenSeq(ss)
  BY DEF VehicleBadges, VehicleBadge, Placed
<1>4. VehicleNumbers = FlattenSeq(tt)
  BY DEF VehicleNumbers, NumberBadge, Placed
<1>5. Len(s) \in Nat /\ ss = [i \in 1..Len(s) |-> ss[i]] /\ tt = [i \in 1..Len(s) |-> tt[i]]
  BY SceneIs
<1> HIDE DEF ss, tt, s
<1>6. Paints(FlattenSeq(ss), K, Named) /\ \A i \in 1..Len(s) : \A e : Bears(ss[i], e) => Bears(FlattenSeq(ss), e)
  BY <1>1, <1>5, PaintsAll
<1>7. Paints(FlattenSeq(tt), N, Named)
  BY <1>2, <1>5, PaintsAll
<1>8. VehicleMarks = VehicleBadges \o VehicleNumbers
  BY DEF VehicleMarks, VehicleBadges, VehicleNumbers
<1> QED
  BY <1>1, <1>3, <1>4, <1>6, <1>7, <1>8 DEF K, N, s

\* A drag that is drawn: long enough, and with a glyph for its pickets.
NoDrag(m) ==
  \/ ArrowEnd(m) = None \/ MarkerShape(m) \notin {"arrow", "frontline"}
  \/ MarkerShape(m) = "arrow" /\ Zoom * m.length >= ArrowMin
  \/ MarkerShape(m) = "frontline" /\ Zoom * m.length >= FenceMin /\ Ready("frontline")

LEMMA MarkersPaint ==
  ASSUME scene \in 1..Len(Scenes)
  PROVE  /\ Paints(Markers, MarkerKinds, Named)
         /\ \A i \in 1..Len(S.markers) :
              S.markers[i].placed /\ NoDrag(S.markers[i]) => Bears(Markers, S.markers[i].id)
<1> DEFINE K == MarkerKinds
           s == S.markers
           Label(m) == Mark("markers", "label", m.id, SquadLabel(m))
           Named1(m) == Only(SquadLabel(m) # None, Label(m))
           Arrow(m) == Mark("markers", "arrow", m.id, <<ShaftColor(m), SquadLabel(m)>>)
           Shaft(m) == Only(Zoom * m.length >= ArrowMin, Arrow(m))
           Pickets(m) == Mark("markers", "pickets", m.id, <<ShaftColor(m)>>)
           Fence(m) == Only(Zoom * m.length >= FenceMin /\ Ready("frontline"), Pickets(m))
           Glyph(m) == Mark("markers", "badge", m.id, <<MarkerIcon(m.type), TeamColor(m.team)>>)
           Chip(m) == Mark("markers", "chip", m.id, <<TeamColor(m.team)>>)
           Point(m) == CASE MarkerShape(m) = "diamond" -> MarkerDiamond(m)
                         [] MarkerShape(m) = "point" -> MarkerPoint(m)
                         [] MarkerShape(m) = None /\ Ready(MarkerIcon(m.type)) -> Glyph(m)
                         [] OTHER -> Chip(m)
           One(m) == IF MarkerShape(m) \in {"arrow", "frontline"} /\ ArrowEnd(m) # None
                     THEN IF MarkerShape(m) = "frontline" THEN Fence(m) \o Named1(m) ELSE Shaft(m)
                     ELSE Point(m) \o Named1(m)
           ss == [i \in 1..Len(s) |-> Only(s[i].placed, One(s[i]))]
<1>a. /\ <<"markers", "label">> \in K /\ <<"markers", "arrow">> \in K /\ <<"markers", "pickets">> \in K
      /\ <<"markers", "badge">> \in K /\ <<"markers", "chip">> \in K
  BY DEF K, MarkerKinds
<1> HIDE DEF K
<1>1. ASSUME NEW i \in 1..Len(s)
      PROVE  Paints(ss[i], K, Named) /\ (s[i].placed /\ NoDrag(s[i]) => Bears(ss[i], s[i].id))
  <2> DEFINE m == s[i]
  <2>1. ASSUME m.placed PROVE Paints(One(m), K, Named) /\ (NoDrag(m) => Bears(One(m), m.id))
    <3>1. m.id \in Named
      BY <2>1, PlacedNamed
    <3> HIDE DEF m
    <3>2. Paints(Label(m), K, Named)
      BY <1>a, <3>1, PaintsOne
    <3>3. Paints(Named1(m), K, Named)
      BY <3>2, PaintsOnly
    <3>4. Paints(Arrow(m), K, Named) /\ Bears(Arrow(m), m.id)
      BY <1>a, <3>1, PaintsOne
    <3>5. Paints(Pickets(m), K, Named) /\ Bears(Pickets(m), m.id)
      BY <1>a, <3>1, PaintsOne
    <3>6. Paints(Glyph(m), K, Named) /\ Bears(Glyph(m), m.id)
      BY <1>a, <3>1, PaintsOne
    <3>7. Paints(Chip(m), K, Named) /\ Bears(Chip(m), m.id)
      BY <1>a, <3>1, PaintsOne
    <3>8. Paints(MarkerDiamond(m), K, Named) /\ Bears(MarkerDiamond(m), m.id)
      BY <1>a, <3>1, PaintsOne DEF MarkerDiamond
    <3>9. Paints(MarkerPoint(m), K, Named) /\ Bears(MarkerPoint(m), m.id)
      BY <1>a, <3>1, PaintsOne DEF MarkerPoint
    <3> HIDE DEF Label, Arrow, Pickets, Glyph, Chip, Named1
    <3>10. Paints(Point(m), K, Named) /\ Bears(Point(m), m.id)
      <4>1. Point(m) \in {MarkerDiamond(m), MarkerPoint(m), Glyph(m), Chip(m)}
        BY DEF Point
      <4> QED
        BY <3>6, <3>7, <3>8, <3>9, <4>1
    <3>11. Paints(Shaft(m), K, Named) /\ (Zoom * m.length >= ArrowMin => Bears(Shaft(m), m.id))
      <4>1. Zoom * m.length >= ArrowMin => Shaft(m) = Arrow(m)
        BY DEF Only
      <4> QED
        BY <3>4, <4>1, PaintsOnly
    <3>12. Paints(Fence(m), K, Named) /\ (Zoom * m.length >= FenceMin /\ Ready("frontline") => Bears(Fence(m), m.id))
      <4>1. Zoom * m.length >= FenceMin /\ Ready("frontline") => Fence(m) = Pickets(m)
        BY DEF Only
      <4> QED
        BY <3>5, <4>1, PaintsOnly
    <3> HIDE DEF Point, Shaft, Fence
    <3>13. Paints(Point(m) \o Named1(m), K, Named) /\ Bears(Point(m) \o Named1(m), m.id)
      BY <3>3, <3>10, PaintsJoin
    <3>14. /\ Paints(Fence(m) \o Named1(m), K, Named)
           /\ (Zoom * m.length >= FenceMin /\ Ready("frontline") => Bears(Fence(m) \o Named1(m), m.id))
      BY <3>3, <3>12, PaintsJoin
    <3> QED
      BY <3>11, <3>13, <3>14 DEF NoDrag
  <2> HIDE DEF One
  <2>2. Paints(Only(m.placed, One(m)), K, Named)
    BY <2>1, PaintsOnly
  <2>3. m.placed => Only(m.placed, One(m)) = One(m)
    BY DEF Only
  <2> QED
    BY <2>1, <2>2, <2>3
<1>2. Markers = FlattenSeq(ss)
  BY DEF Markers, Placed, FrontlineSeries, MarkerLabel, DirectionArrow
<1>3. Len(s) \in Nat /\ ss = [i \in 1..Len(s) |-> ss[i]]
  BY SceneIs
<1> HIDE DEF ss, s
<1>4. Paints(FlattenSeq(ss), K, Named) /\ \A i \in 1..Len(s) : \A e : Bears(ss[i], e) => Bears(FlattenSeq(ss), e)
  BY <1>1, <1>3, PaintsAll
<1> QED
  BY <1>1, <1>2, <1>4 DEF K, s

\* The men on foot, then their numbers.
PlayerPins ==
  ForEach(S.players, LAMBDA p : Only(OnFoot(p), PlayerPin(p) \o Only(p.down, DownedMarker(p))
                                                \o Only(InFollowSquad(p), SquadRing(p))))
PlayerNumbers == ForEach(S.players, LAMBDA p : Only(OnFoot(p), PlayerNumber(p)))

LEMMA PlayersPaint ==
  ASSUME scene \in 1..Len(Scenes)
  PROVE  /\ PlayerMarks = PlayerPins \o PlayerNumbers
         /\ Paints(PlayerPins, PlayerKinds, Named) /\ Paints(PlayerNumbers, {<<"players", "number">>}, Named)
         /\ \A i \in 1..Len(S.players) : OnFoot(S.players[i]) => Bears(PlayerPins, S.players[i].key)
<1> DEFINE K == PlayerKinds
           N == {<<"players", "number">>}
           s == S.players
           Opacity(p) == IF Faint(p) THEN 30 ELSE IF p.down THEN 40 ELSE 100
           Glyph(p) == Picture(p, RoleIcon(p.role))
           Badge(p) == Mark("players", "badge", p.key,
                            <<TeamColor(p.team), IF Ready(Glyph(p)) THEN Glyph(p) ELSE None, Opacity(p)>>)
           Needle(p) == Only(p.yaw, Mark("players", "needle", p.key, <<TeamColor(p.team), Opacity(p)>>))
           Cross(p) == Only(p.down, DownedMarker(p))
           Ring(p) == Only(InFollowSquad(p), SquadRing(p))
           Pinned(p) == PlayerPin(p) \o Cross(p)
           One(p) == Pinned(p) \o Ring(p)
           Num(p) == PlayerNumber(p)
           ss == [i \in 1..Len(s) |-> Only(OnFoot(s[i]), One(s[i]))]
           tt == [i \in 1..Len(s) |-> Only(OnFoot(s[i]), Num(s[i]))]
<1>a. /\ <<"players", "badge">> \in K /\ <<"players", "needle">> \in K /\ <<"players", "cross">> \in K
      /\ <<"players", "ring">> \in K /\ <<"players", "number">> \in N
  BY DEF K, PlayerKinds
<1> HIDE DEF K, N
<1>1. ASSUME NEW i \in 1..Len(s)
      PROVE  Paints(ss[i], K, Named) /\ (OnFoot(s[i]) => Bears(ss[i], s[i].key))
  <2> DEFINE p == s[i]
  <2>1. ASSUME OnFoot(p) PROVE Paints(One(p), K, Named) /\ Bears(One(p), p.key)
    <3>1. p.key \in Named
      BY <2>1, OnFootNamed
    <3> HIDE DEF p
    <3>2. Paints(Badge(p), K, Named) /\ Bears(Badge(p), p.key)
      BY <1>a, <3>1, PaintsOne
    <3>3. Paints(Needle(p), K, Named)
      BY <1>a, <3>1, PaintsOne, PaintsOnly
    <3>4. PlayerPin(p) = Badge(p) \o Needle(p)
      BY DEF PlayerPin
    <3> HIDE DEF Badge, Needle
    <3>b. Paints(Badge(p) \o Needle(p), K, Named) /\ Bears(Badge(p) \o Needle(p), p.key)
      BY <3>2, <3>3, PaintsJoin
    <3>5. Paints(PlayerPin(p), K, Named) /\ Bears(PlayerPin(p), p.key)
      BY <3>4, <3>b
    <3>6. Paints(DownedMarker(p), K, Named)
      BY <1>a, <3>1, PaintsOne DEF DownedMarker
    <3>7. Paints(Cross(p), K, Named)
      BY <3>6, PaintsOnly
    <3>8. Paints(SquadRing(p), K, Named)
      BY <1>a, <3>1, PaintsOne DEF SquadRing
    <3>9. Paints(Ring(p), K, Named)
      BY <3>8, PaintsOnly
    <3> HIDE DEF Cross, Ring
    <3>10. Paints(Pinned(p), K, Named) /\ Bears(Pinned(p), p.key)
      BY <3>5, <3>7, PaintsJoin
    <3> HIDE DEF Pinned
    <3> QED
      BY <3>9, <3>10, PaintsJoin
  <2> HIDE DEF One
  <2>2. Paints(Only(OnFoot(p), One(p)), K, Named)
    BY <2>1, PaintsOnly
  <2>3. OnFoot(p) => Only(OnFoot(p), One(p)) = One(p)
    BY DEF Only
  <2> QED
    BY <2>1, <2>2, <2>3
<1>2. ASSUME NEW i \in 1..Len(s) PROVE Paints(tt[i], N, Named)
  <2> DEFINE p == s[i]
             b == NumberBadge("players", p.key, p.squad, TeamColor(p.team), Faint(p))
  <2>1. ASSUME OnFoot(p) PROVE Paints(Num(p), N, Named)
    <3>1. p.key \in Named
      BY <2>1, OnFootNamed
    <3> HIDE DEF p
    <3>2. Paints(b, N, Named)
      BY <1>a, <3>1, PaintsOne DEF NumberBadge
    <3> HIDE DEF b
    <3>3. PlayerNumber(p) = Only(/\ p.squad # None
                                 /\ \/ layers["squadNumbers"]
                                    \/ IsSquadLeader(p.role) /\ layers["slNumbers"], b)
      BY DEF PlayerNumber, b
    <3> QED
      BY <3>2, <3>3, PaintsOnly
  <2> HIDE DEF Num
  <2>2. Paints(Only(OnFoot(p), Num(p)), N, Named)
    BY <2>1, PaintsOnly
  <2> QED
    BY <2>2
<1>3. PlayerPins = FlattenSeq(ss)
  BY DEF PlayerPins, ForEach
<1>4. PlayerNumbers = FlattenSeq(tt)
  BY DEF PlayerNumbers, ForEach
<1>5. Len(s) \in Nat /\ ss = [i \in 1..Len(s) |-> ss[i]] /\ tt = [i \in 1..Len(s) |-> tt[i]]
  BY SceneIs
<1> HIDE DEF ss, tt, s
<1>6. Paints(FlattenSeq(ss), K, Named) /\ \A i \in 1..Len(s) : \A e : Bears(ss[i], e) => Bears(FlattenSeq(ss), e)
  BY <1>1, <1>5, PaintsAll
<1>7. Paints(FlattenSeq(tt), N, Named)
  BY <1>2, <1>5, PaintsAll
<1>8. PlayerMarks = PlayerPins \o PlayerNumbers
  BY DEF PlayerMarks, PlayerPins, PlayerNumbers
<1> QED
  BY <1>1, <1>3, <1>4, <1>6, <1>7, <1>8 DEF K, N, s

\* A list made of marks.
LEMMA PaintsList ==
  ASSUME NEW K, NEW O, NEW n \in Nat, NEW s, s = [i \in 1..n |-> s[i]],
         \A i \in 1..n : <<s[i].layer, s[i].part>> \in K /\ s[i].of \in O
  PROVE  Paints(s, K, O)
<1>1. s \in Seq({s[i] : i \in 1..n}) /\ Len(s) = n
  BY FunctionIsList
<1>2. IsList(s)
  BY <1>1, ListIs
<1> QED
  BY <1>1, <1>2 DEF Paints

\* The readings on the legs of a measurement, and that of the whole.
Reading(cm, bright, way) ==
  [layer |-> "ruler", part |-> "reading", of |-> None, look |-> <<FormatMetres(cm), bright, way>>]
LegReadings ==
  [i \in 1..Len(ruler) - 1 |-> Reading(LengthOf(ruler[i], ruler[i + 1]), Len(ruler) - 1 = 1, Bearing(ruler[i], ruler[i + 1]))]
TotalReading == Only(Len(ruler) - 1 > 1, <<Reading(PathLength(ruler), TRUE, None)>>)

LEMMA ReadingsAre == RulerReadings = LegReadings \o TotalReading
BY DEF RulerReadings, LegReadings, TotalReading, Reading

LEMMA RulerPaints ==
  ASSUME IsList(ruler)
  PROVE  Paints(RulerMarks, RulerKinds, Named)
<1> DEFINE K == RulerKinds
           legs == Len(ruler) - 1
           path == Mark("ruler", "path", None, ruler)
           total == Reading(PathLength(ruler), TRUE, None)
<1>a. <<"ruler", "path">> \in K /\ <<"ruler", "reading">> \in K /\ None \in Named
  BY DEF K, RulerKinds, Named
<1> HIDE DEF K
<1>b. ASSUME NEW cm, NEW bright, NEW way
      PROVE  LET r == Reading(cm, bright, way) IN <<r.layer, r.part>> \in K /\ r.of \in Named
  BY <1>a DEF Reading
<1>1. ASSUME Len(ruler) > 1 PROVE Paints(path \o RulerReadings, K, Named)
  <2>1. legs \in Nat
    <3>1. Len(ruler) \in Nat
      BY ListIs
    <3> QED
      BY <1>1, <3>1
  <2>2. ASSUME NEW i \in 1..legs
        PROVE  <<LegReadings[i].layer, LegReadings[i].part>> \in K /\ LegReadings[i].of \in Named
    <3>1. LegReadings[i] = Reading(LengthOf(ruler[i], ruler[i + 1]), legs = 1, Bearing(ruler[i], ruler[i + 1]))
      BY DEF LegReadings
    <3> QED
      BY <1>b, <3>1
  <2>3. LegReadings = [i \in 1..legs |-> LegReadings[i]]
    BY DEF LegReadings
  <2> HIDE DEF legs
  <2>4. Paints(LegReadings, K, Named)
    BY <2>1, <2>2, <2>3, PaintsList
  <2>5. Paints(path, K, Named)
    BY <1>a, PaintsOne
  <2>6. Paints(<<total>>, K, Named)
    <3>1. <<total>> = Mark("ruler", "reading", None, <<FormatMetres(PathLength(ruler)), TRUE, None>>)
      BY DEF Reading, Mark
    <3> QED
      BY <1>a, <3>1, PaintsOne
  <2> HIDE DEF path
  <2>7. Paints(TotalReading, K, Named)
    BY <2>6, PaintsOnly DEF TotalReading
  <2>8. Paints(RulerReadings, K, Named)
    BY <2>4, <2>7, ReadingsAre, PaintsJoin
  <2> QED
    BY <2>5, <2>8, PaintsJoin
<1>2. RulerMarks = Only(Len(ruler) > 1, path \o RulerReadings)
  BY DEF RulerMarks
<1> HIDE DEF path
<1> QED
  BY <1>1, <1>2, PaintsOnly DEF K

LEMMA TexturePaints ==
  /\ Paints(MapTexture, {<<"map", "texture">>}, Named)
  /\ Paints(MapGrid, {<<"map", "grid">>}, Named)
<1> DEFINE layer == OrElse(S.layer, FallbackMap(S.mapName))
           c == layer # None /\ layer.bounds /\ Ready(layer.texture)
           K == {<<"map", "texture">>}
           G == {<<"map", "grid">>}
           look == <<layer.texture>>
           m == Mark("map", "texture", None, look)
<1>1. MapTexture = Only(c, m)
  BY DEF MapTexture
<1>2. <<"map", "texture">> \in K /\ <<"map", "grid">> \in G /\ None \in Named
  BY DEF Named
<1> HIDE DEF c, K, G, look
<1>3. Paints(m, K, Named)
  BY <1>2, PaintsOne
<1>4. Paints(MapGrid, G, Named)
  BY <1>2, PaintsOne DEF MapGrid
<1> HIDE DEF m
<1>5. Paints(Only(c, m), K, Named)
  BY <1>3, PaintsOnly
<1> QED
  BY <1>1, <1>4, <1>5 DEF K, G

\* Up to some place the marks are of K, from there on of L.
Cut(s, K, L) ==
  /\ IsList(s)
  /\ \E p \in 0..Len(s) : \A k \in 1..Len(s) :
       <<s[k].layer, s[k].part>> \in IF k <= p THEN K ELSE L

LEMMA CutOne ==
  ASSUME NEW K, NEW L, NEW O, NEW s
  PROVE  /\ Paints(s, K, O) => Cut(s, K, L)
         /\ Paints(s, L, O) => Cut(s, K, L)
<1>1. ASSUME Paints(s, K, O) PROVE Cut(s, K, L)
  <2>1. Len(s) \in 0..Len(s) /\ \A k \in 1..Len(s) : k <= Len(s)
    BY <1>1, ListIs DEF Paints
  <2> QED
    BY <1>1, <2>1 DEF Cut, Paints
<1>2. ASSUME Paints(s, L, O) PROVE Cut(s, K, L)
  <2>1. 0 \in 0..Len(s) /\ \A k \in 1..Len(s) : ~(k <= 0)
    BY <1>2, ListIs DEF Paints
  <2> QED
    BY <1>2, <2>1 DEF Cut, Paints
<1> QED
  BY <1>1, <1>2

LEMMA CutJoin ==
  ASSUME NEW K, NEW L, NEW O, NEW s, NEW t,
         \/ Paints(s, K, O) /\ Cut(t, K, L)
         \/ Cut(s, K, L) /\ Paints(t, L, O)
  PROVE  Cut(s \o t, K, L)
<1> DEFINE r == s \o t
           Kind(x, k) == <<x[k].layer, x[k].part>>
<1>1. IsList(s) /\ IsList(t)
  BY DEF Paints, Cut
<1>2. /\ IsList(r) /\ Len(s) \in Nat /\ Len(t) \in Nat /\ Len(r) = Len(s) + Len(t)
      /\ \A k \in 1..Len(s) : k \in 1..Len(r) /\ r[k] = s[k]
      /\ \A k \in 1..Len(r) : k > Len(s) => k - Len(s) \in 1..Len(t) /\ r[k] = t[k - Len(s)]
  BY <1>1, ListsJoin
<1> HIDE DEF r
<1>3. CASE Paints(s, K, O) /\ Cut(t, K, L)
  <2>1. PICK p \in 0..Len(t) : \A k \in 1..Len(t) : Kind(t, k) \in IF k <= p THEN K ELSE L
    BY <1>3 DEF Cut
  <2>2. Len(s) + p \in 0..Len(r)
    BY <1>2
  <2>3. ASSUME NEW k \in 1..Len(r) PROVE Kind(r, k) \in IF k <= Len(s) + p THEN K ELSE L
    <3>1. CASE k > Len(s)
      <4>1. k - Len(s) \in 1..Len(t) /\ r[k] = t[k - Len(s)] /\ (k <= Len(s) + p <=> k - Len(s) <= p)
        BY <1>2, <3>1
      <4>2. Kind(t, k - Len(s)) \in IF k - Len(s) <= p THEN K ELSE L
        BY <2>1, <4>1
      <4> QED
        BY <4>1, <4>2
    <3>2. CASE ~(k > Len(s))
      <4>1. k \in 1..Len(s) /\ k <= Len(s) + p
        BY <1>2, <3>2
      <4> QED
        BY <1>2, <1>3, <4>1 DEF Paints
    <3> QED
      BY <3>1, <3>2
  <2> QED
    BY <1>2, <2>2, <2>3 DEF Cut, r
<1>4. CASE Cut(s, K, L) /\ Paints(t, L, O)
  <2>1. PICK p \in 0..Len(s) : \A k \in 1..Len(s) : Kind(s, k) \in IF k <= p THEN K ELSE L
    BY <1>4 DEF Cut
  <2>2. p \in 0..Len(r)
    BY <1>2
  <2>3. ASSUME NEW k \in 1..Len(r) PROVE Kind(r, k) \in IF k <= p THEN K ELSE L
    <3>1. CASE k > Len(s)
      <4>1. k - Len(s) \in 1..Len(t) /\ r[k] = t[k - Len(s)] /\ ~(k <= p)
        BY <1>2, <3>1
      <4> QED
        BY <1>4, <4>1 DEF Paints
    <3>2. CASE ~(k > Len(s))
      <4>1. k \in 1..Len(s) /\ r[k] = s[k]
        BY <1>2, <3>2
      <4> QED
        BY <2>1, <4>1
    <3> QED
      BY <3>1, <3>2
  <2> QED
    BY <1>2, <2>2, <2>3 DEF Cut, r
<1> QED
  BY <1>3, <1>4

\* One of the lists is cut, those before it are of K, those after it of L.
LEMMA CutAll ==
  ASSUME NEW K, NEW L, NEW O, NEW n \in Nat, NEW ss, ss = [i \in 1..n |-> ss[i]],
         NEW c \in 1..n, Cut(ss[c], K, L),
         \A i \in 1..n : i < c => Paints(ss[i], K, O),
         \A i \in 1..n : i > c => Paints(ss[i], L, O)
  PROVE  Cut(FlattenSeq(ss), K, L)
<1>1. ASSUME NEW i \in 1..n PROVE IsList(ss[i])
  <2>1. i < c \/ i = c \/ i > c
    OBVIOUS
  <2> QED
    BY <2>1 DEF Paints, Cut
<1>b. PICK X : ss \in Seq(Seq(X)) /\ Len(ss) = n
  BY <1>1, ListsAre
<1>2. ss \in Seq(Seq(X)) /\ Len(ss) = n /\ Len(ss) # 0
  <2>1. n # 0
    OBVIOUS
  <2> QED
    BY <1>b, <2>1
<1>a. \E f : /\ FlattenSeq(ss) = f[Len(ss)] /\ f[1] = ss[1]
             /\ \A i \in 2..Len(ss) : f[i] = f[i - 1] \o ss[i]
             /\ \A i \in 1..Len(ss) : f[i] \in Seq(X)
  BY <1>2, FlattenGoes
<1>3. PICK f : /\ FlattenSeq(ss) = f[n] /\ f[1] = ss[1]
               /\ \A i \in 2..n : f[i] = f[i - 1] \o ss[i]
  BY <1>a, <1>2
<1> DEFINE OK(i) == (i < c => Paints(f[i], K, O)) /\ (i >= c => Cut(f[i], K, L))
           T == {i \in 1..n : ~OK(i)}
<1>4. T = {}
  <2> SUFFICES ASSUME T # {} PROVE FALSE
    OBVIOUS
  <2>1. T \in SUBSET Nat
    OBVIOUS
  <2>2. PICK m \in T : \A k \in T : m <= k
    BY <2>1, LeastNat
  <2>3. m \in 1..n /\ ~OK(m)
    OBVIOUS
  <2>4. m # 1
    <3> SUFFICES ASSUME m = 1 PROVE FALSE
      OBVIOUS
    <3>1. 1 >= c => c = 1
      OBVIOUS
    <3>2. OK(1)
      BY <1>3, <2>3, <3>1
    <3> QED
      BY <2>3, <3>2
  <2>5. m \in 2..n /\ m - 1 \in 1..n
    BY <2>3, <2>4
  <2>6. m - 1 \notin T
    <3> SUFFICES ASSUME m - 1 \in T PROVE FALSE
      OBVIOUS
    <3>1. m <= m - 1
      BY <2>2
    <3> QED
      BY <2>5, <3>1
  <2>7. OK(m - 1) /\ f[m] = f[m - 1] \o ss[m]
    BY <1>3, <2>5, <2>6
  <2>8. OK(m)
    <3>1. CASE m < c
      <4>1. m - 1 < c
        BY <2>5, <3>1
      <4>2. Paints(f[m - 1], K, O) /\ Paints(ss[m], K, O)
        BY <2>3, <2>7, <3>1, <4>1
      <4>3. Paints(f[m], K, O)
        BY <2>7, <4>2, PaintsJoin
      <4> QED
        BY <2>3, <3>1, <4>3
    <3>2. CASE m = c
      <4>1. m - 1 < c
        BY <2>5, <3>2
      <4>2. Paints(f[m - 1], K, O) /\ Cut(ss[m], K, L)
        BY <2>7, <3>2, <4>1
      <4>3. Cut(f[m], K, L)
        BY <2>7, <4>2, CutJoin
      <4> QED
        BY <3>2, <4>3
    <3>3. CASE m > c
      <4>1. m - 1 >= c
        BY <2>5, <3>3
      <4>2. Cut(f[m - 1], K, L) /\ Paints(ss[m], L, O)
        BY <2>3, <2>7, <3>3, <4>1
      <4>3. Cut(f[m], K, L)
        BY <2>7, <4>2, CutJoin
      <4> QED
        BY <2>3, <3>3, <4>3
    <3> QED
      BY <2>3, <3>1, <3>2, <3>3
  <2> QED
    BY <2>3, <2>8
<1>5. n \in 1..n /\ n >= c
  OBVIOUS
<1>6. OK(n)
  BY <1>4, <1>5
<1> QED
  BY <1>3, <1>5, <1>6

\* What renderScene leaves, one call after the other.
Pieces ==
  <<MapTexture,
    On("deployables", FobRadii),
    Only(MapTexture = << >>, MapGrid),
    Mark("map", "lane", None, << >>),
    On("markers", ActionMarkerLines),
    On("spawners", Spawners),
    On("deployables", Deployables),
    Mark("caps", "badge", None, << >>),
    On("vehicles", VehicleMarks),
    On("markers", Markers),
    On("rallies", RallyPoints),
    On("players", PlayerMarks),
    On("projectiles", Mark("projectiles", "badge", None, << >>)),
    RulerMarks>>

PieceKinds ==
  <<{<<"map", "texture">>},
    {<<"deployables", "radius">>},
    {<<"map", "grid">>},
    {<<"map", "lane">>},
    {<<"markers", "order">>},
    {<<"spawners", "badge">>},
    DeployableKinds,
    {<<"caps", "badge">>},
    VehicleKinds \cup {<<"vehicles", "number">>},
    MarkerKinds,
    RallyKinds,
    PlayerKinds \cup {<<"players", "number">>},
    {<<"projectiles", "badge">>},
    RulerKinds>>

PaintKinds == UNION {PieceKinds[n] : n \in 1..14}

LEMMA PiecesPaint ==
  ASSUME scene \in 1..Len(Scenes), IsList(ruler)
  PROVE  \A n \in 1..14 : Paints(Pieces[n], PieceKinds[n], Named)
<1>1. None \in Named
  BY DEF Named
<1>2. Paints(MapTexture, {<<"map", "texture">>}, Named) /\ Paints(Only(MapTexture = << >>, MapGrid), {<<"map", "grid">>}, Named)
  BY TexturePaints, PaintsOnly
<1>3. /\ Paints(On("deployables", FobRadii), {<<"deployables", "radius">>}, Named)
      /\ Paints(On("markers", ActionMarkerLines), {<<"markers", "order">>}, Named)
      /\ Paints(On("spawners", Spawners), {<<"spawners", "badge">>}, Named)
      /\ Paints(On("deployables", Deployables), DeployableKinds, Named)
      /\ Paints(On("markers", Markers), MarkerKinds, Named)
      /\ Paints(On("rallies", RallyPoints), RallyKinds, Named)
  BY FobRadiiPaint, OrdersPaint, SpawnersPaint, DeployablesPaint, MarkersPaint, RalliesPaint, PaintsOnly DEF On
<1>4. /\ Paints(Mark("map", "lane", None, << >>), {<<"map", "lane">>}, Named)
      /\ Paints(Mark("caps", "badge", None, << >>), {<<"caps", "badge">>}, Named)
      /\ Paints(Mark("projectiles", "badge", None, << >>), {<<"projectiles", "badge">>}, Named)
  <2> DEFINE A == {<<"map", "lane">>}
             B == {<<"caps", "badge">>}
             C == {<<"projectiles", "badge">>}
  <2>1. <<"map", "lane">> \in A /\ <<"caps", "badge">> \in B /\ <<"projectiles", "badge">> \in C
    OBVIOUS
  <2> HIDE DEF A, B, C
  <2>2. /\ Paints(Mark("map", "lane", None, << >>), A, Named)
        /\ Paints(Mark("caps", "badge", None, << >>), B, Named)
        /\ Paints(Mark("projectiles", "badge", None, << >>), C, Named)
    BY <1>1, <2>1, PaintsOne
  <2> QED
    BY <2>2 DEF A, B, C
<1>5. Paints(On("projectiles", Mark("projectiles", "badge", None, << >>)), {<<"projectiles", "badge">>}, Named)
  BY <1>4, PaintsOnly DEF On
<1>6. Paints(On("vehicles", VehicleMarks), VehicleKinds \cup {<<"vehicles", "number">>}, Named)
  <2> DEFINE K == VehicleKinds \cup {<<"vehicles", "number">>}
  <2>1. VehicleKinds \subseteq K /\ {<<"vehicles", "number">>} \subseteq K
    OBVIOUS
  <2> HIDE DEF K
  <2>2. Paints(VehicleBadges, K, Named) /\ Paints(VehicleNumbers, K, Named)
    BY <2>1, VehiclesPaint, PaintsMore
  <2>3. Paints(VehicleBadges \o VehicleNumbers, K, Named)
    BY <2>2, PaintsJoin
  <2>4. Paints(VehicleMarks, K, Named)
    BY <2>3, VehiclesPaint
  <2> QED
    BY <2>4, PaintsOnly DEF On, K
<1>7. Paints(On("players", PlayerMarks), PlayerKinds \cup {<<"players", "number">>}, Named)
  <2> DEFINE K == PlayerKinds \cup {<<"players", "number">>}
  <2>1. PlayerKinds \subseteq K /\ {<<"players", "number">>} \subseteq K
    OBVIOUS
  <2> HIDE DEF K
  <2>2. Paints(PlayerPins, K, Named) /\ Paints(PlayerNumbers, K, Named)
    BY <2>1, PlayersPaint, PaintsMore
  <2>3. Paints(PlayerPins \o PlayerNumbers, K, Named)
    BY <2>2, PaintsJoin
  <2>4. Paints(PlayerMarks, K, Named)
    BY <2>3, PlayersPaint
  <2> QED
    BY <2>4, PaintsOnly DEF On, K
<1>8. Paints(RulerMarks, RulerKinds, Named)
  BY RulerPaints
<1> DEFINE OK(n) == Paints(Pieces[n], PieceKinds[n], Named)
<1>9. OK(1) /\ OK(2) /\ OK(3) /\ OK(4) /\ OK(5)
  BY <1>2, <1>3, <1>4 DEF Pieces, PieceKinds
<1>10. OK(6) /\ OK(7) /\ OK(8) /\ OK(9) /\ OK(10)
  BY <1>3, <1>4, <1>6 DEF Pieces, PieceKinds
<1>11. OK(11) /\ OK(12) /\ OK(13) /\ OK(14)
  BY <1>3, <1>5, <1>7, <1>8 DEF Pieces, PieceKinds
<1> HIDE DEF OK
<1>12. \A n \in 1..14 : OK(n)
  <2> SUFFICES ASSUME NEW n \in 1..14 PROVE OK(n)
    OBVIOUS
  <2>1. n \in {1, 2, 3, 4, 5, 6, 7, 8, 9, 10, 11, 12, 13, 14}
    OBVIOUS
  <2> QED
    BY <1>9, <1>10, <1>11, <2>1
<1> QED
  BY <1>12 DEF OK

LEMMA PiecesAre == Pieces = [n \in 1..14 |-> Pieces[n]] /\ PaintKinds = UNION {PieceKinds[n] : n \in 1..14}
BY DEF Pieces, PaintKinds

LEMMA FourteenJoined ==
  ASSUME NEW ss, NEW f, \A i \in 2..14 : f[i] = f[i - 1] \o ss[i]
  PROVE  f[14] = f[1] \o ss[2] \o ss[3] \o ss[4] \o ss[5] \o ss[6] \o ss[7] \o ss[8] \o ss[9] \o ss[10]
                 \o ss[11] \o ss[12] \o ss[13] \o ss[14]
<1> DEFINE J2 == f[1] \o ss[2]
           J3 == J2 \o ss[3]
           J4 == J3 \o ss[4]
           J5 == J4 \o ss[5]
           J6 == J5 \o ss[6]
           J7 == J6 \o ss[7]
           J8 == J7 \o ss[8]
           J9 == J8 \o ss[9]
           J10 == J9 \o ss[10]
           J11 == J10 \o ss[11]
           J12 == J11 \o ss[12]
           J13 == J12 \o ss[13]
           J14 == J13 \o ss[14]
<1>2. f[2] = J2
  <2>1. 2 \in 2..14 /\ 2 - 1 = 1
    OBVIOUS
  <2>2. f[2] = f[1] \o ss[2]
    BY <2>1
  <2> QED
    BY <2>2
<1>3. f[3] = J3
  <2>1. 3 \in 2..14 /\ 3 - 1 = 2
    OBVIOUS
  <2>2. f[3] = f[2] \o ss[3]
    BY <2>1
  <2> HIDE DEF J2
  <2> QED
    BY <1>2, <2>2
<1>4. f[4] = J4
  <2>1. 4 \in 2..14 /\ 4 - 1 = 3
    OBVIOUS
  <2>2. f[4] = f[3] \o ss[4]
    BY <2>1
  <2> HIDE DEF J3
  <2> QED
    BY <1>3, <2>2
<1>5. f[5] = J5
  <2>1. 5 \in 2..14 /\ 5 - 1 = 4
    OBVIOUS
  <2>2. f[5] = f[4] \o ss[5]
    BY <2>1
  <2> HIDE DEF J4
  <2> QED
    BY <1>4, <2>2
<1>6. f[6] = J6
  <2>1. 6 \in 2..14 /\ 6 - 1 = 5
    OBVIOUS
  <2>2. f[6] = f[5] \o ss[6]
    BY <2>1
  <2> HIDE DEF J5
  <2> QED
    BY <1>5, <2>2
<1>7. f[7] = J7
  <2>1. 7 \in 2..14 /\ 7 - 1 = 6
    OBVIOUS
  <2>2. f[7] = f[6] \o ss[7]
    BY <2>1
  <2> HIDE DEF J6
  <2> QED
    BY <1>6, <2>2
<1>8. f[8] = J8
  <2>1. 8 \in 2..14 /\ 8 - 1 = 7
    OBVIOUS
  <2>2. f[8] = f[7] \o ss[8]
    BY <2>1
  <2> HIDE DEF J7
  <2> QED
    BY <1>7, <2>2
<1>9. f[9] = J9
  <2>1. 9 \in 2..14 /\ 9 - 1 = 8
    OBVIOUS
  <2>2. f[9] = f[8] \o ss[9]
    BY <2>1
  <2> HIDE DEF J8
  <2> QED
    BY <1>8, <2>2
<1>10. f[10] = J10
  <2>1. 10 \in 2..14 /\ 10 - 1 = 9
    OBVIOUS
  <2>2. f[10] = f[9] \o ss[10]
    BY <2>1
  <2> HIDE DEF J9
  <2> QED
    BY <1>9, <2>2
<1>11. f[11] = J11
  <2>1. 11 \in 2..14 /\ 11 - 1 = 10
    OBVIOUS
  <2>2. f[11] = f[10] \o ss[11]
    BY <2>1
  <2> HIDE DEF J10
  <2> QED
    BY <1>10, <2>2
<1>12. f[12] = J12
  <2>1. 12 \in 2..14 /\ 12 - 1 = 11
    OBVIOUS
  <2>2. f[12] = f[11] \o ss[12]
    BY <2>1
  <2> HIDE DEF J11
  <2> QED
    BY <1>11, <2>2
<1>13. f[13] = J13
  <2>1. 13 \in 2..14 /\ 13 - 1 = 12
    OBVIOUS
  <2>2. f[13] = f[12] \o ss[13]
    BY <2>1
  <2> HIDE DEF J12
  <2> QED
    BY <1>12, <2>2
<1>14. f[14] = J14
  <2>1. 14 \in 2..14 /\ 14 - 1 = 13
    OBVIOUS
  <2>2. f[14] = f[13] \o ss[14]
    BY <2>1
  <2> HIDE DEF J13
  <2> QED
    BY <1>13, <2>2
<1> QED
  BY <1>14

LEMMA PaintIsPieces ==
  ASSUME scene \in 1..Len(Scenes), IsList(ruler)
  PROVE  Paint = FlattenSeq(Pieces)
<1> DEFINE ss == Pieces
<1>1. \A i \in 1..14 : IsList(ss[i])
  BY PiecesPaint DEF Paints
<1> HIDE DEF ss
<1>2. PICK X : ss \in Seq(Seq(X)) /\ Len(ss) = 14
  BY <1>1, PiecesAre, ListsAre DEF ss
<1>b. Len(ss) # 0
  BY <1>2
<1>3. \E f : /\ FlattenSeq(ss) = f[Len(ss)] /\ f[1] = ss[1]
             /\ \A i \in 2..Len(ss) : f[i] = f[i - 1] \o ss[i]
             /\ \A i \in 1..Len(ss) : f[i] \in Seq(X)
  BY <1>2, <1>b, FlattenGoes
<1>4. PICK f : /\ FlattenSeq(ss) = f[14] /\ f[1] = ss[1]
               /\ \A i \in 2..14 : f[i] = f[i - 1] \o ss[i]
  BY Zenon, <1>2, <1>3
<1>5. f[14] = f[1] \o ss[2] \o ss[3] \o ss[4] \o ss[5] \o ss[6] \o ss[7] \o ss[8] \o ss[9] \o ss[10]
                \o ss[11] \o ss[12] \o ss[13] \o ss[14]
  BY Zenon, <1>4, FourteenJoined
<1>6. Paint = ss[1] \o ss[2] \o ss[3] \o ss[4] \o ss[5] \o ss[6] \o ss[7] \o ss[8] \o ss[9] \o ss[10]
              \o ss[11] \o ss[12] \o ss[13] \o ss[14]
  BY DEF Paint, Pieces, ss
<1> QED
  BY Zenon, <1>4, <1>5, <1>6 DEF ss

PinParts == {"badge", "chip", "triangle", "needle"}
UnderParts == {"texture", "grid", "radius", "order"}

\* Which layers and parts which of the calls leaves.
KindOf(n, kd) ==
  /\ kd[1] = "vehicles" <=> n = 9
  /\ kd[1] = "players" <=> n = 12
  /\ kd[1] = "ruler" <=> n = 14
  /\ kd[2] \in {"path", "reading"} => n = 14
  /\ kd[2] \in UnderParts => n <= 5
  /\ n <= 5 => kd[2] \notin PinParts
  /\ kd[2] = "number" => n = 9 \/ n = 12

LEMMA KindsAre ==
  \A n \in 1..14 : /\ PieceKinds[n] \subseteq PaintKinds
                   /\ \A kd \in PieceKinds[n] : KindOf(n, kd)
<1> DEFINE OK(n) == \A kd \in PieceKinds[n] : KindOf(n, kd)
<1>1. OK(1) /\ OK(2) /\ OK(3) /\ OK(4) /\ OK(5)
  BY DEF PieceKinds, KindOf, PinParts, UnderParts
<1>2. OK(6) /\ OK(7) /\ OK(8) /\ OK(10) /\ OK(13)
  BY DEF PieceKinds, KindOf, PinParts, UnderParts, DeployableKinds, MarkerKinds
<1>3. OK(9) /\ OK(11)
  BY DEF PieceKinds, KindOf, PinParts, UnderParts, VehicleKinds, RallyKinds
<1>4. OK(12) /\ OK(14)
  BY DEF PieceKinds, KindOf, PinParts, UnderParts, PlayerKinds, RulerKinds
<1> HIDE DEF OK
<1>5. ASSUME NEW n \in 1..14 PROVE OK(n)
  <2>1. n \in {1, 2, 3, 4, 5, 6, 7, 8, 9, 10, 11, 12, 13, 14}
    OBVIOUS
  <2> QED
    BY <1>1, <1>2, <1>3, <1>4, <2>1
<1>6. \A n \in 1..14 : PieceKinds[n] \subseteq PaintKinds
  BY DEF PaintKinds
<1> QED
  BY <1>5, <1>6 DEF OK

\* The paint is made of the pieces.
LEMMA PaintIs ==
  ASSUME scene \in 1..Len(Scenes), IsList(ruler)
  PROVE  /\ Paints(Paint, PaintKinds, Named)
         /\ \A n \in 1..14 : \A e : Bears(Pieces[n], e) => Bears(Paint, e)
<1> DEFINE ss == Pieces
<1>1. ASSUME NEW n \in 1..14 PROVE Paints(ss[n], PaintKinds, Named)
  <2>1. Paints(ss[n], PieceKinds[n], Named) /\ PieceKinds[n] \subseteq PaintKinds
    BY PiecesPaint, KindsAre
  <2> QED
    BY <2>1, PaintsMore
<1>2. ss = [i \in 1..14 |-> ss[i]] /\ Paint = FlattenSeq(ss)
  BY PiecesAre, PaintIsPieces
<1> HIDE DEF ss
<1>3. /\ Paints(FlattenSeq(ss), PaintKinds, Named)
      /\ \A i \in 1..14 : \A e : Bears(ss[i], e) => Bears(FlattenSeq(ss), e)
  BY <1>1, <1>2, PaintsAll
<1> QED
  BY <1>2, <1>3 DEF ss

\* A cut through one of the pieces is one through the paint.
LEMMA PaintCut ==
  ASSUME scene \in 1..Len(Scenes), IsList(ruler), NEW K, NEW L, NEW c \in 1..14, Cut(Pieces[c], K, L),
         \A n \in 1..14 : n < c => PieceKinds[n] \subseteq K,
         \A n \in 1..14 : n > c => PieceKinds[n] \subseteq L
  PROVE  Cut(Paint, K, L)
<1> DEFINE ss == Pieces
<1>1. ASSUME NEW n \in 1..14 PROVE Paints(ss[n], PieceKinds[n], Named)
  BY PiecesPaint
<1>2. ss = [i \in 1..14 |-> ss[i]] /\ Paint = FlattenSeq(ss)
  BY PiecesAre, PaintIsPieces
<1>3. Cut(ss[c], K, L)
  OBVIOUS
<1> HIDE DEF ss
<1>4. ASSUME NEW n \in 1..14, n < c PROVE Paints(ss[n], K, Named)
  <2>1. PieceKinds[n] \subseteq K
    BY <1>4
  <2> QED
    BY <1>1, <2>1, PaintsMore
<1>5. ASSUME NEW n \in 1..14, n > c PROVE Paints(ss[n], L, Named)
  <2>1. PieceKinds[n] \subseteq L
    BY <1>5
  <2> QED
    BY <1>1, <2>1, PaintsMore
<1>6. 14 \in Nat
  OBVIOUS
<1>7. Cut(FlattenSeq(ss), K, L)
  BY <1>2, <1>3, <1>4, <1>5, <1>6, CutAll
<1> QED
  BY <1>2, <1>7

\* What is not of the upper kinds lies below what is not of the lower ones.
LEMMA CutTells ==
  ASSUME NEW K, NEW L, NEW s, Cut(s, K, L)
  PROVE  /\ \A i, j \in 1..Len(s) :
              <<s[i].layer, s[i].part>> \notin L /\ <<s[j].layer, s[j].part>> \notin K => i < j
         /\ \A i, j \in 1..Len(s) :
              <<s[i].layer, s[i].part>> \notin K /\ i <= j => <<s[j].layer, s[j].part>> \in L
<1> DEFINE Kind(k) == <<s[k].layer, s[k].part>>
<1>1. Len(s) \in Nat
  BY ListIs DEF Cut
<1>2. PICK p \in 0..Len(s) : \A k \in 1..Len(s) : Kind(k) \in IF k <= p THEN K ELSE L
  BY DEF Cut
<1>3. \A k \in 1..Len(s) : (k <= p => Kind(k) \in K) /\ (~(k <= p) => Kind(k) \in L)
  BY <1>2
<1> HIDE DEF Kind
<1>4. \A i, j \in 1..Len(s) : Kind(i) \notin L /\ Kind(j) \notin K => i < j
  BY <1>1, <1>3
<1>5. \A i, j \in 1..Len(s) : Kind(i) \notin K /\ i <= j => Kind(j) \in L
  BY <1>1, <1>3
<1> QED
  BY <1>4, <1>5 DEF Kind

\* The three cuts: the ground, the numbers of either kind, the ruler.
LEMMA GroundCut ==
  ASSUME scene \in 1..Len(Scenes), IsList(ruler)
  PROVE  Cut(Paint, {kd \in PaintKinds : kd[2] \notin PinParts}, {kd \in PaintKinds : kd[2] \notin UnderParts})
<1> DEFINE K == {kd \in PaintKinds : kd[2] \notin PinParts}
           L == {kd \in PaintKinds : kd[2] \notin UnderParts}
<1>1. \A n \in 1..14 : (n <= 5 => PieceKinds[n] \subseteq K) /\ (n > 5 => PieceKinds[n] \subseteq L)
  BY KindsAre DEF KindOf
<1> HIDE DEF K, L
<1>2. 5 \in 1..14
  OBVIOUS
<1>3. Paints(Pieces[5], K, Named)
  <2>1. Paints(Pieces[5], PieceKinds[5], Named) /\ PieceKinds[5] \subseteq K
    BY <1>1, <1>2, PiecesPaint
  <2> QED
    BY <2>1, PaintsMore
<1>4. Cut(Pieces[5], K, L)
  BY <1>3, CutOne
<1>5. \A n \in 1..14 : (n < 5 => PieceKinds[n] \subseteq K) /\ (n > 5 => PieceKinds[n] \subseteq L)
  <2>1. \A n \in 1..14 : n < 5 => n <= 5
    OBVIOUS
  <2> QED
    BY <1>1, <2>1
<1>6. Cut(Paint, K, L)
  BY <1>2, <1>4, <1>5, PaintCut
<1> QED
  BY <1>6 DEF K, L

LEMMA NumberCut ==
  ASSUME scene \in 1..Len(Scenes), IsList(ruler), NEW layer \in {"vehicles", "players"}
  PROVE  Cut(Paint, {kd \in PaintKinds : kd # <<layer, "number">>},
                    {kd \in PaintKinds : ~(kd[1] = layer /\ kd[2] \in PinParts)})
<1> DEFINE K == {kd \in PaintKinds : kd # <<layer, "number">>}
           L == {kd \in PaintKinds : ~(kd[1] = layer /\ kd[2] \in PinParts)}
           N == {<<layer, "number">>}
           c == IF layer = "vehicles" THEN 9 ELSE 12
           PinKinds == IF layer = "vehicles" THEN VehicleKinds ELSE PlayerKinds
           below == IF layer = "vehicles" THEN VehicleBadges ELSE PlayerPins
           above == IF layer = "vehicles" THEN VehicleNumbers ELSE PlayerNumbers
<1>1. c \in 1..14
  OBVIOUS
<1>2. \A n \in 1..14 : n # c => PieceKinds[n] \subseteq K /\ PieceKinds[n] \subseteq L
  <2> SUFFICES ASSUME NEW n \in 1..14, n # c, NEW kd \in PieceKinds[n] PROVE kd \in K /\ kd \in L
    OBVIOUS
  <2>1. kd \in PaintKinds /\ (kd[1] = "vehicles" <=> n = 9) /\ (kd[1] = "players" <=> n = 12)
    BY KindsAre DEF KindOf
  <2>2. kd[1] # layer
    BY <2>1
  <2>3. kd # <<layer, "number">>
    BY <2>2
  <2> QED
    BY <2>1, <2>2, <2>3
<1>3. PieceKinds[9] = VehicleKinds \cup {<<"vehicles", "number">>} /\ PieceKinds[12] = PlayerKinds \cup {<<"players", "number">>}
  BY DEF PieceKinds
<1>4. PieceKinds[9] \subseteq PaintKinds /\ PieceKinds[12] \subseteq PaintKinds
  BY KindsAre
<1>5. PinKinds \subseteq K /\ N \subseteq L
  <2>1. \A kd \in VehicleKinds : kd # <<"vehicles", "number">>
    BY DEF VehicleKinds
  <2>2. \A kd \in PlayerKinds : kd # <<"players", "number">>
    BY DEF PlayerKinds
  <2>3. "number" \notin PinParts
    BY DEF PinParts
  <2> QED
    BY <1>3, <1>4, <2>1, <2>2, <2>3
<1>6. Pieces[9] = On("vehicles", VehicleMarks) /\ Pieces[12] = On("players", PlayerMarks)
  BY DEF Pieces
<1>7. /\ VehicleMarks = VehicleBadges \o VehicleNumbers /\ PlayerMarks = PlayerPins \o PlayerNumbers
      /\ Paints(VehicleBadges, VehicleKinds, Named) /\ Paints(VehicleNumbers, {<<"vehicles", "number">>}, Named)
      /\ Paints(PlayerPins, PlayerKinds, Named) /\ Paints(PlayerNumbers, {<<"players", "number">>}, Named)
  BY VehiclesPaint, PlayersPaint
<1>8. Pieces[c] = On(layer, below \o above) /\ Paints(below, PinKinds, Named) /\ Paints(above, N, Named)
  BY <1>6, <1>7
<1> HIDE DEF K, L, N, c, PinKinds, below, above
<1>9. Paints(below, K, Named)
  BY <1>5, <1>8, PaintsMore
<1>10. Paints(above, L, Named)
  BY <1>5, <1>8, PaintsMore
<1>11. Cut(below \o above, K, L)
  <2>1. Cut(below, K, L)
    BY <1>9, CutOne
  <2> QED
    BY <1>10, <2>1, CutJoin
<1>12. Cut(Pieces[c], K, L)
  <2>1. Paints(<< >>, K, Named)
    BY PaintsNone
  <2>2. Cut(<< >>, K, L)
    BY <2>1, CutOne
  <2> QED
    BY <1>8, <1>11, <2>2 DEF On, Only
<1>13. \A n \in 1..14 : (n < c => PieceKinds[n] \subseteq K) /\ (n > c => PieceKinds[n] \subseteq L)
  <2>1. c \in Int
    BY <1>1
  <2>2. \A n \in 1..14 : n < c \/ n > c => n # c
    BY <2>1
  <2> QED
    BY <1>2, <2>2
<1>14. Cut(Paint, K, L)
  BY <1>1, <1>12, <1>13, PaintCut
<1> QED
  BY <1>14 DEF K, L

LEMMA RulerCut ==
  ASSUME scene \in 1..Len(Scenes), IsList(ruler)
  PROVE  Cut(Paint, {kd \in PaintKinds : kd[1] # "ruler"}, {kd \in PaintKinds : kd[1] = "ruler"})
<1> DEFINE K == {kd \in PaintKinds : kd[1] # "ruler"}
           L == {kd \in PaintKinds : kd[1] = "ruler"}
<1>1. \A n \in 1..14 : (n < 14 => PieceKinds[n] \subseteq K) /\ (n = 14 => PieceKinds[n] \subseteq L)
  BY SMTT(30), KindsAre DEF KindOf
<1> HIDE DEF K, L
<1>2. 14 \in 1..14 /\ \A n \in 1..14 : ~(n > 14)
  OBVIOUS
<1>3. Paints(Pieces[14], L, Named)
  <2>1. Paints(Pieces[14], PieceKinds[14], Named) /\ PieceKinds[14] \subseteq L
    BY <1>1, <1>2, PiecesPaint
  <2> QED
    BY <2>1, PaintsMore
<1>4. Cut(Pieces[14], K, L)
  BY <1>3, CutOne
<1>5. Cut(Paint, K, L)
  BY <1>1, <1>2, <1>4, PaintCut
<1> QED
  BY <1>5 DEF K, L

LEMMA UnderAndOverHolds ==
  ASSUME scene \in {None} \cup 1..Len(Scenes), IsList(ruler)
  PROVE  UnderAndOver
<1> SUFFICES ASSUME scene # None PROVE UnderAndOver
  BY DEF UnderAndOver, Painted
<1> DEFINE paint == Paint
           Kind(k) == <<paint[k].layer, paint[k].part>>
           K1 == {kd \in PaintKinds : kd[2] \notin PinParts}
           L1 == {kd \in PaintKinds : kd[2] \notin UnderParts}
           K2(l) == {kd \in PaintKinds : kd # <<l, "number">>}
           L2(l) == {kd \in PaintKinds : ~(kd[1] = l /\ kd[2] \in PinParts)}
           K3 == {kd \in PaintKinds : kd[1] # "ruler"}
           L3 == {kd \in PaintKinds : kd[1] = "ruler"}
<1>a. scene \in 1..Len(Scenes)
  OBVIOUS
<1>1. ASSUME NEW k \in 1..Len(paint)
      PROVE  /\ Kind(k) \in PaintKinds /\ Kind(k)[1] = paint[k].layer /\ Kind(k)[2] = paint[k].part
             /\ paint[k].part = "number" => paint[k].layer \in {"vehicles", "players"}
             /\ paint[k].part \in {"path", "reading"} => paint[k].layer = "ruler"
  <2>1. Kind(k) \in PaintKinds
    BY <1>a, PaintIs DEF Paints
  <2>2. PICK n \in 1..14 : Kind(k) \in PieceKinds[n]
    BY <2>1 DEF PaintKinds
  <2>3. KindOf(n, Kind(k))
    BY <2>2, KindsAre
  <2>4. Kind(k)[1] = paint[k].layer /\ Kind(k)[2] = paint[k].part
    OBVIOUS
  <2> QED
    BY <2>1, <2>3, <2>4 DEF KindOf
<1>2. Cut(paint, K1, L1) /\ Cut(paint, K3, L3) /\ \A l \in {"vehicles", "players"} : Cut(paint, K2(l), L2(l))
  BY <1>a, GroundCut, NumberCut, RulerCut
<1> HIDE DEF paint, PinParts, UnderParts
<1>3. ASSUME NEW i \in 1..Len(paint), NEW j \in 1..Len(paint), paint[i].part \in UnderParts, paint[j].part \in PinParts
      PROVE  i < j
  <2>1. Kind(i) \notin L1 /\ Kind(j) \notin K1
    BY <1>1, <1>3
  <2> HIDE DEF K1, L1
  <2> QED
    BY <1>2, <2>1, CutTells
<1>4. ASSUME NEW i \in 1..Len(paint), NEW j \in 1..Len(paint), paint[i].part = "number", paint[j].part \in PinParts,
             paint[i].layer = paint[j].layer
      PROVE  j < i
  <2> DEFINE l == paint[i].layer
  <2>1. l \in {"vehicles", "players"} /\ Kind(i) \notin K2(l) /\ Kind(j) \notin L2(l)
    BY <1>1, <1>4
  <2>2. Cut(paint, K2(l), L2(l))
    BY <1>2, <2>1
  <2> HIDE DEF K2, L2, l
  <2> QED
    BY <2>1, <2>2, CutTells
<1>5. ASSUME NEW i \in 1..Len(paint), NEW j \in i..Len(paint), paint[i].part \in {"path", "reading"}
      PROVE  paint[j].layer = "ruler"
  <2>1. Kind(i) \notin K3
    BY <1>1, <1>5
  <2>2. j \in 1..Len(paint) /\ i <= j
    OBVIOUS
  <2>3. Kind(j) \in L3
    <3> HIDE DEF K3, L3
    <3> QED
      BY <1>2, <2>1, <2>2, CutTells
  <2> QED
    BY <1>1, <2>2, <2>3
<1>6. Painted = {paint}
  BY DEF Painted, paint
<1> QED
  BY <1>3, <1>4, <1>5, <1>6 DEF UnderAndOver, PinParts, UnderParts

\* Everything of a layer that is shown bears a mark in the paint.
LEMMA PaintBears ==
  ASSUME scene \in 1..Len(Scenes), IsList(ruler)
  PROVE  /\ layers["vehicles"] =>
              \A i \in 1..Len(S.vehicles) : S.vehicles[i].placed => Bears(Paint, S.vehicles[i].id)
         /\ layers["deployables"] =>
              \A i \in 1..Len(S.deployables) : S.deployables[i].placed => Bears(Paint, S.deployables[i].id)
         /\ layers["rallies"] =>
              \A i \in 1..Len(S.rallies) : S.rallies[i].placed => Bears(Paint, S.rallies[i].id)
         /\ layers["spawners"] =>
              \A i \in 1..Len(S.spawners) : S.spawners[i].placed => Bears(Paint, S.spawners[i].id)
         /\ layers["markers"] =>
              \A i \in 1..Len(S.markers) : S.markers[i].placed /\ NoDrag(S.markers[i]) => Bears(Paint, S.markers[i].id)
         /\ layers["players"] =>
              \A i \in 1..Len(S.players) : OnFoot(S.players[i]) => Bears(Paint, S.players[i].key)
<1>1. /\ Pieces[6] = On("spawners", Spawners) /\ Pieces[7] = On("deployables", Deployables)
      /\ Pieces[9] = On("vehicles", VehicleMarks) /\ Pieces[10] = On("markers", Markers)
      /\ Pieces[11] = On("rallies", RallyPoints) /\ Pieces[12] = On("players", PlayerMarks)
  BY DEF Pieces
<1>2. \A n \in {6, 7, 9, 10, 11, 12} : \A e : Bears(Pieces[n], e) => Bears(Paint, e)
  <2>1. \A n \in {6, 7, 9, 10, 11, 12} : n \in 1..14
    OBVIOUS
  <2> QED
    BY <2>1, PaintIs
<1>3. ASSUME layers["spawners"], NEW i \in 1..Len(S.spawners), S.spawners[i].placed
      PROVE  Bears(Paint, S.spawners[i].id)
  <2>1. Pieces[6] = Spawners
    BY <1>1, <1>3 DEF On, Only
  <2> QED
    BY <1>2, <1>3, <2>1, SpawnersPaint
<1>4. ASSUME layers["deployables"], NEW i \in 1..Len(S.deployables), S.deployables[i].placed
      PROVE  Bears(Paint, S.deployables[i].id)
  <2>1. Pieces[7] = Deployables
    BY <1>1, <1>4 DEF On, Only
  <2> QED
    BY <1>2, <1>4, <2>1, DeployablesPaint
<1>5. ASSUME layers["vehicles"], NEW i \in 1..Len(S.vehicles), S.vehicles[i].placed
      PROVE  Bears(Paint, S.vehicles[i].id)
  <2>1. Pieces[9] = VehicleMarks
    BY <1>1, <1>5 DEF On, Only
  <2> DEFINE K == VehicleKinds \cup {<<"vehicles", "number">>}
             a == VehicleBadges
             b == VehicleNumbers
  <2>2. VehicleKinds \subseteq K /\ {<<"vehicles", "number">>} \subseteq K
    OBVIOUS
  <2>3. /\ VehicleMarks = a \o b /\ Bears(a, S.vehicles[i].id)
        /\ Paints(a, VehicleKinds, Named) /\ Paints(b, {<<"vehicles", "number">>}, Named)
    BY <1>5, VehiclesPaint
  <2> HIDE DEF K, a, b
  <2>4. Paints(a, K, Named) /\ Paints(b, K, Named)
    BY <2>2, <2>3, PaintsMore
  <2>6. \A e : Bears(a, e) => Bears(a \o b, e)
    BY <2>4, PaintsJoin
  <2>5. Bears(a \o b, S.vehicles[i].id)
    BY <2>3, <2>6
  <2> QED
    BY <1>2, <2>1, <2>3, <2>5
<1>6. ASSUME layers["markers"], NEW i \in 1..Len(S.markers), S.markers[i].placed, NoDrag(S.markers[i])
      PROVE  Bears(Paint, S.markers[i].id)
  <2>1. Pieces[10] = Markers
    BY <1>1, <1>6 DEF On, Only
  <2> QED
    BY <1>2, <1>6, <2>1, MarkersPaint
<1>7. ASSUME layers["rallies"], NEW i \in 1..Len(S.rallies), S.rallies[i].placed
      PROVE  Bears(Paint, S.rallies[i].id)
  <2>1. Pieces[11] = RallyPoints
    BY <1>1, <1>7 DEF On, Only
  <2> QED
    BY <1>2, <1>7, <2>1, RalliesPaint
<1>8. ASSUME layers["players"], NEW i \in 1..Len(S.players), OnFoot(S.players[i])
      PROVE  Bears(Paint, S.players[i].key)
  <2>1. Pieces[12] = PlayerMarks
    BY <1>1, <1>8 DEF On, Only
  <2> DEFINE K == PlayerKinds \cup {<<"players", "number">>}
             a == PlayerPins
             b == PlayerNumbers
  <2>2. PlayerKinds \subseteq K /\ {<<"players", "number">>} \subseteq K
    OBVIOUS
  <2>3. /\ PlayerMarks = a \o b /\ Bears(a, S.players[i].key)
        /\ Paints(a, PlayerKinds, Named) /\ Paints(b, {<<"players", "number">>}, Named)
    BY <1>8, PlayersPaint
  <2> HIDE DEF K, a, b
  <2>4. Paints(a, K, Named) /\ Paints(b, K, Named)
    BY <2>2, <2>3, PaintsMore
  <2>6. \A e : Bears(a, e) => Bears(a \o b, e)
    BY <2>4, PaintsJoin
  <2>5. Bears(a \o b, S.players[i].key)
    BY <2>3, <2>6
  <2> QED
    BY <1>2, <2>1, <2>3, <2>5
<1> QED
  BY <1>3, <1>4, <1>5, <1>6, <1>7, <1>8

LEMMA NothingVanishesHolds ==
  ASSUME scene \in {None} \cup 1..Len(Scenes), IsList(ruler)
  PROVE  NothingVanishes
<1> SUFFICES ASSUME scene # None PROVE NothingVanishes
  BY DEF NothingVanishes, Painted
<1>1. scene \in 1..Len(Scenes) /\ Painted = {Paint}
  BY DEF Painted
<1> DEFINE drawn == {Paint[i].of : i \in 1..Len(Paint)}
<1>2. \A e : Bears(Paint, e) => e \in drawn
  BY DEF Bears
<1> HIDE DEF drawn
<1>3. /\ layers["vehicles"] => \A i \in 1..Len(S.vehicles) : S.vehicles[i].placed => S.vehicles[i].id \in drawn
      /\ layers["deployables"] => \A i \in 1..Len(S.deployables) : S.deployables[i].placed => S.deployables[i].id \in drawn
      /\ layers["rallies"] => \A i \in 1..Len(S.rallies) : S.rallies[i].placed => S.rallies[i].id \in drawn
      /\ layers["spawners"] => \A i \in 1..Len(S.spawners) : S.spawners[i].placed => S.spawners[i].id \in drawn
      /\ layers["markers"] =>
           \A i \in 1..Len(S.markers) : S.markers[i].placed /\ NoDrag(S.markers[i]) => S.markers[i].id \in drawn
  BY <1>1, <1>2, PaintBears
<1> QED
  BY <1>1, <1>3 DEF NothingVanishes, drawn, NoDrag

LEMMA ClickableHolds ==
  ASSUME scene \in {None} \cup 1..Len(Scenes), IsList(ruler)
  PROVE  ClickableIsDrawn
<1> SUFFICES ASSUME scene # None PROVE ClickableIsDrawn
  BY DEF ClickableIsDrawn, Painted
<1>1. scene \in 1..Len(Scenes) /\ Painted = {Paint}
  BY DEF Painted
<1> DEFINE drawn == {Paint[i].of : i \in 1..Len(Paint)} \ {None}
           standing == {S.players[i].key : i \in 1..Len(S.players)}
<1>2. drawn \subseteq Hittable
  BY <1>1, PaintIs DEF Paints, Named
<1>3. ASSUME layers["players"], NEW e \in Hittable \cap standing PROVE e \in drawn
  <2>1. e # None /\ e \notin Things
    <3>1. PICK i \in 1..Len(S.players) : e = S.players[i].key
      BY <1>3
    <3>2. e # None /\ \A kind \in {"vehicles", "deployables", "markers", "rallies", "spawners"} :
                        \A j \in 1..Len(S[kind]) : e # S[kind][j].id
      BY <1>1, <3>1, SceneIs
    <3>3. /\ \A j \in 1..Len(S["vehicles"]) : e # S["vehicles"][j].id
          /\ \A j \in 1..Len(S["deployables"]) : e # S["deployables"][j].id
          /\ \A j \in 1..Len(S["markers"]) : e # S["markers"][j].id
          /\ \A j \in 1..Len(S["rallies"]) : e # S["rallies"][j].id
          /\ \A j \in 1..Len(S["spawners"]) : e # S["spawners"][j].id
      BY <3>2
    <3> QED
      BY <3>2, <3>3 DEF Things, IdsOf
  <2>2. PICK i \in 1..Len(S.players) : e = S.players[i].key /\ OnFoot(S.players[i])
    BY <1>3, <2>1 DEF Hittable, OnFoot, IsAdminCam
  <2>3. Bears(Paint, e)
    BY <1>1, <1>3, <2>2, PaintBears
  <2> QED
    BY <2>1, <2>3 DEF Bears
<1>4. layers["players"] => drawn \cap standing = Hittable \cap standing
  BY <1>2, <1>3
<1> QED
  BY <1>1, <1>2, <1>4 DEF ClickableIsDrawn

\* A layer the user switched is stored as he left it, where it can be.
Remembered(k) ==
  chosen[k] # None =>
    /\ layers[k] = chosen[k] /\ chosen[k] \in BOOLEAN
    /\ stored # None /\ k \in DOMAIN stored /\ stored[k] = chosen[k]

PaintInv ==
  /\ PaintTypeOK /\ IsList(ruler) /\ ruler \in {<< >>} \cup Rulers
  /\ chosen = [k \in LayerKeys |-> chosen[k]]
  /\ storageOk => \A k \in LayerKeys : Remembered(k)

LEMMA LoadedLayers ==
  ASSUME NEW raw
  PROVE  /\ LoadLayers(raw) \in [LayerKeys -> BOOLEAN]
         /\ \A k \in LayerKeys : raw # None /\ k \in DOMAIN raw /\ raw[k] \in BOOLEAN => LoadLayers(raw)[k] = raw[k]
<1>1. \A k \in LayerKeys : DefaultLayers[k] \in BOOLEAN
  BY DEF DefaultLayers
<1> HIDE DEF LayerKeys, DefaultLayers
<1> QED
  BY <1>1 DEF LoadLayers

LEMMA SceneStarts == PaintInit \/ PaintOff => PaintInv
<1>1. Len(Scenes) \in Nat /\ 1 \in 1..Len(Scenes) /\ MaxClicks \in Nat
  <2>1. Len(Scenes) \in Nat /\ Scenes = [i \in 1..Len(Scenes) |-> Scenes[i]] /\ Scenes # << >> /\ MaxClicks \in Nat
    BY PaintAssumption, ListIs
  <2>2. Len(Scenes) # 0
    BY <2>1
  <2> QED
    BY <2>1, <2>2
<1>2. IsList(<< >>)
  <2>1. << >> \in Seq({})
    OBVIOUS
  <2> QED
    BY <2>1, ListIs
<1>3. ASSUME PaintInit PROVE PaintInv
  <2>1. PaintTypeOK
    BY <1>1, <1>3, LoadedLayers DEF PaintInit, PaintTypeOK
  <2>2. IsList(ruler) /\ ruler \in {<< >>} \cup Rulers
    BY <1>2, <1>3 DEF PaintInit
  <2> HIDE DEF LayerKeys
  <2>3. chosen = [k \in LayerKeys |-> chosen[k]]
    BY <1>3 DEF PaintInit
  <2>4. ASSUME NEW k \in LayerKeys PROVE Remembered(k)
    <3>1. chosen[k] # None => stored # None /\ k \in DOMAIN stored /\ stored[k] \in BOOLEAN /\ chosen[k] = stored[k]
      BY <1>3 DEF PaintInit
    <3>2. layers = LoadLayers(stored)
      BY <1>3 DEF PaintInit
    <3> QED
      BY <3>1, <3>2, LoadedLayers DEF Remembered
  <2> QED
    BY <2>1, <2>2, <2>3, <2>4 DEF PaintInv
<1>4. ASSUME PaintOff PROVE PaintInv
  <2>1. DefaultLayers \in [LayerKeys -> BOOLEAN]
    BY DEF DefaultLayers
  <2> HIDE DEF LayerKeys
  <2> QED
    BY <1>1, <1>2, <1>4, <2>1 DEF PaintOff, PaintInv, PaintTypeOK
<1> QED
  BY <1>3, <1>4

LEMMA SceneKeeps == PaintInv /\ [PaintNext]_paintVars => PaintInv'
<1> SUFFICES ASSUME PaintInv, [PaintNext]_paintVars PROVE PaintInv'
  OBVIOUS
<1> USE DEF PaintInv, PaintTypeOK, Remembered
<1> HIDE DEF LayerKeys
<1>1. CASE UNCHANGED paintVars
  BY <1>1 DEF paintVars
<1>2. MaxClicks \in Nat /\ Len(Scenes) \in Nat /\ None \notin [LayerKeys -> BOOLEAN]
      /\ \A path \in Rulers : IsList(path)
  BY PaintAssumption, ListIs
<1>3. ASSUME scene # None, NEW k \in LayerKeys, ToggleLayer(k) PROVE PaintInv'
  <2>1. /\ layers' = [layers EXCEPT ![k] = ~@] /\ chosen' = [chosen EXCEPT ![k] = layers'[k]]
        /\ clicks < MaxClicks /\ clicks' = clicks + 1 /\ UNCHANGED <<scene, slow, storageOk, menu, followKey, ruler>>
        /\ storageOk => stored' = layers'
    BY <1>3 DEF ToggleLayer, Click, SaveLayers
  <2>2. layers \in [LayerKeys -> BOOLEAN] /\ clicks \in 0..MaxClicks
    OBVIOUS
  <2>3. layers' \in [LayerKeys -> BOOLEAN] /\ clicks' \in 0..MaxClicks
    BY <1>2, <2>1, <2>2
  <2>4. chosen' = [j \in LayerKeys |-> chosen'[j]]
    BY <2>1
  <2>5. ASSUME storageOk', NEW j \in LayerKeys PROVE Remembered(j)'
    <3>1. stored' = layers' /\ storageOk
      BY <2>1, <2>5
    <3>2. stored' # None /\ j \in DOMAIN stored' /\ layers'[j] \in BOOLEAN
      BY <1>2, <2>3, <3>1
    <3>3. CASE j = k
      <4>1. chosen'[j] = layers'[j]
        BY <2>1, <3>3
      <4> QED
        BY <3>1, <3>2, <4>1
    <3>4. CASE j # k
      <4>1. chosen'[j] = chosen[j] /\ layers'[j] = layers[j]
        BY <2>1, <2>2, <3>4
      <4> QED
        BY <3>1, <3>2, <4>1
    <3> QED
      BY <3>3, <3>4
  <2> QED
    BY <2>1, <2>3, <2>4, <2>5
<1>4. ASSUME OpenSettings PROVE PaintInv'
  BY <1>4 DEF OpenSettings
<1>5. ASSUME NEW key, FollowPlayer(key) PROVE PaintInv'
  BY <1>2, <1>5 DEF FollowPlayer, Click
<1>6. ASSUME NEW path \in Rulers, Measure(path) PROVE PaintInv'
  BY <1>2, <1>6 DEF Measure, Click
<1>7. ASSUME NEW picture, PictureLoads(picture) PROVE PaintInv'
  BY <1>7 DEF PictureLoads
<1>8. ASSUME scene # None, NextScene PROVE PaintInv'
  BY <1>2, <1>8 DEF NextScene
<1>9. ASSUME Reload PROVE PaintInv'
  <2>1. /\ layers' = LoadLayers(IF storageOk THEN stored ELSE None) /\ ruler' = << >> /\ slow' = Slow
        /\ clicks < MaxClicks /\ clicks' = clicks + 1 /\ UNCHANGED <<scene, stored, storageOk, chosen>>
    BY <1>9 DEF Reload, Click
  <2>2. IsList(<< >>)
    <3>1. << >> \in Seq({})
      OBVIOUS
    <3> QED
      BY <3>1, ListIs
  <2>3. layers' \in [LayerKeys -> BOOLEAN] /\ clicks' \in 0..MaxClicks
    BY <1>2, <2>1, LoadedLayers
  <2>4. ASSUME storageOk', NEW k \in LayerKeys PROVE Remembered(k)'
    <3>1. storageOk /\ layers' = LoadLayers(stored) /\ Remembered(k)
      BY <2>1, <2>4
    <3>2. chosen[k] # None => layers'[k] = stored[k]
      BY <3>1, LoadedLayers
    <3> QED
      BY <2>1, <3>1, <3>2
  <2> QED
    BY <2>1, <2>2, <2>3, <2>4
<1> QED
  BY <1>1, <1>3, <1>4, <1>5, <1>6, <1>7, <1>8, <1>9 DEF PaintNext

LEMMA PaintParts ==
  /\ ScreenInit => PaintInit \/ PaintOff
  /\ [ScreenNext]_screenVars => [PaintNext]_paintVars
<1>1. ASSUME UNCHANGED screenVars PROVE [PaintNext]_paintVars
  BY <1>1 DEF screenVars
<1>2. ASSUME ScreenNext PROVE [PaintNext]_paintVars
  BY <1>2 DEF ScreenNext
<1>3. ScreenInit => PaintInit \/ PaintOff
  BY DEF ScreenInit
<1> QED
  BY <1>1, <1>2, <1>3

(* Whatever is on the map, whichever pictures are loaded and layers shown: *)
(* numbers lie over badges and badges over the ground, everything shown    *)
(* leaves a mark and can be clicked, and the layers stay as the user left  *)
(* them (renderScene, hitTest, saveLayers).                                *)
THEOREM ScenePainted == ScreenSpec => []SceneAgrees
<1>1. ScreenInit => PaintInv
  BY PaintParts, SceneStarts
<1>2. PaintInv /\ [ScreenNext]_screenVars => PaintInv'
  BY PaintParts, SceneKeeps
<1>3. PaintInv => SceneAgrees
  <2> SUFFICES ASSUME PaintInv PROVE SceneAgrees
    OBVIOUS
  <2>1. PaintTypeOK /\ scene \in {None} \cup 1..Len(Scenes) /\ IsList(ruler)
    BY DEF PaintInv, PaintTypeOK
  <2>2. UnderAndOver /\ NothingVanishes /\ ClickableIsDrawn
    BY <2>1, UnderAndOverHolds, NothingVanishesHolds, ClickableHolds
  <2>3. ChoiceKept
    BY DEF PaintInv, Remembered, ChoiceKept
  <2> QED
    BY <2>1, <2>2, <2>3 DEF SceneAgrees
<1> QED
  BY <1>1, <1>2, <1>3, PTL DEF ScreenSpec

-----------------------------------------------------------------------------
(* The rosters: sorting *)

(* The pairs tell some elements apart, and alike those they do not.        *)
WeakOrder(D, R) ==
  /\ \A i, j \in D : <<i, j>> \in R => <<j, i>> \notin R
  /\ \A i, j, k \in D : <<i, k>> \in R => <<i, j>> \in R \/ <<j, k>> \in R

UpIn(D, R, i) == {j \in D : <<j, i>> \in R \/ (j <= i /\ <<i, j>> \notin R)}
PlaceBy(D, R, i) == Cardinality(UpIn(D, R, i))

LEMMA SortedPlaces ==
  ASSUME NEW D \in SUBSET Int, IsFiniteSet(D), NEW R, WeakOrder(D, R)
  PROVE  /\ Cardinality(D) \in Nat
         /\ \A i \in D : PlaceBy(D, R, i) \in 1..Cardinality(D)
         /\ \A i, j \in D : i # j /\ i \in UpIn(D, R, j) => PlaceBy(D, R, i) < PlaceBy(D, R, j)
         /\ \A i, j \in D : i \in UpIn(D, R, j) \/ j \in UpIn(D, R, i)
<1>1. /\ Cardinality(D) \in Nat /\ \A i \in D : i \in Int
      /\ \A i, j \in D : <<i, j>> \in R => <<j, i>> \notin R
      /\ \A i, j, k \in D : <<i, k>> \in R => <<i, j>> \in R \/ <<j, k>> \in R
  BY FS_CardinalityType DEF WeakOrder
<1>2. ASSUME NEW i \in D
      PROVE  /\ i \in UpIn(D, R, i) /\ IsFiniteSet(UpIn(D, R, i))
             /\ PlaceBy(D, R, i) \in 1..Cardinality(D)
  <2>1. UpIn(D, R, i) \in SUBSET D /\ i \in UpIn(D, R, i)
    BY <1>1 DEF UpIn
  <2>2. IsFiniteSet(UpIn(D, R, i)) /\ PlaceBy(D, R, i) <= Cardinality(D)
    BY <1>1, <2>1, FS_Subset DEF PlaceBy
  <2>3. PlaceBy(D, R, i) \in Nat /\ PlaceBy(D, R, i) # 0
    BY <2>1, <2>2, FS_CardinalityType, FS_EmptySet DEF PlaceBy
  <2> QED
    BY <1>1, <2>1, <2>2, <2>3
<1>3. ASSUME NEW i \in D, NEW j \in D, i # j, i \in UpIn(D, R, j)
      PROVE  PlaceBy(D, R, i) < PlaceBy(D, R, j)
  <2>1. j \notin UpIn(D, R, i)
    BY <1>1, <1>3 DEF UpIn
  <2>2. UpIn(D, R, i) \in SUBSET UpIn(D, R, j)
    <3> SUFFICES ASSUME NEW x \in D, <<x, i>> \in R \/ (x <= i /\ <<i, x>> \notin R)
                 PROVE  <<x, j>> \in R \/ (x <= j /\ <<j, x>> \notin R)
      BY DEF UpIn
    <3>1. <<i, j>> \in R \/ (i <= j /\ <<j, i>> \notin R)
      BY <1>3 DEF UpIn
    <3>2. x \in Int /\ i \in Int /\ j \in Int
      BY <1>1
    <3>3. <<j, x>> \in R => <<j, i>> \in R \/ <<i, x>> \in R
      BY <1>1
    <3>4. <<x, i>> \in R => <<x, j>> \in R \/ <<j, i>> \in R
      BY <1>1
    <3>5. <<i, j>> \in R => <<i, x>> \in R \/ <<x, j>> \in R
      BY <1>1
    <3>6. (<<i, j>> \in R => <<j, i>> \notin R) /\ (<<x, i>> \in R => <<i, x>> \notin R)
      BY <1>1
    <3>7. x <= i /\ i <= j => x <= j
      BY <3>2
    <3> QED
      BY <3>1, <3>3, <3>4, <3>5, <3>6, <3>7
  <2>3. /\ PlaceBy(D, R, i) <= PlaceBy(D, R, j)
        /\ PlaceBy(D, R, i) = PlaceBy(D, R, j) => UpIn(D, R, i) = UpIn(D, R, j)
    BY <1>2, <2>2, FS_Subset DEF PlaceBy
  <2>4. PlaceBy(D, R, i) # PlaceBy(D, R, j)
    BY <1>2, <2>1, <2>3
  <2>5. PlaceBy(D, R, i) \in Int /\ PlaceBy(D, R, j) \in Int
    BY <1>1, <1>2
  <2> QED
    BY <2>3, <2>4, <2>5
<1>4. \A i, j \in D : i \in UpIn(D, R, j) \/ j \in UpIn(D, R, i)
  <2> SUFFICES ASSUME NEW i \in D, NEW j \in D PROVE i \in UpIn(D, R, j) \/ j \in UpIn(D, R, i)
    OBVIOUS
  <2>1. i \in Int /\ j \in Int
    BY <1>1
  <2>2. i <= j \/ j <= i
    BY <2>1
  <2> QED
    BY <2>2 DEF UpIn
<1> QED
  BY <1>1, <1>2, <1>3, <1>4

\* Sorting keeps every element once, and puts none after one it comes before.
LEMMA SortedCovers ==
  ASSUME NEW D \in SUBSET Int, IsFiniteSet(D), NEW R, WeakOrder(D, R)
  PROVE  /\ Covers(Sorted(D, R), D)
         /\ \A k, l \in 1..Len(Sorted(D, R)) : k < l => <<Sorted(D, R)[l], Sorted(D, R)[k]>> \notin R
<1> DEFINE c == Cardinality(D)
           q == Sorted(D, R)
           place == [i \in D |-> PlaceBy(D, R, i)]
<1>2. q = [k \in 1..c |-> CHOOSE i \in D : PlaceBy(D, R, i) = k]
  BY Zenon DEF Sorted, PlaceBy, UpIn
<1>4. /\ c \in Nat /\ \A i \in D : PlaceBy(D, R, i) \in 1..c
      /\ \A i, j \in D : i # j /\ i \in UpIn(D, R, j) => PlaceBy(D, R, i) < PlaceBy(D, R, j)
      /\ \A i, j \in D : i \in UpIn(D, R, j) \/ j \in UpIn(D, R, i)
  BY SortedPlaces
<1> HIDE DEF q
<1>6. \A i, j \in D : PlaceBy(D, R, i) = PlaceBy(D, R, j) => i = j
  <2> SUFFICES ASSUME NEW i \in D, NEW j \in D, PlaceBy(D, R, i) = PlaceBy(D, R, j), i # j PROVE FALSE
    OBVIOUS
  <2>2. PlaceBy(D, R, i) < PlaceBy(D, R, j) \/ PlaceBy(D, R, j) < PlaceBy(D, R, i)
    BY <1>4
  <2>3. PlaceBy(D, R, i) \in Int /\ PlaceBy(D, R, j) \in Int
    BY <1>4
  <2> QED
    BY <2>2, <2>3
<1>7. place \in Injection(D, 1..c)
  <2>1. place \in [D -> 1..c]
    BY <1>4
  <2> QED
    BY <1>6, <2>1 DEF Injection, IsInjective
<1>8. Cardinality(1..c) = c /\ IsFiniteSet(1..c)
  BY <1>4, FS_Interval
<1>9. place \in Surjection(D, 1..c)
  BY <1>4, <1>7, <1>8, FS_Injection
<1>10. \A k \in 1..c : \E i \in D : PlaceBy(D, R, i) = k
  BY <1>9 DEF Surjection
<1>11. \A k \in 1..c : q[k] \in D /\ PlaceBy(D, R, q[k]) = k
  <2> SUFFICES ASSUME NEW k \in 1..c PROVE q[k] \in D /\ PlaceBy(D, R, q[k]) = k
    OBVIOUS
  <2>1. q[k] = CHOOSE i \in D : PlaceBy(D, R, i) = k
    BY <1>2
  <2> QED
    BY <1>10, <2>1
<1>12. Len(q) = c /\ q = [k \in 1..c |-> q[k]]
  <2> DEFINE f(k) == CHOOSE i \in D : PlaceBy(D, R, i) = k
  <2>1. q = [k \in 1..c |-> f(k)]
    BY <1>2
  <2> HIDE DEF f, c
  <2> QED
    BY <1>4, <2>1
<1>13. \A x \in D : \E k \in 1..c : q[k] = x
  <2> SUFFICES ASSUME NEW x \in D PROVE \E k \in 1..c : q[k] = x
    OBVIOUS
  <2>1. PlaceBy(D, R, x) \in 1..c
    BY <1>4
  <2>2. q[PlaceBy(D, R, x)] \in D /\ PlaceBy(D, R, q[PlaceBy(D, R, x)]) = PlaceBy(D, R, x)
    BY <1>11, <2>1
  <2> QED
    BY <1>6, <2>1, <2>2
<1>14. ASSUME NEW k \in 1..c, NEW l \in 1..c, k < l
       PROVE  <<q[l], q[k]>> \notin R
  <2> DEFINE x == q[k]
             y == q[l]
  <2>1. x \in D /\ y \in D /\ PlaceBy(D, R, x) = k /\ PlaceBy(D, R, y) = l
    BY <1>11
  <2> HIDE DEF x, y
  <2>2. x # y /\ k \in Int /\ l \in Int
    BY <1>4, <1>14, <2>1
  <2>3. y \notin UpIn(D, R, x)
    BY <1>4, <1>14, <2>1, <2>2
  <2>4. <<y, x>> \notin R
    BY <2>1, <2>3 DEF UpIn
  <2> QED
    BY <2>4 DEF x, y
<1> HIDE DEF c
<1>15. Covers(q, D)
  BY <1>4, <1>11, <1>12, <1>13 DEF Covers, c
<1>16. \A k, l \in 1..Len(q) : k < l => <<q[l], q[k]>> \notin R
  BY <1>12, <1>14
<1> QED
  BY <1>15, <1>16 DEF q

\* What covers a set has each element once.
LEMMA CoversOnce ==
  ASSUME NEW s, NEW A, Covers(s, A), NEW k \in 1..Len(s), NEW l \in 1..Len(s), s[k] = s[l]
  PROVE  k = l
<1> DEFINE c == Cardinality(A)
<1>1. c \in Nat /\ Len(s) = c /\ s \in [1..c -> A] /\ \A x \in A : \E m \in 1..c : s[m] = x
  BY DEF Covers
<1>2. s \in Surjection(1..c, A)
  BY <1>1 DEF Surjection
<1>3. IsFiniteSet(1..c) /\ Cardinality(1..c) = c
  BY <1>1, FS_Interval
<1>4. s \in Injection(1..c, A)
  BY <1>2, <1>3, FS_SurjSameCardinalityImpliesInj
<1> QED
  BY <1>1, <1>4 DEF Injection, IsInjective

LEMMA CoversNone == Covers(<< >>, {})
<1>1. IsFiniteSet({}) /\ Cardinality({}) = 0
  BY FS_EmptySet
<1> QED
  BY <1>1 DEF Covers

\* Covers of disjoint sets, flattened, cover their union.
Partition(ss, G) ==
  /\ \A i \in 1..Len(ss) : Covers(ss[i], G[i])
  /\ \A i, j \in 1..Len(ss) : i # j => G[i] \cap G[j] = {}

LEMMA FlattenCovers ==
  ASSUME NEW X, NEW ss \in Seq(Seq(X)), NEW G, Partition(ss, G)
  PROVE  Covers(FlattenSeq(ss), UNION {G[i] : i \in 1..Len(ss)})
<1> USE DEF Partition
<1> DEFINE n == Len(ss)
           U(k) == UNION {G[i] : i \in 1..k}
<1>1. n \in Nat
  OBVIOUS
<1>2. CASE n = 0
  <2>1. ss = << >>
    BY <1>2
  <2>2. FlattenSeq(ss) = << >>
    BY <1>2, <2>1 DEF FlattenSeq
  <2>3. U(n) = {}
    BY <1>2
  <2> QED
    BY <2>2, <2>3, CoversNone
<1>3. CASE n # 0
  <2>1. PICK f : /\ FlattenSeq(ss) = f[n] /\ f[1] = ss[1]
                 /\ \A i \in 2..n : f[i] = f[i - 1] \o ss[i]
                 /\ \A i \in 1..n : f[i] \in Seq(X)
    BY <1>3, FlattenGoes
  <2>2. /\ \A i \in 1..n : Covers(ss[i], G[i])
        /\ \A i, j \in 1..n : i # j => G[i] \cap G[j] = {}
    OBVIOUS
  <2> HIDE DEF n
  <2> DEFINE T == {k \in 1..n : ~Covers(f[k], U(k))}
  <2>3. T = {}
    <3> SUFFICES ASSUME T # {} PROVE FALSE
      OBVIOUS
    <3>0. T \in SUBSET Nat
      BY <1>1
    <3>1. PICK m \in T : \A k \in T : m <= k
      <4> HIDE DEF T
      <4> QED
        BY <3>0, LeastNat
    <3>2. m \in 1..n /\ ~Covers(f[m], U(m))
      OBVIOUS
    <3>3. CASE m = 1
      <4>1. U(1) = G[1]
        OBVIOUS
      <4>2. 1 \in 1..n /\ ~Covers(f[1], U(1))
        BY <3>2, <3>3
      <4>3. Covers(ss[1], G[1]) /\ f[1] = ss[1]
        BY <2>1, <2>2, <4>2
      <4> HIDE DEF U
      <4> QED
        BY <4>1, <4>2, <4>3
    <3>4. CASE m # 1
      <4>1. m - 1 \in 1..n /\ m \in 2..n
        BY <1>1, <3>2, <3>4
      <4>7. m - 1 \notin T
        <5> SUFFICES ASSUME m - 1 \in T PROVE FALSE
          OBVIOUS
        <5> HIDE DEF T
        <5>1. m <= m - 1
          BY <3>1
        <5>2. m \in Int
          BY <3>0
        <5> QED
          BY <5>1, <5>2
      <4>2. Covers(f[m - 1], U(m - 1)) /\ Covers(ss[m], G[m])
        BY <2>2, <3>2, <4>1, <4>7
      <4>3. U(m) = U(m - 1) \cup G[m]
        <5>1. 1..m = (1..m - 1) \cup {m}
          BY <3>2
        <5> QED
          BY <5>1
      <4>4. U(m - 1) \cap G[m] = {}
        <5>1. \A i \in 1..m - 1 : i \in 1..n /\ i # m
          BY <1>1, <3>2
        <5> QED
          BY <2>2, <3>2, <5>1
      <4> HIDE DEF U
      <4>5. Covers(f[m - 1] \o ss[m], U(m - 1) \cup G[m])
        BY <4>2, <4>4, CoversJoin
      <4>6. f[m] = f[m - 1] \o ss[m]
        BY <2>1, <4>1
      <4> QED
        BY <3>2, <4>3, <4>5, <4>6
    <3> QED
      BY <3>3, <3>4
  <2>4. n \in 1..n
    BY <1>1, <1>3
  <2>5. Covers(f[n], U(n))
    BY <2>3, <2>4
  <2> QED
    BY <2>1, <2>5 DEF n
<1> QED
  BY <1>2, <1>3

-----------------------------------------------------------------------------
(* The rosters: totals *)

LEMMA SumGoes ==
  ASSUME NEW s, Len(s) \in Nat, \A i \in 1..Len(s) : s[i] \in Int
  PROVE  \E g \in [0..Len(s) -> Int] :
           /\ g[0] = 0 /\ \A i \in 1..Len(s) : g[i] = g[i - 1] + s[i]
           /\ SumSeqOf(s) = g[Len(s)]
<1> DEFINE n == Len(s)
           Is(g) == g = [i \in 0..n |-> IF i = 0 THEN 0 ELSE g[i - 1] + s[i]]
           sum == CHOOSE g : Is(g)
<1>1. Is(sum)
  BY SumExists
<1>2. SumSeqOf(s) = sum[n]
  BY DEF SumSeqOf
<1> HIDE DEF sum, n
<1>3. n \in Nat /\ \A i \in 1..n : s[i] \in Int
  BY DEF n
<1>4. \A i \in 0..n : sum[i] = IF i = 0 THEN 0 ELSE sum[i - 1] + s[i]
  BY <1>1
<1>5. DOMAIN sum = 0..n /\ sum = [i \in 0..n |-> sum[i]]
  BY <1>1
<1> DEFINE T == {i \in 0..n : sum[i] \notin Int}
<1>6. T = {}
  <2> SUFFICES ASSUME T # {} PROVE FALSE
    OBVIOUS
  <2>1. PICK m \in T : \A k \in T : m <= k
    <3>1. T \in SUBSET Nat
      BY <1>3
    <3> QED
      BY <3>1, LeastNat
  <2>2. m \in 0..n /\ sum[m] \notin Int
    OBVIOUS
  <2>3. m # 0
    BY <1>3, <1>4, <2>2
  <2>4. m - 1 \in 0..n /\ m \in 1..n /\ m - 1 \notin T
    BY <1>3, <2>1, <2>2, <2>3
  <2>5. sum[m - 1] \in Int /\ s[m] \in Int
    BY <1>3, <2>4
  <2>6. sum[m] = sum[m - 1] + s[m]
    BY <1>4, <2>2, <2>3
  <2> QED
    BY <2>2, <2>5, <2>6
<1>7. sum \in [0..n -> Int]
  BY <1>5, <1>6
<1>8. sum[0] = 0 /\ \A i \in 1..n : sum[i] = sum[i - 1] + s[i]
  BY <1>3, <1>4
<1> QED
  BY <1>2, <1>7, <1>8 DEF n

(* A running sum that goes from 0 by these steps.                          *)
Running(h, s, n) ==
  h[0] = 0 /\ \A i \in 1..n : s[i] \in Int /\ h[i] = h[i - 1] + s[i]

\* There is no other than the sum of the sequence.
LEMMA SumRuns ==
  ASSUME NEW s, NEW n \in Nat, Len(s) = n, NEW h, Running(h, s, n)
  PROVE  SumSeqOf(s) = h[n]
<1>0. h[0] = 0 /\ (\A i \in 1..n : s[i] \in Int) /\ \A i \in 1..n : h[i] = h[i - 1] + s[i]
  BY DEF Running
<1>1. PICK g \in [0..n -> Int] :
        /\ g[0] = 0 /\ \A i \in 1..n : g[i] = g[i - 1] + s[i]
        /\ SumSeqOf(s) = g[n]
  BY <1>0, SumGoes
<1> DEFINE T == {i \in 0..n : g[i] # h[i]}
<1>2. T = {}
  <2> SUFFICES ASSUME T # {} PROVE FALSE
    OBVIOUS
  <2>1. PICK m \in T : \A k \in T : m <= k
    <3>1. T \in SUBSET Nat
      OBVIOUS
    <3> QED
      BY <3>1, LeastNat
  <2>2. m \in 0..n /\ g[m] # h[m]
    OBVIOUS
  <2>3. m # 0
    BY <1>0, <1>1, <2>2
  <2>4. m - 1 \in 0..n /\ m \in 1..n /\ m - 1 \notin T
    BY <2>1, <2>2, <2>3
  <2>5. g[m - 1] = h[m - 1]
    BY <2>4
  <2>6. g[m] = g[m - 1] + s[m] /\ h[m] = h[m - 1] + s[m]
    BY <1>0, <1>1, <2>4
  <2> QED
    BY <1>0, <2>2, <2>4, <2>5, <2>6
<1>3. n \in 0..n
  OBVIOUS
<1> QED
  BY <1>1, <1>2, <1>3

(* The total of the entries at these places.                               *)
At(w, D) == [i \in 1..Len(w) |-> IF i \in D THEN w[i] ELSE 0]
TotalAt(w, D) == SumSeqOf(At(w, D))

LEMMA AtIs ==
  ASSUME NEW w \in Seq(Int), NEW D
  PROVE  /\ Len(w) \in Nat /\ Len(At(w, D)) = Len(w)
         /\ \A i \in 1..Len(w) : At(w, D)[i] = (IF i \in D THEN w[i] ELSE 0) /\ At(w, D)[i] \in Int
<1> DEFINE n == Len(w)
<1>1. n \in Nat /\ \A i \in 1..n : w[i] \in Int
  OBVIOUS
<1> HIDE DEF n
<1>2. At(w, D) = [i \in 1..n |-> IF i \in D THEN w[i] ELSE 0]
  BY DEF At, n
<1>3. Len(At(w, D)) = n /\ \A i \in 1..n : At(w, D)[i] = (IF i \in D THEN w[i] ELSE 0) /\ At(w, D)[i] \in Int
  BY <1>1, <1>2
<1> QED
  BY <1>1, <1>3 DEF n

LEMMA TotalNone ==
  ASSUME NEW w \in Seq(Int)
  PROVE  TotalAt(w, {}) = 0
<1> DEFINE n == Len(w)
           h == [i \in 0..n |-> 0]
<1>1. n \in Nat /\ Len(At(w, {})) = n /\ \A i \in 1..n : At(w, {})[i] = 0
  BY AtIs
<1> HIDE DEF n
<1>2. h[0] = 0 /\ h[n] = 0 /\ \A i \in 1..n : h[i] = h[i - 1] + At(w, {})[i]
  BY <1>1
<1> HIDE DEF h
<1>3. \A i \in 1..n : At(w, {})[i] \in Int
  BY <1>1
<1>4. Running(h, At(w, {}), n)
  BY <1>2, <1>3 DEF Running
<1>5. SumSeqOf(At(w, {})) = h[n]
  BY <1>1, <1>4, SumRuns
<1> QED
  BY <1>2, <1>5 DEF TotalAt

LEMMA TotalJoins ==
  ASSUME NEW w \in Seq(Int), NEW A, NEW B, A \cap B = {}
  PROVE  /\ TotalAt(w, A) \in Int /\ TotalAt(w, B) \in Int
         /\ TotalAt(w, A \cup B) = TotalAt(w, A) + TotalAt(w, B)
<1> DEFINE n == Len(w)
           a == At(w, A)
           b == At(w, B)
           c == At(w, A \cup B)
<1>1. /\ n \in Nat /\ Len(a) = n /\ Len(b) = n /\ Len(c) = n
      /\ \A i \in 1..n : a[i] \in Int /\ a[i] = (IF i \in A THEN w[i] ELSE 0)
      /\ \A i \in 1..n : b[i] \in Int /\ b[i] = (IF i \in B THEN w[i] ELSE 0)
      /\ \A i \in 1..n : c[i] \in Int /\ c[i] = (IF i \in A \cup B THEN w[i] ELSE 0)
  BY AtIs
<1>2. \A i \in 1..n : w[i] \in Int
  OBVIOUS
<1> HIDE DEF a, b, c, n
<1>3. \A i \in 1..n : c[i] = a[i] + b[i]
  <2> SUFFICES ASSUME NEW i \in 1..n PROVE c[i] = a[i] + b[i]
    OBVIOUS
  <2>1. w[i] \in Int /\ ~(i \in A /\ i \in B)
    BY <1>2
  <2> QED
    BY <1>1, <2>1
<1>4. PICK f \in [0..n -> Int] :
        f[0] = 0 /\ (\A i \in 1..n : f[i] = f[i - 1] + a[i]) /\ SumSeqOf(a) = f[n]
  BY <1>1, SumGoes
<1>5. PICK g \in [0..n -> Int] :
        g[0] = 0 /\ (\A i \in 1..n : g[i] = g[i - 1] + b[i]) /\ SumSeqOf(b) = g[n]
  BY <1>1, SumGoes
<1> DEFINE h == [i \in 0..n |-> f[i] + g[i]]
<1>6. h[0] = 0 /\ h[n] = f[n] + g[n] /\ \A i \in 1..n : h[i] = h[i - 1] + c[i]
  <2>1. 0 \in 0..n /\ n \in 0..n /\ \A i \in 1..n : i \in 0..n /\ i - 1 \in 0..n
    BY <1>1
  <2>2. h[0] = 0 /\ h[n] = f[n] + g[n]
    BY <1>4, <1>5, <2>1
  <2>3. ASSUME NEW i \in 1..n PROVE h[i] = h[i - 1] + c[i]
    <3>1. h[i] = f[i] + g[i] /\ h[i - 1] = f[i - 1] + g[i - 1]
      BY <2>1
    <3>2. f[i - 1] \in Int /\ g[i - 1] \in Int /\ a[i] \in Int /\ b[i] \in Int
      BY <1>1, <2>1
    <3>3. f[i] = f[i - 1] + a[i] /\ g[i] = g[i - 1] + b[i] /\ c[i] = a[i] + b[i]
      BY <1>3, <1>4, <1>5
    <3> QED
      BY <3>1, <3>2, <3>3
  <2> QED
    BY <2>2, <2>3
<1> HIDE DEF h
<1>7. SumSeqOf(c) = h[n]
  <2>1. Running(h, c, n)
    BY <1>1, <1>6 DEF Running
  <2> QED
    BY <1>1, <2>1, SumRuns
<1>8. f[n] \in Int /\ g[n] \in Int
  BY <1>1
<1> QED
  BY <1>4, <1>5, <1>6, <1>7, <1>8 DEF TotalAt, a, b, c

LEMMA TotalOne ==
  ASSUME NEW w \in Seq(Int), NEW x \in 1..Len(w)
  PROVE  TotalAt(w, {x}) = w[x]
<1> DEFINE n == Len(w)
           a == At(w, {x})
           h == [i \in 0..n |-> IF i < x THEN 0 ELSE w[x]]
<1>1. /\ n \in Nat /\ Len(a) = n
      /\ \A i \in 1..n : a[i] \in Int /\ a[i] = (IF i \in {x} THEN w[i] ELSE 0)
  BY AtIs
<1>2. x \in 1..n /\ w[x] \in Int
  OBVIOUS
<1> HIDE DEF a, n
<1>3. h[0] = 0 /\ h[n] = w[x] /\ \A i \in 1..n : h[i] = h[i - 1] + a[i]
  <2>1. h[0] = 0 /\ h[n] = w[x]
    BY <1>1, <1>2
  <2>2. ASSUME NEW i \in 1..n PROVE h[i] = h[i - 1] + a[i]
    <3>1. /\ h[i] = (IF i < x THEN 0 ELSE w[x]) /\ h[i - 1] = (IF i - 1 < x THEN 0 ELSE w[x])
          /\ a[i] = (IF i = x THEN w[x] ELSE 0)
      BY <1>1
    <3> QED
      BY <1>2, <3>1
  <2> QED
    BY <2>1, <2>2
<1> HIDE DEF h
<1>4. SumSeqOf(a) = h[n]
  <2>1. Running(h, a, n)
    BY <1>1, <1>3 DEF Running
  <2> QED
    BY <1>1, <2>1, SumRuns
<1> QED
  BY <1>3, <1>4 DEF TotalAt, a

\* Whatever the order, the entries of a set sum up to its total.
LEMMA CoverTotals ==
  ASSUME NEW w \in Seq(Int), NEW D \in SUBSET (1..Len(w)), NEW s, Covers(s, D)
  PROVE  SumSeqOf([k \in 1..Len(s) |-> w[s[k]]]) = TotalAt(w, D)
<1> DEFINE c == Len(s)
           t == [k \in 1..c |-> w[s[k]]]
           Begun(k) == {s[j] : j \in 1..k}
           h == [k \in 0..c |-> TotalAt(w, Begun(k))]
<1>1. /\ c \in Nat /\ (\A k \in 1..c : s[k] \in D) /\ (\A x \in D : \E k \in 1..c : s[k] = x)
      /\ \A k, l \in 1..c : s[k] = s[l] => k = l
  <2>1. c \in Nat /\ (\A k \in 1..c : s[k] \in D) /\ (\A x \in D : \E k \in 1..c : s[k] = x)
    BY DEF Covers
  <2>2. \A k, l \in 1..c : s[k] = s[l] => k = l
    BY CoversOnce
  <2> QED
    BY <2>1, <2>2
<1>2. \A k \in 1..c : s[k] \in 1..Len(w) /\ w[s[k]] \in Int
  <2>1. \A i \in 1..Len(w) : w[i] \in Int
    OBVIOUS
  <2>2. \A k \in 1..c : s[k] \in 1..Len(w)
    BY <1>1
  <2> QED
    BY <2>1, <2>2
<1> HIDE DEF c
<1>3. Len(t) = c /\ \A k \in 1..c : t[k] = w[s[k]] /\ t[k] \in Int
  BY <1>1, <1>2
<1>4. h[0] = 0 /\ h[c] = TotalAt(w, D)
  <2>1. 0 \in 0..c /\ c \in 0..c
    BY <1>1
  <2>2. Begun(0) = {}
    OBVIOUS
  <2>3. Begun(c) = D
    <3>1. \A x \in Begun(c) : x \in D
      BY <1>1
    <3>2. \A x \in D : x \in Begun(c)
      BY <1>1
    <3> QED
      BY <3>1, <3>2
  <2> HIDE DEF Begun
  <2>4. h[0] = TotalAt(w, Begun(0)) /\ h[c] = TotalAt(w, Begun(c))
    BY <2>1
  <2> QED
    BY <2>2, <2>3, <2>4, TotalNone
<1>5. ASSUME NEW k \in 1..c PROVE h[k] = h[k - 1] + t[k]
  <2>1. k \in 0..c /\ k - 1 \in 0..c /\ \A j \in 1..k - 1 : j \in 1..c /\ j # k
    BY <1>1
  <2>2. Begun(k) = Begun(k - 1) \cup {s[k]}
    <3>1. 1..k = (1..k - 1) \cup {k}
      BY <1>1
    <3> QED
      BY <3>1
  <2>3. Begun(k - 1) \cap {s[k]} = {}
    BY <1>1, <2>1
  <2> HIDE DEF Begun
  <2>4. h[k] = TotalAt(w, Begun(k)) /\ h[k - 1] = TotalAt(w, Begun(k - 1))
    BY <2>1
  <2>5. TotalAt(w, Begun(k - 1) \cup {s[k]}) = TotalAt(w, Begun(k - 1)) + TotalAt(w, {s[k]})
    BY <2>3, TotalJoins
  <2>6. TotalAt(w, {s[k]}) = w[s[k]]
    BY <1>2, TotalOne
  <2> QED
    BY <1>3, <2>2, <2>4, <2>5, <2>6
<1> HIDE DEF h, t
<1>6. SumSeqOf(t) = h[c]
  <2>1. Running(h, t, c)
    BY <1>3, <1>4, <1>5 DEF Running
  <2> QED
    BY <1>1, <1>3, <2>1, SumRuns
<1> QED
  BY <1>4, <1>6 DEF t, c

\* The totals of disjoint sets add up to the total of their union.
LEMMA UnionTotals ==
  ASSUME NEW w \in Seq(Int), NEW n \in Nat, NEW G,
         \A i, j \in 1..n : i # j => G[i] \cap G[j] = {}
  PROVE  SumSeqOf([k \in 1..n |-> TotalAt(w, G[k])]) = TotalAt(w, UNION {G[i] : i \in 1..n})
<1> DEFINE U(k) == UNION {G[i] : i \in 1..k}
           t == [k \in 1..n |-> TotalAt(w, G[k])]
           h == [k \in 0..n |-> TotalAt(w, U(k))]
<1>1. \A A : TotalAt(w, A) \in Int
  <2> SUFFICES ASSUME NEW A PROVE TotalAt(w, A) \in Int
    OBVIOUS
  <2>1. A \cap {} = {}
    OBVIOUS
  <2> QED
    BY <2>1, TotalJoins
<1>2. Len(t) = n /\ \A k \in 1..n : t[k] = TotalAt(w, G[k]) /\ t[k] \in Int
  BY <1>1
<1>3. h[0] = 0 /\ h[n] = TotalAt(w, U(n))
  <2>1. U(0) = {}
    OBVIOUS
  <2> HIDE DEF U
  <2>2. h[0] = TotalAt(w, U(0)) /\ h[n] = TotalAt(w, U(n))
    OBVIOUS
  <2> QED
    BY <2>1, <2>2, TotalNone
<1>4. ASSUME NEW k \in 1..n PROVE h[k] = h[k - 1] + t[k]
  <2>1. k \in 0..n /\ k - 1 \in 0..n /\ \A j \in 1..k - 1 : j \in 1..n /\ j # k
    OBVIOUS
  <2>2. U(k) = U(k - 1) \cup G[k]
    <3>1. 1..k = (1..k - 1) \cup {k}
      OBVIOUS
    <3> QED
      BY <3>1
  <2>3. U(k - 1) \cap G[k] = {}
    BY <2>1
  <2> HIDE DEF U
  <2>4. h[k] = TotalAt(w, U(k)) /\ h[k - 1] = TotalAt(w, U(k - 1))
    BY <2>1
  <2>5. TotalAt(w, U(k - 1) \cup G[k]) = TotalAt(w, U(k - 1)) + TotalAt(w, G[k])
    BY <2>3, TotalJoins
  <2> QED
    BY <1>2, <2>2, <2>4, <2>5
<1> HIDE DEF h, t, U
<1>5. SumSeqOf(t) = h[n]
  <2>1. Running(h, t, n)
    BY <1>2, <1>3, <1>4 DEF Running
  <2> QED
    BY <1>2, <2>1, SumRuns
<1> QED
  BY <1>3, <1>5 DEF t, U

-----------------------------------------------------------------------------
(* The rosters: the scoreboard *)

RosterInv == RosterTypeOK /\ OneHead(roster)

LEMMA PlayerIs ==
  ASSUME NEW p \in Player
  PROVE  /\ p.name \in Nat /\ p.team \in {1, 2, None} /\ p.squad \in Nat /\ p.ft \in 0..2
         /\ p.lead \in BOOLEAN /\ p.score \in 0..MaxScore /\ p.score \in Nat /\ p.squad \in Squads \cup {0}
<1>1. MaxScore \in Nat /\ Squads \cup {0} \subseteq Nat
  BY RostersAssumption
<1> QED
  BY <1>1 DEF Player

LEMMA RosterIs ==
  ASSUME RosterInv
  PROVE  /\ Len(roster) \in Nat /\ Everyone = 1..Len(roster)
         /\ roster = [i \in Everyone |-> P(i)]
         /\ \A i \in Everyone : P(i) \in Player /\ P(i).score \in Int /\ P(i).squad \in Int
<1>1. roster \in Seq(Player)
  BY DEF RosterInv, RosterTypeOK
<1>2. Len(roster) \in Nat /\ \A i \in 1..Len(roster) : roster[i] \in Player
  BY <1>1
<1>3. roster = [i \in 1..Len(roster) |-> roster[i]]
  BY <1>1
<1>4. \A p \in Player : p.score \in Nat /\ p.squad \in Nat
  BY PlayerIs
<1>5. \A i \in 1..Len(roster) : roster[i].score \in Int /\ roster[i].squad \in Int
  BY <1>2, <1>4
<1> QED
  BY <1>2, <1>3, <1>5 DEF Everyone, P

LEMMA TeamIs ==
  ASSUME RosterInv, NEW t
  PROVE  /\ OnTeam(t) \in SUBSET (1..Len(roster)) /\ IsFiniteSet(OnTeam(t))
         /\ \A s : Group(t, s) \in SUBSET OnTeam(t) /\ IsFiniteSet(Group(t, s))
<1>1. OnTeam(t) \in SUBSET (1..Len(roster)) /\ Len(roster) \in Nat
  BY RosterIs DEF OnTeam
<1>2. IsFiniteSet(OnTeam(t))
  BY <1>1, RanksAre
<1>3. ASSUME NEW s PROVE Group(t, s) \in SUBSET OnTeam(t)
  BY DEF Group
<1> QED
  BY <1>1, <1>2, <1>3, FS_Subset

LEMMA IdsAre ==
  ASSUME RosterInv, NEW t
  PROVE  /\ Covers(SquadIds(t), {P(i).squad : i \in OnTeam(t)})
         /\ 0 \in {P(i).squad : i \in OnTeam(t)} => SquadIds(t)[Len(SquadIds(t))] = 0
<1> DEFINE ids == {P(i).squad : i \in OnTeam(t)}
           R == {p \in ids \X ids : p[1] # 0 /\ (p[2] = 0 \/ p[1] < p[2])}
           f == [i \in OnTeam(t) |-> P(i).squad]
           s == SquadIds(t)
<1>1. OnTeam(t) \in SUBSET Everyone /\ IsFiniteSet(OnTeam(t))
  BY TeamIs, RosterIs
<1>2. ids \in SUBSET Int
  BY <1>1, RosterIs
<1>3. IsFiniteSet(ids)
  <2>1. f \in Surjection(OnTeam(t), ids)
    BY DEF Surjection
  <2> QED
    BY <1>1, <2>1, FS_Surjection
<1>4. s = Sorted(ids, R)
  BY DEF SquadIds
<1> HIDE DEF ids, s
<1>5. \A i, j \in ids : <<i, j>> \in R <=> i # 0 /\ (j = 0 \/ i < j)
  OBVIOUS
<1> HIDE DEF R
<1>6. WeakOrder(ids, R)
  <2>1. \A i, j \in ids : <<i, j>> \in R => <<j, i>> \notin R
    BY <1>2, <1>5
  <2>2. \A i, j, k \in ids : <<i, k>> \in R => <<i, j>> \in R \/ <<j, k>> \in R
    BY <1>2, <1>5
  <2> QED
    BY <2>1, <2>2 DEF WeakOrder
<1>7. Covers(s, ids) /\ \A k, l \in 1..Len(s) : k < l => <<s[l], s[k]>> \notin R
  BY <1>2, <1>3, <1>4, <1>6, SortedCovers
<1>8. ASSUME 0 \in ids PROVE s[Len(s)] = 0
  <2>1. /\ Len(s) \in Nat /\ \A k \in 1..Len(s) : s[k] \in ids
        /\ \E k \in 1..Len(s) : s[k] = 0
    BY <1>7, <1>8 DEF Covers
  <2>2. PICK k \in 1..Len(s) : s[k] = 0
    BY <2>1
  <2>3. SUFFICES ASSUME s[Len(s)] # 0 PROVE FALSE
    OBVIOUS
  <2>4. Len(s) \in 1..Len(s) /\ k < Len(s)
    BY <2>1, <2>2, <2>3
  <2>5. <<s[Len(s)], s[k]>> \in R
    BY <1>5, <2>1, <2>2, <2>3, <2>4
  <2> QED
    BY <1>7, <2>4, <2>5
<1> QED
  BY <1>7, <1>8 DEF ids, s

(* Who comes before whom within a squad: the leader, then by fire team,    *)
(* its head first, then by score.                                          *)
LeadRank(sl, i) == -Bit(i = sl)
HeadRank(i) == -Bit(P(i).lead)
Ahead(sl, i, j) ==
  \/ LeadRank(sl, i) < LeadRank(sl, j)
  \/ /\ LeadRank(sl, i) = LeadRank(sl, j)
     /\ \/ FireTeamRank(i) < FireTeamRank(j)
        \/ /\ FireTeamRank(i) = FireTeamRank(j)
           /\ \/ HeadRank(i) < HeadRank(j)
              \/ HeadRank(i) = HeadRank(j) /\ P(i).score > P(j).score

LEMMA RanksInt ==
  ASSUME RosterInv, NEW i \in Everyone, NEW sl
  PROVE  /\ LeadRank(sl, i) \in {-1, 0} /\ FireTeamRank(i) \in Nat /\ HeadRank(i) \in {-1, 0}
         /\ P(i).score \in Int
         /\ LeadRank(sl, i) = (IF i = sl THEN -1 ELSE 0)
         /\ HeadRank(i) = (IF P(i).lead THEN -1 ELSE 0)
<1>1. P(i).ft \in 0..2 /\ P(i).score \in Int
  BY RosterIs, PlayerIs
<1>2. FireTeamRank(i) \in Nat
  <2>1. FireTeamRank(i) = IF P(i).ft = 0 THEN 99 ELSE P(i).ft
    BY DEF FireTeamRank
  <2> QED
    BY <1>1, <2>1
<1>3. LeadRank(sl, i) = IF i = sl THEN -1 ELSE 0
  BY DEF LeadRank, Bit
<1>4. HeadRank(i) = IF P(i).lead THEN -1 ELSE 0
  BY DEF HeadRank, Bit
<1> QED
  BY <1>1, <1>2, <1>3, <1>4

LEMMA ByRankIs ==
  ASSUME RosterInv, NEW D \in SUBSET Everyone, NEW sl, NEW i \in D, NEW j \in D
  PROVE  <<i, j>> \in ByRank(D, sl) <=> Ahead(sl, i, j)
<1> DEFINE rank(k) == <<-Bit(k = sl), FireTeamRank(k), -Bit(P(k).lead), -P(k).score>>
           Q(n) == rank(i)[n] < rank(j)[n] /\ \A m \in 1..n - 1 : rank(i)[m] = rank(j)[m]
<1>1. <<i, j>> \in ByRank(D, sl) <=> \E n \in 1..4 : Q(n)
  BY DEF ByRank
<1>2. \A k : /\ rank(k)[1] = LeadRank(sl, k) /\ rank(k)[2] = FireTeamRank(k)
             /\ rank(k)[3] = HeadRank(k) /\ rank(k)[4] = -P(k).score
  BY DEF LeadRank, HeadRank
<1> HIDE DEF rank
<1>3. (\E n \in 1..4 : Q(n)) <=> Q(1) \/ Q(2) \/ Q(3) \/ Q(4)
  <2>1. 1..4 = {1, 2, 3, 4}
    OBVIOUS
  <2> HIDE DEF Q
  <2> QED
    BY <2>1
<1>4. 1..1 - 1 = {} /\ 1..2 - 1 = {1} /\ 1..3 - 1 = {1, 2} /\ 1..4 - 1 = {1, 2, 3}
  OBVIOUS
<1>5. /\ Q(1) <=> rank(i)[1] < rank(j)[1]
      /\ Q(2) <=> rank(i)[2] < rank(j)[2] /\ rank(i)[1] = rank(j)[1]
      /\ Q(3) <=> rank(i)[3] < rank(j)[3] /\ rank(i)[1] = rank(j)[1] /\ rank(i)[2] = rank(j)[2]
      /\ Q(4) <=> /\ rank(i)[4] < rank(j)[4] /\ rank(i)[1] = rank(j)[1] /\ rank(i)[2] = rank(j)[2]
                  /\ rank(i)[3] = rank(j)[3]
  BY <1>4
<1> HIDE DEF Q
<1>6. P(i).score \in Int /\ P(j).score \in Int
  BY RosterIs
<1>7. rank(i)[4] < rank(j)[4] <=> P(i).score > P(j).score
  BY <1>2, <1>6
<1> QED
  BY <1>1, <1>2, <1>3, <1>5, <1>7 DEF Ahead

LEMMA RanksWeak ==
  ASSUME RosterInv, NEW D \in SUBSET Everyone, NEW sl
  PROVE  WeakOrder(D, ByRank(D, sl)) /\ WeakOrder(D, ByScore(D))
<1>1. \A i \in D : /\ LeadRank(sl, i) \in Int /\ FireTeamRank(i) \in Int /\ HeadRank(i) \in Int
                   /\ P(i).score \in Int
  <2> SUFFICES ASSUME NEW i \in D
               PROVE  /\ LeadRank(sl, i) \in Int /\ FireTeamRank(i) \in Int /\ HeadRank(i) \in Int
                      /\ P(i).score \in Int
    OBVIOUS
  <2>1. LeadRank(sl, i) \in {-1, 0} /\ HeadRank(i) \in {-1, 0} /\ FireTeamRank(i) \in Nat /\ P(i).score \in Int
    BY RanksInt
  <2> QED
    BY <2>1
<1>2. ASSUME NEW i \in D, NEW j \in D, Ahead(sl, i, j)
      PROVE  ~Ahead(sl, j, i)
  BY <1>1, <1>2 DEF Ahead
<1>3. ASSUME NEW i \in D, NEW j \in D, NEW k \in D, Ahead(sl, i, k)
      PROVE  Ahead(sl, i, j) \/ Ahead(sl, j, k)
  BY <1>1, <1>3 DEF Ahead
<1>4. \A i, j \in D : <<i, j>> \in ByRank(D, sl) <=> Ahead(sl, i, j)
  BY ByRankIs
<1>5. WeakOrder(D, ByRank(D, sl))
  BY <1>2, <1>3, <1>4 DEF WeakOrder
<1>6. \A i, j \in D : <<i, j>> \in ByScore(D) <=> P(i).score > P(j).score
  BY DEF ByScore
<1>7. WeakOrder(D, ByScore(D))
  BY <1>1, <1>6 DEF WeakOrder
<1> QED
  BY <1>5, <1>7

LEMMA RowsAre ==
  ASSUME RosterInv, NEW t, NEW s
  PROVE  /\ Covers(SquadRows(t, s), Group(t, s))
         /\ s # 0 => \A k, l \in 1..Len(SquadRows(t, s)) :
              k < l => ~Ahead(LeaderOf(t, s), SquadRows(t, s)[l], SquadRows(t, s)[k])
<1> DEFINE D == Group(t, s)
           sl == LeaderOf(t, s)
           R == IF s = 0 THEN ByScore(D) ELSE ByRank(D, sl)
           rows == SquadRows(t, s)
<1>1. D \in SUBSET Everyone /\ D \in SUBSET Int /\ IsFiniteSet(D)
  <2>1. /\ OnTeam(t) \in SUBSET (1..Len(roster)) /\ D \in SUBSET OnTeam(t) /\ IsFiniteSet(D)
        /\ Everyone = 1..Len(roster)
    BY TeamIs, RosterIs
  <2> HIDE DEF D
  <2>2. D \in SUBSET (1..Len(roster))
    BY <2>1
  <2> QED
    BY <2>1, <2>2
<1>2. rows = Sorted(D, R)
  BY DEF SquadRows
<1> HIDE DEF D, sl, rows
<1>3. WeakOrder(D, R)
  BY <1>1, RanksWeak
<1>4. Covers(rows, D) /\ \A k, l \in 1..Len(rows) : k < l => <<rows[l], rows[k]>> \notin R
  BY <1>1, <1>2, <1>3, SortedCovers
<1>5. ASSUME s # 0, NEW k \in 1..Len(rows), NEW l \in 1..Len(rows), k < l
      PROVE  ~Ahead(sl, rows[l], rows[k])
  <2>1. rows[k] \in D /\ rows[l] \in D
    BY <1>4 DEF Covers
  <2>2. <<rows[l], rows[k]>> \notin ByRank(D, sl)
    BY <1>4, <1>5
  <2> QED
    BY <1>1, <2>1, <2>2, ByRankIs
<1> QED
  BY <1>4, <1>5 DEF D, sl, rows

LEMMA PlacesCover ==
  ASSUME NEW n \in Nat, NEW D \in SUBSET (1..n)
  PROVE  Covers(AtPlaces([i \in 1..n |-> i], D), D)
<1> DEFINE ids == [i \in 1..n |-> i]
           q == AtPlaces(ids, D)
<1>1. Picks(q, ids, D)
  BY PlacesPick
<1>2. IsFiniteSet(D) /\ Cardinality(D) \in Nat
  BY RanksAre
<1> HIDE DEF q
<1>3. /\ Len(q) = Cardinality(D) /\ q = [m \in 1..Len(q) |-> q[m]]
      /\ \A m \in 1..Len(q) : NthOf(D, m) \in D /\ q[m] = NthOf(D, m)
      /\ \A x \in D : Rank(D, x) \in 1..Len(q) /\ NthOf(D, Rank(D, x)) = x
  <2>1. /\ Len(q) = Cardinality(D) /\ q = [m \in 1..Len(q) |-> q[m]]
        /\ \A m \in 1..Len(q) : NthOf(D, m) \in D /\ q[m] = ids[NthOf(D, m)]
        /\ \A x \in D : Rank(D, x) \in 1..Len(q) /\ NthOf(D, Rank(D, x)) = x
    BY <1>1 DEF Picks
  <2>2. \A x \in D : ids[x] = x
    OBVIOUS
  <2> QED
    BY <2>1, <2>2
<1>4. Covers(q, D)
  BY <1>2, <1>3 DEF Covers
<1> QED
  BY <1>4 DEF q

Points == [i \in Everyone |-> P(i).score]

LEMMA ScoreIs ==
  ASSUME RosterInv, NEW D \in SUBSET Everyone, NEW rows, Covers(rows, D)
  PROVE  Points \in Seq(Int) /\ Score(rows) = TotalAt(Points, D)
<1>1. Len(roster) \in Nat /\ Everyone = 1..Len(roster) /\ \A i \in Everyone : P(i).score \in Int
  BY RosterIs
<1>2. Points \in Seq(Int) /\ Len(Points) = Len(roster)
  <2>1. Points \in [1..Len(roster) -> Int]
    BY <1>1 DEF Points
  <2> QED
    BY <1>1, <2>1
<1>3. \A k \in 1..Len(rows) : rows[k] \in Everyone
  BY DEF Covers
<1>4. [k \in 1..Len(rows) |-> P(rows[k]).score] = [k \in 1..Len(rows) |-> Points[rows[k]]]
  BY <1>3 DEF Points
<1>5. SumSeqOf([k \in 1..Len(rows) |-> Points[rows[k]]]) = TotalAt(Points, D)
  BY <1>1, <1>2, CoverTotals
<1> QED
  BY <1>2, <1>4, <1>5 DEF Score

LEMMA RowsForEveryone ==
  ASSUME RosterInv
  PROVE  EveryoneHasRow
<1> SUFFICES ASSUME NEW t \in {1, 2}
             PROVE  LET ids == SquadIds(t)
                        lists == [n \in 1..Len(ids) |-> SquadRows(t, ids[n])]
                        rows == FlattenSeq(lists)
                    IN  /\ Len(rows) = Cardinality(OnTeam(t)) /\ ToSet(rows) = OnTeam(t)
                        /\ Aggregate(t) = SumSeqOf([n \in 1..Len(ids) |-> Score(lists[n])])
                        /\ 0 \in ToSet(ids) => ids[Len(ids)] = 0
  BY DEF EveryoneHasRow
<1> DEFINE ids == SquadIds(t)
           c == Len(ids)
           ss == [n \in 1..c |-> SquadRows(t, ids[n])]
           G == [n \in 1..c |-> Group(t, ids[n])]
           rows == FlattenSeq(ss)
           D == OnTeam(t)
           squads == {P(i).squad : i \in OnTeam(t)}
<1>1. Covers(ids, squads) /\ (0 \in squads => ids[c] = 0)
  BY IdsAre
<1>2. /\ c \in Nat /\ DOMAIN ids = 1..c /\ (\A k \in 1..c : ids[k] \in squads)
      /\ (\A x \in squads : \E k \in 1..c : ids[k] = x)
      /\ \A k, l \in 1..c : ids[k] = ids[l] => k = l
  <2>1. /\ c \in Nat /\ c = Cardinality(squads) /\ ids = [k \in 1..Cardinality(squads) |-> ids[k]]
        /\ (\A k \in 1..c : ids[k] \in squads) /\ (\A x \in squads : \E k \in 1..c : ids[k] = x)
    BY <1>1 DEF Covers
  <2>2. \A k, l \in 1..c : ids[k] = ids[l] => k = l
    BY <1>1, CoversOnce
  <2> HIDE DEF squads, ids
  <2> QED
    BY <2>1, <2>2
<1>3. ToSet(ids) = squads
  <2> HIDE DEF ids, squads, c
  <2>1. ToSet(ids) = {ids[k] : k \in 1..c}
    BY <1>2 DEF ToSet
  <2> QED
    BY <1>2, <2>1
<1>4. D \in SUBSET Everyone /\ Len(roster) \in Nat /\ Everyone = 1..Len(roster)
  BY TeamIs, RosterIs
<1>5. UNION {G[n] : n \in 1..c} = D
  <2>1. \A i \in D : P(i).squad \in squads
    OBVIOUS
  <2>2. \A n \in 1..c : G[n] = {i \in D : P(i).squad = ids[n]}
    BY DEF Group
  <2> HIDE DEF G, D, squads, ids, c
  <2>3. \A i \in D : \E n \in 1..c : i \in G[n]
    BY <1>2, <2>1, <2>2
  <2>4. \A n \in 1..c : \A i \in G[n] : i \in D
    BY <2>2
  <2> QED
    BY <2>3, <2>4
<1>6. \A k, l \in 1..c : k # l => G[k] \cap G[l] = {}
  BY <1>2 DEF Group
<1>7. \A k \in 1..c : Covers(ss[k], G[k]) /\ G[k] \in SUBSET Everyone
  BY <1>4, RowsAre, TeamIs
<1> HIDE DEF ids, squads, D
<1>8. Len(ss) = c
  BY <1>2
<1>9. ss \in Seq(Seq(Everyone))
  <2>1. ASSUME NEW k \in 1..c PROVE ss[k] \in Seq(Everyone)
    <3>1. ss[k] \in [1..Cardinality(G[k]) -> Everyone] /\ Cardinality(G[k]) \in Nat
      BY <1>7 DEF Covers
    <3> QED
      BY <3>1
  <2>2. ss \in [1..c -> Seq(Everyone)]
    BY <2>1
  <2> QED
    BY <1>2, <2>2
<1> HIDE DEF c
<1>10. Covers(rows, D)
  <2> HIDE DEF ss, G
  <2>1. Covers(FlattenSeq(ss), UNION {G[n] : n \in 1..Len(ss)})
    <3>1. \A n \in 1..Len(ss) : Covers(ss[n], G[n])
      BY <1>7, <1>8
    <3>2. \A k, l \in 1..Len(ss) : k # l => G[k] \cap G[l] = {}
      BY <1>6, <1>8
    <3>3. Partition(ss, G)
      BY <3>1, <3>2 DEF Partition
    <3> HIDE DEF rows
    <3> QED
      BY <1>9, <3>3, FlattenCovers
  <2> QED
    BY <1>5, <1>8, <2>1
<1>11. Len(rows) = Cardinality(D) /\ ToSet(rows) = D
  <2> HIDE DEF rows
  <2>1. /\ Len(rows) = Cardinality(D) /\ rows = [k \in 1..Cardinality(D) |-> rows[k]]
        /\ (\A k \in 1..Cardinality(D) : rows[k] \in D) /\ \A x \in D : \E k \in 1..Cardinality(D) : rows[k] = x
    BY <1>10 DEF Covers
  <2>2. DOMAIN rows = 1..Cardinality(D)
    BY <2>1
  <2> QED
    BY <2>1, <2>2 DEF ToSet
<1>12. Points \in Seq(Int) /\ \A k \in 1..c : Score(ss[k]) = TotalAt(Points, G[k])
  <2>1. \A k \in 1..c : Score(ss[k]) = TotalAt(Points, G[k])
    BY <1>7, ScoreIs
  <2>2. Points \in Seq(Int)
    BY <1>4, <1>10, ScoreIs
  <2> QED
    BY <2>1, <2>2
<1>13. SumSeqOf([n \in 1..c |-> Score(ss[n])]) = TotalAt(Points, D)
  <2> HIDE DEF ss, G
  <2>1. [n \in 1..c |-> Score(ss[n])] = [n \in 1..c |-> TotalAt(Points, G[n])]
    BY <1>12
  <2>2. SumSeqOf([n \in 1..c |-> TotalAt(Points, G[n])]) = TotalAt(Points, UNION {G[n] : n \in 1..c})
    <3>1. Points \in Seq(Int) /\ c \in Nat /\ \A k, l \in 1..c : k # l => G[k] \cap G[l] = {}
      BY <1>2, <1>6, <1>12
    <3> QED
      BY <3>1, UnionTotals
  <2> QED
    BY <1>5, <2>1, <2>2
<1>14. Aggregate(t) = TotalAt(Points, D)
  <2>1. Covers(AtPlaces([i \in Everyone |-> i], D), D)
    BY <1>4, PlacesCover
  <2>2. Score(AtPlaces([i \in Everyone |-> i], D)) = TotalAt(Points, D)
    BY <1>4, <2>1, ScoreIs
  <2> QED
    BY <2>2 DEF Aggregate, D
<1> QED
  BY <1>1, <1>3, <1>11, <1>13, <1>14 DEF c, ids, D

\* A leader is a head of fire team 0, in the squad he leads.
LEMMA LeaderIs ==
  ASSUME RosterInv, NEW t, NEW s, LeaderOf(t, s) # None
  PROVE  LeaderOf(t, s) \in Everyone /\ P(LeaderOf(t, s)).squad = s /\ P(LeaderOf(t, s)).ft = 0
<1> DEFINE able == {j \in Everyone : /\ P(j).team = t /\ P(j).squad = s
                                    /\ s # 0 /\ P(j).ft = 0 /\ P(j).lead}
<1>1. LeaderOf(t, s) = IF able = {} THEN None ELSE CHOOSE j \in able : TRUE
  BY DEF LeaderOf
<1>2. able # {}
  BY <1>1
<1>3. LeaderOf(t, s) \in able
  <2> HIDE DEF able
  <2> QED
    BY <1>1, <1>2
<1> QED
  BY <1>3

\* Who is the leader of some squad of his team is that of his own.
LEMMA LeaderTells ==
  ASSUME RosterInv, NEW t, NEW s, s # 0, NEW i \in Group(t, s)
  PROVE  /\ i \in Everyone /\ P(i).team = t /\ P(i).squad = s
         /\ IsSL(i) <=> i = LeaderOf(t, s)
         /\ PanelIsSL(i) = IsSL(i)
         /\ IsSL(i) => P(i).ft = 0
<1>1. i \in Everyone /\ P(i).team = t /\ P(i).squad = s
  BY DEF Group, OnTeam
<1>2. i # None /\ s \in Squads /\ s > 0
  <2>1. i \in Nat /\ P(i) \in Player
    BY <1>1, RosterIs
  <2>2. P(i).squad \in Squads \cup {0} /\ P(i).squad \in Nat
    BY <2>1, PlayerIs
  <2>3. i # None
    BY <2>1, RostersAssumption
  <2>4. s \in Squads /\ s > 0
    BY <1>1, <2>2
  <2> QED
    BY <2>3, <2>4, RostersAssumption
<1>3. IsSL(i) <=> i = LeaderOf(t, s)
  <2>1. IsSL(i) <=> i \in {LeaderOf(t, z) : z \in Squads} \ {None}
    BY <1>1 DEF IsSL, SlAddrs
  <2>2. ASSUME NEW z \in Squads, i = LeaderOf(t, z) PROVE z = s
    BY <1>1, <1>2, <2>2, LeaderIs
  <2> QED
    BY <1>2, <2>1, <2>2
<1>4. PanelIsSL(i) = IsSL(i)
  BY <1>1, <1>2, <1>3 DEF PanelIsSL, IsSL
<1>5. ASSUME IsSL(i) PROVE P(i).ft = 0
  BY <1>2, <1>3, <1>5, LeaderIs
<1> QED
  BY <1>1, <1>3, <1>4, <1>5

LEMMA LeadersLead ==
  ASSUME RosterInv
  PROVE  LeadersOnTop
<1> SUFFICES ASSUME NEW t \in {1, 2}, NEW s \in Squads \ {0}
             PROVE  LET rows == SquadRows(t, s)
                    IN  /\ \A n \in 1..Len(rows) :
                             /\ IsSL(rows[n]) => n = 1
                             /\ PanelIsSL(rows[n]) = IsSL(rows[n])
                        /\ \A a, b \in 1..Len(rows) :
                             a < b /\ P(rows[a]).ft = P(rows[b]).ft =>
                               /\ \A c \in a..b : IsSL(rows[a]) \/ P(rows[c]).ft = P(rows[a]).ft
                               /\ ~IsFTL(rows[b])
  BY DEF LeadersOnTop
<1> DEFINE rows == SquadRows(t, s)
           n == Len(rows)
           sl == LeaderOf(t, s)
<1>1. /\ n \in Nat /\ (\A k \in 1..n : rows[k] \in Group(t, s))
      /\ \A k, l \in 1..n : rows[k] = rows[l] => k = l
      /\ \A k, l \in 1..n : k < l => ~Ahead(sl, rows[l], rows[k])
  <2>1. /\ Covers(rows, Group(t, s))
        /\ \A k, l \in 1..n : k < l => ~Ahead(sl, rows[l], rows[k])
    BY RowsAre
  <2>2. \A k, l \in 1..n : rows[k] = rows[l] => k = l
    BY <2>1, CoversOnce
  <2>3. n \in Nat /\ \A k \in 1..n : rows[k] \in Group(t, s)
    BY <2>1 DEF Covers
  <2> QED
    BY <2>1, <2>2, <2>3
<1>2. \A k \in 1..n : /\ rows[k] \in Everyone /\ P(rows[k]).team = t /\ P(rows[k]).squad = s
                      /\ IsSL(rows[k]) <=> rows[k] = sl
                      /\ PanelIsSL(rows[k]) = IsSL(rows[k])
                      /\ IsSL(rows[k]) => P(rows[k]).ft = 0
  BY <1>1, LeaderTells
<1> HIDE DEF rows, n, sl
<1>3. \A k \in 1..n : /\ LeadRank(sl, rows[k]) = (IF IsSL(rows[k]) THEN -1 ELSE 0)
                      /\ FireTeamRank(rows[k]) \in Nat
                      /\ HeadRank(rows[k]) = (IF P(rows[k]).lead THEN -1 ELSE 0)
  BY <1>2, RanksInt
<1>4. \A k \in 1..n : IsSL(rows[k]) => k = 1
  <2> SUFFICES ASSUME NEW k \in 1..n, IsSL(rows[k]), k # 1 PROVE FALSE
    OBVIOUS
  <2>1. 1 \in 1..n /\ 1 < k
    BY <1>1
  <2>2. rows[1] # rows[k]
    BY <1>1, <2>1
  <2>3. ~IsSL(rows[1])
    BY <1>2, <2>1, <2>2
  <2>4. LeadRank(sl, rows[k]) = -1 /\ LeadRank(sl, rows[1]) = 0
    BY <1>3, <2>1, <2>3
  <2>5. Ahead(sl, rows[k], rows[1])
    BY <2>4 DEF Ahead
  <2> QED
    BY <1>1, <2>1, <2>5
<1>5. ASSUME NEW a \in 1..n, NEW b \in 1..n, a < b, P(rows[a]).ft = P(rows[b]).ft
      PROVE  /\ \A c \in a..b : IsSL(rows[a]) \/ P(rows[c]).ft = P(rows[a]).ft
             /\ ~IsFTL(rows[b])
  <2>0. ~IsSL(rows[b])
    BY <1>1, <1>4, <1>5
  <2>1. ASSUME NEW c \in a..b, ~IsSL(rows[a]) PROVE P(rows[c]).ft = P(rows[a]).ft
    <3>1. c \in 1..n
      BY <1>1
    <3>2. ~IsSL(rows[c])
      BY <1>1, <1>4, <2>1, <3>1
    <3>3. LeadRank(sl, rows[a]) = 0 /\ LeadRank(sl, rows[b]) = 0 /\ LeadRank(sl, rows[c]) = 0
      BY <1>3, <2>0, <2>1, <3>1, <3>2
    <3>4. a = c \/ ~(FireTeamRank(rows[c]) < FireTeamRank(rows[a]))
      BY <1>1, <3>1, <3>3 DEF Ahead
    <3>5. c = b \/ ~(FireTeamRank(rows[b]) < FireTeamRank(rows[c]))
      BY <1>1, <3>1, <3>3 DEF Ahead
    <3>6. FireTeamRank(rows[a]) = FireTeamRank(rows[b])
      BY <1>5 DEF FireTeamRank
    <3>7. FireTeamRank(rows[c]) = FireTeamRank(rows[a])
      BY <1>3, <3>1, <3>4, <3>5, <3>6
    <3>8. P(rows[a]).ft \in 0..2 /\ P(rows[c]).ft \in 0..2
      BY <1>2, <3>1, RosterIs, PlayerIs
    <3> QED
      BY <3>7, <3>8 DEF FireTeamRank
  <2>2. ASSUME IsFTL(rows[b]) PROVE FALSE
    <3>1. P(rows[b]).lead /\ P(rows[b]).ft > 0
      BY <2>2 DEF IsFTL
    <3>2. P(rows[a]).ft # 0
      BY <1>5, <3>1
    <3>3. ~IsSL(rows[a])
      BY <1>2, <3>2
    <3>4. LeadRank(sl, rows[a]) = 0 /\ LeadRank(sl, rows[b]) = 0
      BY <1>3, <2>0, <3>3
    <3>5. ~P(rows[a]).lead
      <4>1. OneHead(roster) /\ s # 0
        BY DEF RosterInv
      <4>2. rows[a] \in 1..Len(roster) /\ rows[b] \in 1..Len(roster) /\ rows[a] # rows[b]
        BY <1>1, <1>2, <1>5, RosterIs
      <4>3. /\ P(rows[a]).team = P(rows[b]).team /\ P(rows[a]).squad = P(rows[b]).squad
            /\ P(rows[a]).squad # 0
        BY <1>2, <4>1
      <4> QED
        BY <1>5, <3>1, <4>1, <4>2, <4>3 DEF OneHead, P
    <3>6. HeadRank(rows[b]) = -1 /\ HeadRank(rows[a]) = 0
      BY <1>3, <3>1, <3>5
    <3>7. FireTeamRank(rows[a]) = FireTeamRank(rows[b])
      BY <1>5 DEF FireTeamRank
    <3>8. Ahead(sl, rows[b], rows[a])
      BY <3>4, <3>6, <3>7 DEF Ahead
    <3> QED
      BY <1>1, <1>5, <3>8
  <2> QED
    BY <2>1, <2>2
<1>6. \A k \in 1..n : PanelIsSL(rows[k]) = IsSL(rows[k])
  BY <1>2
<1> QED
  BY <1>4, <1>5, <1>6 DEF n, rows

-----------------------------------------------------------------------------
(* The rosters: pins, orders and the search *)

LEMMA DownedTells == DownedAgrees
<1> SUFFICES ASSUME NEW i \in Everyone, OnMap(i)
             PROVE  Downed(i) <=> "DOWNED" \in PanelBadges(i)
  BY DEF DownedAgrees
<1>1. P(i).pawn \notin {None, "stale"} /\ None # "incapacitated"
  BY RostersAssumption DEF OnMap
<1>2. "DOWNED" \in PanelBadges(i) <=>
        \/ P(i).life = "incapacitated"
        \/ P(i).life = None /\ P(i).health <= 0 /\ P(i).pawn \notin {None, "stale"}
  BY DEF PanelBadges
<1> QED
  BY <1>1, <1>2 DEF Downed

LEMMA LinesTell == LinesNamePlacer
<1> SUFFICES ASSUME NEW m \in Orders
             PROVE  LineFrom(m) = IF /\ FindPlacer(m) # None /\ P(FindPlacer(m)).pawn \notin {None, "stale"}
                                     /\ P(FindPlacer(m)).health > 0
                                  THEN FindPlacer(m) ELSE None
  BY DEF LinesNamePlacer
<1> DEFINE want == IF m.ft = -1 \/ m.ft = None THEN 0 ELSE m.ft
           able == {i \in Everyone : /\ P(i).team = m.team /\ P(i).squad = m.squad
                                    /\ P(i).ft = want /\ P(i).lead}
           some == {i \in Everyone : /\ m.team # None /\ m.squad # None
                                     /\ P(i).team = m.team /\ P(i).squad = m.squad
                                     /\ P(i).ft = want /\ P(i).lead}
           p == FirstOf(some)
<1>1. FindPlacer(m) = IF m.team = None \/ m.squad = None THEN None ELSE FirstOf(able)
  <2>1. (IF m.ft \in {-1, None} THEN 0 ELSE m.ft) = want
    OBVIOUS
  <2> QED
    BY <2>1, Zenon DEF FindPlacer
<1>2. LineFrom(m) = IF p # None /\ P(p).pawn \notin {None, "stale"} /\ P(p).health > 0 THEN p ELSE None
  BY Zenon DEF LineFrom
<1>3. FindPlacer(m) = p
  <2>1. CASE m.team = None \/ m.squad = None
    <3>1. some = {}
      BY <2>1
    <3> QED
      BY <1>1, <2>1, <3>1 DEF FirstOf
  <2>2. CASE ~(m.team = None \/ m.squad = None)
    <3>1. some = able
      BY <2>2
    <3> QED
      BY <1>1, <2>2, <3>1
  <2> QED
    BY <2>1, <2>2
<1> HIDE DEF p
<1> QED
  BY <1>2, <1>3

LEMMA MatchesAre ==
  ASSUME RosterInv
  PROVE  /\ Len(Matches) \in 0..MaxResults
         /\ \A n \in 1..Len(Matches) : Matches[n] \in Found
         /\ Found \in SUBSET Everyone
<1> DEFINE R == {p \in Found \X Found : P(p[1]).name < P(p[2]).name}
           s == Sorted(Found, R)
           c == Cardinality(Found)
           m == MinOf(MaxResults, c)
<1>1. /\ Found \in SUBSET Everyone /\ Found \in SUBSET (1..Len(roster)) /\ Found \in SUBSET Int
      /\ Len(roster) \in Nat /\ \A i \in Found : P(i).name \in Int
  <2>1. Found \in SUBSET Everyone
    BY DEF Found
  <2>2. \A i \in Everyone : P(i).name \in Nat
    BY RosterIs, PlayerIs
  <2> QED
    BY <2>1, <2>2, RosterIs
<1>2. IsFiniteSet(Found)
  BY <1>1, RanksAre
<1>3. WeakOrder(Found, R)
  <2>1. \A i, j \in Found : <<i, j>> \in R <=> P(i).name < P(j).name
    OBVIOUS
  <2> HIDE DEF R
  <2> QED
    BY SMTT(30), <1>1, <2>1 DEF WeakOrder
<1> HIDE DEF R
<1>4. Covers(s, Found)
  BY <1>1, <1>2, <1>3, SortedCovers
<1>5. Matches = SubSeq(s, 1, m)
  BY DEF Matches, R
<1> HIDE DEF s
<1>6. c \in Nat /\ Len(s) = c /\ s \in Seq(Found) /\ \A k \in 1..c : s[k] \in Found
  <2>1. c \in Nat /\ Len(s) = c /\ s \in [1..c -> Found] /\ \A k \in 1..c : s[k] \in Found
    BY <1>4 DEF Covers
  <2> QED
    BY <2>1
<1>7. MaxResults \in Nat
  BY RostersAssumption
<1> HIDE DEF c
<1>8. m \in 0..MaxResults /\ m \in 0..c
  BY <1>6, <1>7 DEF MinOf
<1> HIDE DEF m
<1>9. Len(Matches) = m /\ \A n \in 1..m : Matches[n] = s[n] /\ n \in 1..c
  BY <1>5, <1>6, <1>8
<1> QED
  BY <1>1, <1>6, <1>8, <1>9

LEMMA PickFits ==
  ASSUME RosterInv, NEW n, Pick(n)
  PROVE  RosterInv' /\ P(picked').team # None /\ picked' \in query
<1>1. n \in 1..Len(Matches) /\ picked' = Matches[n] /\ UNCHANGED <<roster, frames, query, hi>>
  BY DEF Pick
<1>2. picked' \in Found /\ picked' \in Everyone
  BY <1>1, MatchesAre
<1>3. P(picked').team # None /\ picked' \in query
  BY <1>2 DEF Found
<1>4. RosterInv'
  BY <1>1, <1>2 DEF RosterInv, RosterTypeOK, Everyone, P
<1> QED
  BY <1>3, <1>4

-----------------------------------------------------------------------------
(* The rosters: the frames *)

Able(p) == p \in Player /\ <<p.life, p.health, p.pawn>> \in Conditions

LEMMA RosterStarts == RosterInit \/ RosterOff => RosterInv
<1>1. MaxResults \in Nat /\ MaxFrames \in Nat
  BY RostersAssumption
<1>2. ASSUME RosterInit PROVE RosterInv
  <2>1. /\ roster \in Seq(Player) /\ OneHead(roster)
        /\ \A i \in 1..Len(roster) : <<roster[i].life, roster[i].health, roster[i].pawn>> \in Conditions
    BY <1>2, RostersAssumption DEF RosterInit
  <2> QED
    BY <1>1, <1>2, <2>1 DEF RosterInit, RosterInv, RosterTypeOK, Everyone, P
<1>3. ASSUME RosterOff PROVE RosterInv
  <2>1. roster = << >> /\ << >> \in Seq(Player) /\ Len(roster) = 0
    BY <1>3 DEF RosterOff
  <2>2. 1..Len(roster) = {}
    BY <2>1
  <2> QED
    BY <1>1, <1>3, <2>1, <2>2 DEF RosterOff, RosterInv, RosterTypeOK, OneHead, Everyone
<1> QED
  BY <1>2, <1>3

LEMMA FrameFits ==
  ASSUME RosterInv, NEW r, r = [j \in Everyone |-> r[j]], \A j \in Everyone : Able(r[j]),
         OneHead(r), NextFrame(r)
  PROVE  RosterInv' /\ picked' = picked
<1>1. Len(roster) \in Nat /\ Everyone = 1..Len(roster)
  BY RosterIs
<1>2. r \in Seq(Player) /\ Len(r) = Len(roster)
  <2>1. r \in [1..Len(roster) -> Player]
    BY <1>1 DEF Able
  <2> QED
    BY <1>1, <2>1
<1>3. /\ roster' = r /\ frames < MaxFrames /\ frames' = frames + 1
      /\ UNCHANGED <<query, hi, opened, picked>>
  BY DEF NextFrame
<1>4. Everyone' = Everyone /\ \A j \in Everyone : P(j)' = r[j]
  BY <1>1, <1>2, <1>3 DEF Everyone, P
<1>5. frames' \in 0..MaxFrames
  <2>1. frames \in 0..MaxFrames /\ MaxFrames \in Nat
    BY RostersAssumption DEF RosterInv, RosterTypeOK
  <2> QED
    BY <1>3, <2>1
<1>6. \A j \in Everyone' : (<<P(j).life, P(j).health, P(j).pawn>> \in Conditions)'
  BY <1>4 DEF Able
<1> QED
  BY <1>2, <1>3, <1>4, <1>5, <1>6 DEF RosterInv, RosterTypeOK

LEMMA ManFits ==
  ASSUME RosterInv, NEW i \in Everyone, NEW p, Able(p), FrameWith(i, p),
         p.squad # 0 /\ p.lead =>
           \A j \in Everyone : j # i /\ P(j).team = p.team /\ P(j).squad = p.squad /\ P(j).ft = p.ft => ~P(j).lead
  PROVE  RosterInv' /\ picked' = picked
<1> DEFINE r == [j \in Everyone |-> IF j = i THEN p ELSE P(j)]
<1>1. Len(roster) \in Nat /\ Everyone = 1..Len(roster)
  BY RosterIs
<1>2. NextFrame(r)
  BY DEF FrameWith
<1>3. \A j \in Everyone : Able(P(j))
  BY RosterIs DEF RosterInv, RosterTypeOK, Able
<1>4. r = [j \in Everyone |-> r[j]] /\ \A j \in Everyone : r[j] = (IF j = i THEN p ELSE P(j)) /\ Able(r[j])
  BY <1>3
<1>5. Len(r) = Len(roster)
  BY <1>1
<1> HIDE DEF r
<1>6. OneHead(r)
  <2> SUFFICES ASSUME NEW k \in Everyone, NEW l \in Everyone, k # l,
                      r[k].team = r[l].team, r[k].squad = r[l].squad, r[k].ft = r[l].ft,
                      r[k].squad # 0, r[k].lead, r[l].lead
               PROVE  FALSE
    BY <1>1, <1>5 DEF OneHead
  <2>1. CASE k = i
    <3>1. r[k] = p /\ r[l] = P(l)
      BY <1>4, <2>1
    <3> QED
      BY <2>1, <3>1
  <2>2. CASE l = i
    <3>1. r[l] = p /\ r[k] = P(k)
      BY <1>4, <2>2
    <3> QED
      BY <2>2, <3>1
  <2>3. CASE k # i /\ l # i
    <3>1. r[k] = P(k) /\ r[l] = P(l)
      BY <1>4, <2>3
    <3> QED
      BY <1>1, <3>1 DEF RosterInv, OneHead, P
  <2> QED
    BY <2>1, <2>2, <2>3
<1> QED
  BY <1>2, <1>4, <1>6, FrameFits

LEMMA PostedIs ==
  ASSUME RosterInv, NEW i \in Everyone, NEW t \in {1, 2, None}, NEW s \in Squads \cup {0},
         NEW f \in 0..2, NEW l \in BOOLEAN
  PROVE  /\ Able(Posted(P(i), t, s, f, l))
         /\ Posted(P(i), t, s, f, l).team = t /\ Posted(P(i), t, s, f, l).squad = s
         /\ Posted(P(i), t, s, f, l).ft = f /\ Posted(P(i), t, s, f, l).lead = l
<1>1. P(i) \in Player /\ <<P(i).life, P(i).health, P(i).pawn>> \in Conditions
  BY RosterIs DEF RosterInv, RosterTypeOK
<1> DEFINE q == Posted(P(i), t, s, f, l)
<1>2. /\ q.team = t /\ q.squad = s /\ q.ft = f /\ q.lead = l
      /\ q.life = P(i).life /\ q.health = P(i).health /\ q.pawn = P(i).pawn
  BY DEF Posted
<1>3. q \in Player
  BY <1>1 DEF Posted, Player
<1> QED
  BY <1>1, <1>2, <1>3 DEF Able

LEMMA FaringIs ==
  ASSUME RosterInv, NEW i \in Everyone, NEW n \in 0..MaxScore, NEW c \in Conditions
  PROVE  /\ Able(Faring(P(i), n, c[1], c[2], c[3]))
         /\ Faring(P(i), n, c[1], c[2], c[3]).team = P(i).team
         /\ Faring(P(i), n, c[1], c[2], c[3]).squad = P(i).squad
         /\ Faring(P(i), n, c[1], c[2], c[3]).ft = P(i).ft
         /\ Faring(P(i), n, c[1], c[2], c[3]).lead = P(i).lead
<1>1. P(i) \in Player
  BY RosterIs
<1> DEFINE q == Faring(P(i), n, c[1], c[2], c[3])
<1>2. /\ q.team = P(i).team /\ q.squad = P(i).squad /\ q.ft = P(i).ft /\ q.lead = P(i).lead
      /\ q.life = c[1] /\ q.health = c[2] /\ q.pawn = c[3]
  BY DEF Faring
<1>3. c = <<c[1], c[2], c[3]>>
  BY DEF Conditions
<1>4. q \in Player
  BY <1>1 DEF Faring, Player
<1> QED
  BY <1>2, <1>3, <1>4 DEF Able

LEMMA FaringFits ==
  ASSUME RosterInv, NEW i \in Everyone, NEW n \in 0..MaxScore, NEW c \in Conditions,
         FrameWith(i, Faring(P(i), n, c[1], c[2], c[3]))
  PROVE  RosterInv' /\ picked' = picked
<1> DEFINE p == Faring(P(i), n, c[1], c[2], c[3])
<1>1. Able(p) /\ p.team = P(i).team /\ p.squad = P(i).squad /\ p.ft = P(i).ft /\ p.lead = P(i).lead
  BY FaringIs
<1>2. FrameWith(i, p)
  OBVIOUS
<1> HIDE DEF p
<1>3. ASSUME p.squad # 0 /\ p.lead, NEW j \in Everyone,
             j # i /\ P(j).team = p.team /\ P(j).squad = p.squad /\ P(j).ft = p.ft
      PROVE  ~P(j).lead
  BY <1>1, <1>3, RosterIs DEF RosterInv, OneHead, P
<1> QED
  BY <1>1, <1>2, <1>3, ManFits

LEMMA PromotedFits ==
  ASSUME RosterInv, NEW i \in Everyone, Promoted(i)
  PROVE  RosterInv' /\ picked' = picked
<1> DEFINE Mate(j) == P(j).team = P(i).team /\ P(j).squad = P(i).squad /\ P(j).ft = P(i).ft
           r == [j \in Everyone |->
                   IF Mate(j) THEN Posted(P(j), P(j).team, P(j).squad, P(j).ft, j = i) ELSE P(j)]
<1>1. Len(roster) \in Nat /\ Everyone = 1..Len(roster)
  BY RosterIs
<1>2. NextFrame(r)
  BY DEF Promoted
<1>3. \A j \in Everyone : Able(P(j))
  BY RosterIs DEF RosterInv, RosterTypeOK, Able
<1>4. \A j \in Everyone :
        LET q == Posted(P(j), P(j).team, P(j).squad, P(j).ft, j = i)
        IN  Able(q) /\ q.team = P(j).team /\ q.squad = P(j).squad /\ q.ft = P(j).ft /\ q.lead = (j = i)
  <2> SUFFICES ASSUME NEW j \in Everyone
               PROVE  LET q == Posted(P(j), P(j).team, P(j).squad, P(j).ft, j = i)
                      IN  /\ Able(q) /\ q.team = P(j).team /\ q.squad = P(j).squad /\ q.ft = P(j).ft
                          /\ q.lead = (j = i)
    OBVIOUS
  <2>1. P(j).team \in {1, 2, None} /\ P(j).squad \in Squads \cup {0} /\ P(j).ft \in 0..2 /\ (j = i) \in BOOLEAN
    BY RosterIs, PlayerIs
  <2> QED
    <3> DEFINE l == (j = i)
    <3>1. l \in BOOLEAN
      OBVIOUS
    <3> HIDE DEF l
    <3>2. LET q == Posted(P(j), P(j).team, P(j).squad, P(j).ft, l)
          IN  Able(q) /\ q.team = P(j).team /\ q.squad = P(j).squad /\ q.ft = P(j).ft /\ q.lead = l
      BY <2>1, <3>1, PostedIs
    <3> QED
      BY <3>2 DEF l
<1>5. /\ r = [j \in Everyone |-> r[j]] /\ Len(r) = Len(roster)
      /\ \A j \in Everyone : /\ Able(r[j]) /\ r[j].team = P(j).team /\ r[j].squad = P(j).squad /\ r[j].ft = P(j).ft
                             /\ Mate(j) => r[j].lead = (j = i)
                             /\ ~Mate(j) => r[j] = P(j)
  BY <1>1, <1>3, <1>4
<1> HIDE DEF r
<1>6. OneHead(r)
  <2> SUFFICES ASSUME NEW k \in Everyone, NEW l \in Everyone,
                      r[k].team = r[l].team, r[k].squad = r[l].squad, r[k].ft = r[l].ft,
                      r[k].squad # 0, r[k].lead, r[l].lead
               PROVE  k = l
    BY <1>1, <1>5 DEF OneHead
  <2>1. Mate(k) <=> Mate(l)
    BY <1>5
  <2>2. CASE Mate(k)
    BY <1>5, <2>1, <2>2
  <2>3. CASE ~Mate(k)
    <3>1. r[k] = P(k) /\ r[l] = P(l)
      BY <1>5, <2>1, <2>3
    <3> QED
      BY <1>1, <3>1 DEF RosterInv, OneHead, P
  <2> QED
    BY <2>2, <2>3
<1> QED
  BY <1>2, <1>5, <1>6, FrameFits

PickedFits == picked' # picked => P(picked').team # None /\ picked' \in query

LEMMA RosterKeeps ==
  ASSUME RosterInv, [RosterNext]_rosterVars
  PROVE  RosterInv' /\ (UNCHANGED rosterVars \/ PickedFits)
<1>0. MaxResults \in Nat /\ MaxScore \in Nat /\ hi \in -1..MaxResults /\ picked \in Everyone \cup {None}
  BY RostersAssumption DEF RosterInv, RosterTypeOK
<1> DEFINE Goal == RosterInv' /\ PickedFits
<1>1. ASSUME UNCHANGED rosterVars PROVE RosterInv'
  BY <1>1 DEF rosterVars, RosterInv, RosterTypeOK, Everyone, P
<1>2. ASSUME UNCHANGED <<roster, frames, picked>>, hi' \in -1..MaxResults PROVE Goal
  BY <1>2 DEF RosterInv, RosterTypeOK, Everyone, P, PickedFits
<1>3. ASSUME NEW q, Type(q) PROVE Goal
  <2>1. hi' \in -1..MaxResults /\ UNCHANGED <<roster, frames, picked>>
    BY <1>0, <1>3 DEF Type
  <2> QED
    BY <1>2, <2>1
<1>4. ASSUME ArrowDown PROVE Goal
  <2>1. hi' = MinOf(hi + 1, Len(Matches) - 1) /\ UNCHANGED <<roster, frames, picked>>
    BY <1>4 DEF ArrowDown
  <2>2. Len(Matches) \in 0..MaxResults
    BY MatchesAre
  <2>3. hi' \in -1..MaxResults
    BY <1>0, <2>1, <2>2 DEF MinOf
  <2> QED
    BY <1>2, <2>1, <2>3
<1>5. ASSUME ArrowUp PROVE Goal
  <2>1. hi' \in -1..MaxResults /\ UNCHANGED <<roster, frames, picked>>
    BY <1>0, <1>5 DEF ArrowUp, MaxOf
  <2> QED
    BY <1>2, <2>1
<1>6. ASSUME EscapeSearch PROVE Goal
  <2>1. hi' \in -1..MaxResults /\ UNCHANGED <<roster, frames, picked>>
    BY <1>0, <1>6 DEF EscapeSearch
  <2> QED
    BY <1>2, <2>1
<1>7. ASSUME OutsideClick \/ Focus \/ Clear PROVE Goal
  <2>1. hi' \in -1..MaxResults /\ UNCHANGED <<roster, frames, picked>>
    BY <1>0, <1>7 DEF OutsideClick, Focus, Clear
  <2> QED
    BY <1>2, <2>1
<1>8. ASSUME NEW n \in 1..MaxResults, Hover(n) PROVE Goal
  <2>1. hi' \in -1..MaxResults /\ UNCHANGED <<roster, frames, picked>>
    BY <1>0, <1>8 DEF Hover
  <2> QED
    BY <1>2, <2>1
<1>9. ASSUME NEW n, Pick(n) PROVE Goal
  BY <1>9, PickFits DEF PickedFits
<1>10. ASSUME NEW i \in Everyone, NEW s \in Squads \cup {0}, NEW f \in {0, 1, 2}, Joins(i, s, f) PROVE Goal
  <2> DEFINE l == s # 0 /\ Free(P(i).team, s, f)
             p == Posted(P(i), P(i).team, s, f, l)
  <2>1. FrameWith(i, p)
    BY <1>10 DEF Joins
  <2>2. P(i).team \in {1, 2, None} /\ f \in 0..2 /\ l \in BOOLEAN
    BY RosterIs, PlayerIs DEF Free
  <2> HIDE DEF l
  <2>3. Able(p) /\ p.team = P(i).team /\ p.squad = s /\ p.ft = f /\ p.lead = l
    BY <2>2, PostedIs
  <2> HIDE DEF p
  <2>4. ASSUME p.squad # 0 /\ p.lead, NEW j \in Everyone,
               j # i /\ P(j).team = p.team /\ P(j).squad = p.squad /\ P(j).ft = p.ft
        PROVE  ~P(j).lead
    <3>1. Free(P(i).team, s, f)
      BY <2>3, <2>4 DEF l
    <3> QED
      BY <2>3, <2>4, <3>1 DEF Free
  <2>5. RosterInv' /\ picked' = picked
    BY <2>1, <2>3, <2>4, ManFits
  <2> QED
    BY <2>5 DEF PickedFits
<1>11. ASSUME NEW i \in Everyone, Promoted(i) PROVE Goal
  BY <1>11, PromotedFits DEF PickedFits
<1>12. ASSUME NEW i \in Everyone, Scores(i) PROVE Goal
  <2> DEFINE c == <<P(i).life, P(i).health, P(i).pawn>>
  <2>1. P(i).score < MaxScore /\ FrameWith(i, Faring(P(i), P(i).score + 1, c[1], c[2], c[3]))
    BY <1>12 DEF Scores
  <2>2. c \in Conditions /\ P(i).score + 1 \in 0..MaxScore
    <3>1. P(i).score \in 0..MaxScore
      BY RosterIs, PlayerIs
    <3> QED
      BY <1>0, <2>1, <3>1 DEF RosterInv, RosterTypeOK
  <2> HIDE DEF c
  <2>3. RosterInv' /\ picked' = picked
    BY <2>1, <2>2, FaringFits
  <2> QED
    BY <2>3 DEF PickedFits
<1>13. ASSUME NEW i \in Everyone, Leaves(i) PROVE Goal
  <2> DEFINE l == FALSE
             z == 0
             p == Posted(P(i), None, z, z, l)
  <2>1. FrameWith(i, p) /\ z = 0
    BY <1>13 DEF Leaves
  <2>2. Able(p) /\ p.squad = z
    <3>1. None \in {1, 2, None} /\ z \in Squads \cup {0} /\ z \in 0..2 /\ l \in BOOLEAN
      OBVIOUS
    <3> HIDE DEF l, z
    <3> QED
      BY <3>1, PostedIs
  <2> HIDE DEF p
  <2>3. RosterInv' /\ picked' = picked
    BY <2>1, <2>2, ManFits
  <2> QED
    BY <2>3 DEF PickedFits
<1>14. ASSUME NEW i \in Everyone, NEW c \in Conditions, Fares(i, c) PROVE Goal
  <2>1. FrameWith(i, Faring(P(i), P(i).score, c[1], c[2], c[3]))
    BY <1>14 DEF Fares
  <2>2. P(i).score \in 0..MaxScore
    BY RosterIs, PlayerIs
  <2>3. RosterInv' /\ picked' = picked
    BY <2>1, <2>2, FaringFits
  <2> QED
    BY <2>3 DEF PickedFits
<1> HIDE DEF Goal
<1>15. ASSUME RosterNext PROVE Goal
  BY <1>3, <1>4, <1>5, <1>6, <1>7, <1>8, <1>9, <1>10, <1>11, <1>12, <1>13, <1>14, <1>15
  DEF RosterNext, Enter, ClickMatch
<1> QED
  BY <1>1, <1>15 DEF Goal

LEMMA RosterParts ==
  /\ ScreenInit => RosterInit \/ RosterOff
  /\ [ScreenNext]_screenVars => [RosterNext]_rosterVars
<1>1. ASSUME UNCHANGED screenVars PROVE [RosterNext]_rosterVars
  BY <1>1 DEF screenVars
<1>2. ASSUME ScreenNext PROVE [RosterNext]_rosterVars
  BY <1>2 DEF ScreenNext
<1>3. ScreenInit => RosterInit \/ RosterOff
  BY DEF ScreenInit
<1> QED
  BY <1>1, <1>2, <1>3

(* In every frame each player has one row of the scoreboard, under his     *)
(* squad and with its totals adding up, leaders head their rows and fire   *)
(* teams, panels and pins tell alike who is down, orders start at the man  *)
(* they are said to come from; and what the search picks is on its list    *)
(* (TeamColumn, PlayerPanel, findPlacer, PlayerSearch).                    *)
THEOREM RostersAgree == ScreenSpec => RosterAgrees
<1>1. ScreenInit => RosterInv
  BY RosterParts, RosterStarts
<1>2. RosterInv /\ [ScreenNext]_screenVars => RosterInv'
  BY RosterParts, RosterKeeps
<1>3. RosterInv /\ [ScreenNext]_screenVars =>
        [picked' # picked => P(picked').team # None /\ picked' \in query]_rosterVars
  BY RosterParts, RosterKeeps DEF PickedFits
<1>4. RosterInv => RosterTypeOK /\ EveryoneHasRow /\ LeadersOnTop /\ DownedAgrees /\ LinesNamePlacer
  BY RowsForEveryone, LeadersLead, DownedTells, LinesTell DEF RosterInv
<1> QED
  BY <1>1, <1>2, <1>3, <1>4, PTL DEF ScreenSpec, RosterAgrees, PicksFromList

-----------------------------------------------------------------------------
(* What a single mark says *)

MarksIn(s) == {s[k] : k \in 1..Len(s)}

LEMMA MarksOne ==
  ASSUME NEW layer, NEW part, NEW of, NEW look
  PROVE  /\ IsList(Mark(layer, part, of, look))
         /\ MarksIn(Mark(layer, part, of, look)) = {[layer |-> layer, part |-> part, of |-> of, look |-> look]}
<1> DEFINE m == [layer |-> layer, part |-> part, of |-> of, look |-> look]
<1>1. Mark(layer, part, of, look) = <<m>>
  BY DEF Mark
<1> HIDE DEF m
<1>2. <<m>> \in Seq({m}) /\ Len(<<m>>) = 1 /\ <<m>>[1] = m
  OBVIOUS
<1>3. \A k \in 1..1 : k = 1
  OBVIOUS
<1>4. IsList(<<m>>)
  BY <1>2, ListIs
<1> DEFINE s == <<m>>
<1>5. Len(s) = 1 /\ s[1] = m /\ 1 \in 1..1
  BY <1>2
<1> HIDE DEF s
<1>6. MarksIn(s) = {m}
  BY <1>3, <1>5 DEF MarksIn
<1> QED
  BY <1>1, <1>4, <1>6 DEF m, s

LEMMA MarksOnly ==
  ASSUME NEW c, NEW m, c => IsList(m)
  PROVE  /\ IsList(Only(c, m))
         /\ MarksIn(Only(c, m)) = IF c THEN MarksIn(m) ELSE {}
<1>1. << >> \in Seq({}) /\ 1..Len(<< >>) = {}
  OBVIOUS
<1>2. IsList(<< >>) /\ MarksIn(<< >>) = {}
  BY <1>1, ListIs DEF MarksIn
<1> QED
  BY <1>2 DEF Only

LEMMA MarksJoin ==
  ASSUME NEW s, NEW t, IsList(s), IsList(t)
  PROVE  IsList(s \o t) /\ MarksIn(s \o t) = MarksIn(s) \cup MarksIn(t)
<1>1. /\ IsList(s \o t) /\ Len(s) \in Nat /\ Len(t) \in Nat /\ Len(s \o t) = Len(s) + Len(t)
      /\ \A k \in 1..Len(s) : k \in 1..Len(s \o t) /\ (s \o t)[k] = s[k]
      /\ \A k \in 1..Len(t) : Len(s) + k \in 1..Len(s \o t) /\ (s \o t)[Len(s) + k] = t[k]
      /\ \A k \in 1..Len(s \o t) : k > Len(s) => k - Len(s) \in 1..Len(t) /\ (s \o t)[k] = t[k - Len(s)]
  BY ListsJoin
<1> DEFINE r == s \o t
<1> HIDE DEF r
<1>2. \A k \in 1..Len(r) : r[k] \in MarksIn(s) \cup MarksIn(t)
  <2> SUFFICES ASSUME NEW k \in 1..Len(r) PROVE r[k] \in MarksIn(s) \cup MarksIn(t)
    OBVIOUS
  <2>1. CASE k > Len(s)
    BY <1>1, <2>1 DEF MarksIn, r
  <2>2. CASE ~(k > Len(s))
    <3>1. k \in 1..Len(s)
      BY <1>1, <2>2 DEF r
    <3> QED
      BY <1>1, <3>1 DEF MarksIn, r
  <2> QED
    BY <2>1, <2>2
<1>3. \A x \in MarksIn(s) : x \in MarksIn(r)
  BY <1>1 DEF MarksIn, r
<1>4. \A x \in MarksIn(t) : x \in MarksIn(r)
  BY <1>1 DEF MarksIn, r
<1>5. \A x \in MarksIn(r) : x \in MarksIn(s) \cup MarksIn(t)
  BY <1>2 DEF MarksIn
<1> QED
  BY <1>1, <1>3, <1>4, <1>5 DEF r

LEMMA MarksAll ==
  ASSUME NEW n \in Nat, NEW ss, ss = [i \in 1..n |-> ss[i]], \A i \in 1..n : IsList(ss[i])
  PROVE  /\ IsList(FlattenSeq(ss))
         /\ MarksIn(FlattenSeq(ss)) = UNION {MarksIn(ss[i]) : i \in 1..n}
<1> DEFINE r == FlattenSeq(ss)
<1>1. PICK X : ss \in Seq(Seq(X)) /\ Len(ss) = n
  BY ListsAre
<1>2. r \in Seq(X)
  BY <1>1, FlattenType
<1>3. /\ \A k \in 1..Len(r) : \E i \in 1..Len(ss) : \E j \in 1..Len(ss[i]) : r[k] = ss[i][j]
      /\ \A i \in 1..Len(ss) : \A j \in 1..Len(ss[i]) : \E k \in 1..Len(r) : r[k] = ss[i][j]
  BY <1>1, FlattenHolds
<1>4. IsList(r)
  BY <1>2, ListIs
<1> HIDE DEF r
<1>5. ASSUME NEW x \in MarksIn(r) PROVE x \in UNION {MarksIn(ss[i]) : i \in 1..n}
  <2>1. PICK k \in 1..Len(r) : x = r[k]
    BY DEF MarksIn
  <2>2. PICK i \in 1..Len(ss) : \E j \in 1..Len(ss[i]) : r[k] = ss[i][j]
    BY <1>3
  <2>3. x \in MarksIn(ss[i]) /\ i \in 1..n
    BY <1>1, <2>1, <2>2 DEF MarksIn
  <2> QED
    BY <2>3
<1>6. ASSUME NEW i \in 1..n, NEW x \in MarksIn(ss[i]) PROVE x \in MarksIn(r)
  <2>1. PICK j \in 1..Len(ss[i]) : x = ss[i][j]
    BY DEF MarksIn
  <2>2. i \in 1..Len(ss)
    BY <1>1
  <2>3. \E k \in 1..Len(r) : r[k] = ss[i][j]
    BY <1>3, <2>2
  <2> QED
    BY <2>1, <2>3 DEF MarksIn
<1> QED
  BY <1>4, <1>5, <1>6 DEF r

\* The marks of a man on foot.
Opacity(p) == IF Faint(p) THEN 30 ELSE IF p.down THEN 40 ELSE 100
Glyph(p) == Picture(p, RoleIcon(p.role))
BadgeMark(p) ==
  [layer |-> "players", part |-> "badge", of |-> p.key,
   look |-> <<TeamColor(p.team), IF Ready(Glyph(p)) THEN Glyph(p) ELSE None, Opacity(p)>>]
NeedleMark(p) == [layer |-> "players", part |-> "needle", of |-> p.key, look |-> <<TeamColor(p.team), Opacity(p)>>]
CrossMark(p) == [layer |-> "players", part |-> "cross", of |-> p.key, look |-> <<TeamColor(p.team)>>]
RingMark(p) ==
  [layer |-> "players", part |-> "ring", of |-> p.key, look |-> <<IF p.key = followKey THEN "white" ELSE "amber">>]
NumberMark(p) ==
  [layer |-> "players", part |-> "number", of |-> p.key, look |-> <<p.squad, TeamColor(p.team), Faint(p)>>]
Numbered(p) ==
  /\ p.squad # None
  /\ \/ layers["squadNumbers"]
     \/ IsSquadLeader(p.role) /\ layers["slNumbers"]

PinOf(p) ==
  {BadgeMark(p)} \cup (IF p.yaw THEN {NeedleMark(p)} ELSE {}) \cup (IF p.down THEN {CrossMark(p)} ELSE {})
  \cup (IF InFollowSquad(p) THEN {RingMark(p)} ELSE {})
NumberOf(p) == IF Numbered(p) THEN {NumberMark(p)} ELSE {}
Feet == {i \in 1..Len(S.players) : OnFoot(S.players[i])}

LEMMA PinIs ==
  ASSUME NEW p
  PROVE  LET s == PlayerPin(p) \o Only(p.down, DownedMarker(p)) \o Only(InFollowSquad(p), SquadRing(p))
         IN  IsList(s) /\ MarksIn(s) = PinOf(p)
<1> DEFINE a == Mark("players", "badge", p.key,
                     <<TeamColor(p.team), IF Ready(Glyph(p)) THEN Glyph(p) ELSE None, Opacity(p)>>)
           b == Mark("players", "needle", p.key, <<TeamColor(p.team), Opacity(p)>>)
           bb == Only(p.yaw, b)
           cc == Only(p.down, DownedMarker(p))
           dd == Only(InFollowSquad(p), SquadRing(p))
<1>1. IsList(a) /\ MarksIn(a) = {BadgeMark(p)}
  BY MarksOne DEF BadgeMark
<1>2. IsList(b) /\ MarksIn(b) = {NeedleMark(p)}
  BY MarksOne DEF NeedleMark
<1>3. IsList(DownedMarker(p)) /\ MarksIn(DownedMarker(p)) = {CrossMark(p)}
  BY MarksOne DEF CrossMark, DownedMarker
<1>4. IsList(SquadRing(p)) /\ MarksIn(SquadRing(p)) = {RingMark(p)}
  BY MarksOne DEF RingMark, SquadRing
<1>5. PlayerPin(p) = a \o bb
  BY DEF PlayerPin, Opacity, Glyph
<1> HIDE DEF a, b
<1>6. IsList(bb) /\ MarksIn(bb) = IF p.yaw THEN {NeedleMark(p)} ELSE {}
  BY <1>2, MarksOnly
<1>7. IsList(cc) /\ MarksIn(cc) = IF p.down THEN {CrossMark(p)} ELSE {}
  BY <1>3, MarksOnly
<1>8. IsList(dd) /\ MarksIn(dd) = IF InFollowSquad(p) THEN {RingMark(p)} ELSE {}
  BY <1>4, MarksOnly
<1> HIDE DEF bb, cc, dd
<1>9. IsList(a \o bb) /\ MarksIn(a \o bb) = MarksIn(a) \cup MarksIn(bb)
  BY <1>1, <1>6, MarksJoin
<1>10. IsList(PlayerPin(p) \o cc) /\ MarksIn(PlayerPin(p) \o cc) = MarksIn(a) \cup MarksIn(bb) \cup MarksIn(cc)
  BY <1>5, <1>7, <1>9, MarksJoin
<1> DEFINE s == PlayerPin(p) \o cc \o dd
<1>11. IsList(s) /\ MarksIn(s) = MarksIn(a) \cup MarksIn(bb) \cup MarksIn(cc) \cup MarksIn(dd)
  BY <1>8, <1>10, MarksJoin
<1> HIDE DEF s
<1>12. IsList(s) /\ MarksIn(s) = PinOf(p)
  BY <1>1, <1>6, <1>7, <1>8, <1>11 DEF PinOf
<1> QED
  BY <1>12 DEF s, cc, dd

LEMMA NumberIs ==
  ASSUME NEW p
  PROVE  IsList(PlayerNumber(p)) /\ MarksIn(PlayerNumber(p)) = NumberOf(p)
<1> DEFINE a == NumberBadge("players", p.key, p.squad, TeamColor(p.team), Faint(p))
<1>1. IsList(a) /\ MarksIn(a) = {NumberMark(p)}
  BY MarksOne DEF NumberBadge, NumberMark
<1>2. PlayerNumber(p) = Only(Numbered(p), a)
  BY DEF PlayerNumber, Numbered
<1> HIDE DEF a
<1> QED
  BY <1>1, <1>2, MarksOnly DEF NumberOf

LEMMA PlayerMarksAre ==
  ASSUME scene \in 1..Len(Scenes)
  PROVE  /\ IsList(PlayerMarks)
         /\ MarksIn(PlayerMarks) = UNION {PinOf(S.players[i]) \cup NumberOf(S.players[i]) : i \in Feet}
<1> DEFINE s == S.players
           One(p) == PlayerPin(p) \o Only(p.down, DownedMarker(p)) \o Only(InFollowSquad(p), SquadRing(p))
           ss == [i \in 1..Len(s) |-> Only(OnFoot(s[i]), One(s[i]))]
           tt == [i \in 1..Len(s) |-> Only(OnFoot(s[i]), PlayerNumber(s[i]))]
<1>1. PlayerMarks = FlattenSeq(ss) \o FlattenSeq(tt)
  BY DEF PlayerMarks, ForEach
<1>2. Len(s) \in Nat /\ ss = [i \in 1..Len(s) |-> ss[i]] /\ tt = [i \in 1..Len(s) |-> tt[i]]
  BY SceneIs
<1>3. ASSUME NEW i \in 1..Len(s)
      PROVE  /\ IsList(ss[i]) /\ MarksIn(ss[i]) = IF OnFoot(s[i]) THEN PinOf(s[i]) ELSE {}
             /\ IsList(tt[i]) /\ MarksIn(tt[i]) = IF OnFoot(s[i]) THEN NumberOf(s[i]) ELSE {}
  <2> DEFINE p == s[i]
  <2>1. ss[i] = Only(OnFoot(p), One(p)) /\ tt[i] = Only(OnFoot(p), PlayerNumber(p))
    OBVIOUS
  <2> HIDE DEF ss, tt, p
  <2>2. IsList(One(p)) /\ MarksIn(One(p)) = PinOf(p)
    BY PinIs
  <2>3. IsList(PlayerNumber(p)) /\ MarksIn(PlayerNumber(p)) = NumberOf(p)
    BY NumberIs
  <2> HIDE DEF One
  <2>4. IsList(ss[i]) /\ MarksIn(ss[i]) = IF OnFoot(p) THEN PinOf(p) ELSE {}
    BY <2>1, <2>2, MarksOnly
  <2>5. IsList(tt[i]) /\ MarksIn(tt[i]) = IF OnFoot(p) THEN NumberOf(p) ELSE {}
    BY <2>1, <2>3, MarksOnly
  <2> QED
    BY <2>4, <2>5 DEF p
<1> HIDE DEF ss, tt, s
<1>4. IsList(FlattenSeq(ss)) /\ MarksIn(FlattenSeq(ss)) = UNION {MarksIn(ss[i]) : i \in 1..Len(s)}
  BY <1>2, <1>3, MarksAll
<1>5. IsList(FlattenSeq(tt)) /\ MarksIn(FlattenSeq(tt)) = UNION {MarksIn(tt[i]) : i \in 1..Len(s)}
  BY <1>2, <1>3, MarksAll
<1>6. IsList(PlayerMarks) /\ MarksIn(PlayerMarks) = MarksIn(FlattenSeq(ss)) \cup MarksIn(FlattenSeq(tt))
  BY <1>1, <1>4, <1>5, MarksJoin
<1>7. UNION {MarksIn(ss[i]) : i \in 1..Len(s)} = UNION {PinOf(s[i]) : i \in Feet}
  BY <1>3 DEF Feet, s
<1>8. UNION {MarksIn(tt[i]) : i \in 1..Len(s)} = UNION {NumberOf(s[i]) : i \in Feet}
  BY <1>3 DEF Feet, s
<1> QED
  BY <1>4, <1>5, <1>6, <1>7, <1>8 DEF s

LEMMA PaintMarks ==
  ASSUME scene \in 1..Len(Scenes), IsList(ruler)
  PROVE  /\ \A n \in 1..14 : Paints(Pieces[n], PieceKinds[n], Named)
         /\ MarksIn(Paint) = UNION {MarksIn(Pieces[n]) : n \in 1..14}
<1> DEFINE ss == Pieces
<1>1. ASSUME NEW n \in 1..14 PROVE Paints(ss[n], PieceKinds[n], Named)
  BY PiecesPaint
<1>2. ss = [i \in 1..14 |-> ss[i]] /\ Paint = FlattenSeq(ss)
  BY PiecesAre, PaintIsPieces
<1>3. \A n \in 1..14 : IsList(ss[n])
  BY <1>1 DEF Paints
<1> HIDE DEF ss
<1>4. MarksIn(FlattenSeq(ss)) = UNION {MarksIn(ss[n]) : n \in 1..14}
  BY <1>2, <1>3, MarksAll
<1> QED
  BY <1>1, <1>2, <1>4 DEF ss

\* Of the marks of a player's layer every one is of a man on foot.
LEMMA PaintedMen ==
  ASSUME scene \in 1..Len(Scenes), IsList(ruler)
  PROVE  \A m : m \in MarksIn(Paint) /\ m.layer = "players" <=>
                 /\ layers["players"]
                 /\ \E i \in Feet : m \in PinOf(S.players[i]) \cup NumberOf(S.players[i])
<1>1. /\ \A n \in 1..14 : Paints(Pieces[n], PieceKinds[n], Named)
      /\ MarksIn(Paint) = UNION {MarksIn(Pieces[n]) : n \in 1..14}
  BY PaintMarks
<1>2. Pieces[12] = On("players", PlayerMarks) /\ 12 \in 1..14
  BY DEF Pieces
<1>3. /\ IsList(PlayerMarks)
      /\ MarksIn(PlayerMarks) = UNION {PinOf(S.players[i]) \cup NumberOf(S.players[i]) : i \in Feet}
  BY PlayerMarksAre
<1>4. MarksIn(Pieces[12]) = IF layers["players"] THEN MarksIn(PlayerMarks) ELSE {}
  BY <1>2, <1>3, MarksOnly DEF On
<1>5. ASSUME NEW m, m \in MarksIn(Paint), m.layer = "players" PROVE m \in MarksIn(Pieces[12])
  <2>1. PICK n \in 1..14 : m \in MarksIn(Pieces[n])
    BY <1>1, <1>5
  <2>2. <<m.layer, m.part>> \in PieceKinds[n]
    BY <1>1, <2>1 DEF MarksIn, Paints
  <2>3. <<m.layer, m.part>>[1] = "players"
    BY <1>5
  <2>4. n = 12
    BY <2>2, <2>3, KindsAre DEF KindOf
  <2> QED
    BY <2>1, <2>4
<1>6. ASSUME NEW i, NEW m \in PinOf(S.players[i]) \cup NumberOf(S.players[i]) PROVE m.layer = "players"
  BY DEF PinOf, NumberOf, BadgeMark, NeedleMark, CrossMark, RingMark, NumberMark
<1>7. ASSUME NEW m, layers["players"], NEW i \in Feet, m \in PinOf(S.players[i]) \cup NumberOf(S.players[i])
      PROVE  m \in MarksIn(Paint)
  <2>1. m \in MarksIn(Pieces[12])
    BY <1>3, <1>4, <1>7
  <2> QED
    BY <1>1, <1>2, <2>1
<1>8. ASSUME NEW m, m \in MarksIn(Paint), m.layer = "players"
      PROVE  layers["players"] /\ \E i \in Feet : m \in PinOf(S.players[i]) \cup NumberOf(S.players[i])
  BY <1>3, <1>4, <1>5, <1>8
<1> QED
  BY <1>6, <1>7, <1>8

\* The highlight: the followed player, when he is in the frame and in a squad.
Lead == {i \in 1..Len(S.players) : S.players[i].key = followKey /\ S.players[i].squad # None}
Mates ==
  {S.players[i].key : i \in {j \in 1..Len(S.players) :
     \E l \in Lead : S.players[j].team = S.players[l].team /\ S.players[j].squad = S.players[l].squad}}

LEMMA KeysTell ==
  ASSUME scene \in 1..Len(Scenes)
  PROVE  /\ \A i, j \in 1..Len(S.players) : S.players[i].key = S.players[j].key => i = j
         /\ \A i, j \in 1..Len(S.vehicles) : S.vehicles[i].id = S.vehicles[j].id => i = j
         /\ \A i \in 1..Len(S.vehicles) :
              /\ \A k \in 1..Len(S.vehicles[i].seats) : S.vehicles[i].seats[k].idx \in Nat
              /\ \A k, l \in 1..Len(S.vehicles[i].seats) :
                   S.vehicles[i].seats[k].idx = S.vehicles[i].seats[l].idx => k = l
<1> DEFINE t == Scenes[scene]
<1>1. /\ \A i, j \in 1..Len(t.players) : t.players[i].key = t.players[j].key => i = j
      /\ \A i, j \in 1..Len(t.vehicles) : t.vehicles[i].id = t.vehicles[j].id => i = j
      /\ \A i \in 1..Len(t.vehicles) :
              /\ \A k \in 1..Len(t.vehicles[i].seats) : t.vehicles[i].seats[k].idx \in Nat
              /\ \A k, l \in 1..Len(t.vehicles[i].seats) :
                   t.vehicles[i].seats[k].idx = t.vehicles[i].seats[l].idx => k = l
  BY PaintAssumption
<1>2. S = t
  BY DEF S
<1> HIDE DEF t
<1> QED
  BY <1>1, <1>2

LEMMA HighlightIs ==
  ASSUME scene \in 1..Len(Scenes)
  PROVE  /\ FollowHighlight = {S.players[l] : l \in Lead}
         /\ FollowHighlight = {} <=> Lead = {}
         /\ \A i \in 1..Len(S.players) : InFollowSquad(S.players[i]) <=> S.players[i].key \in Mates
<1> DEFINE s == S.players
           them == {i \in 1..Len(s) : s[i].key = followKey}
<1>1. Len(s) \in Nat /\ \A i, j \in 1..Len(s) : s[i].key = s[j].key => i = j
  BY SceneIs, KeysTell
<1>2. \A i \in 1..Len(s) : s[i].key # None
  BY SceneIs
<1> HIDE DEF s
<1>3. ASSUME NEW i \in them PROVE Min(them) = i /\ followKey # None
  <2>1. them = {i}
    BY <1>1, <1>3
  <2>2. them \in SUBSET Int /\ \A x \in them : i <= x
    BY <1>1, <2>1
  <2>3. Min(them) \in them
    BY <1>1, <2>1, <2>2, MinIs
  <2> QED
    BY <1>2, <2>1, <2>3
<1>4. {j \in them : followKey # None /\ j = Min(them) /\ s[j].squad # None} = Lead
  BY <1>3 DEF Lead, s
<1>5. FollowHighlight = {S.players[l] : l \in Lead}
  BY <1>4 DEF FollowHighlight, s
<1>6. ASSUME NEW i \in 1..Len(s) PROVE InFollowSquad(s[i]) <=> s[i].key \in Mates
  <2>1. InFollowSquad(s[i]) <=> \E l \in Lead : s[i].team = s[l].team /\ s[i].squad = s[l].squad
    BY <1>5 DEF InFollowSquad, s
  <2>2. s[i].key \in Mates <=> \E l \in Lead : s[i].team = s[l].team /\ s[i].squad = s[l].squad
    BY <1>1 DEF Mates, s
  <2> QED
    BY <2>1, <2>2
<1> QED
  BY <1>5, <1>6 DEF s

\* The badges, rings and numbers of the players' layer.
LEMMA MenAre ==
  ASSUME scene \in 1..Len(Scenes), IsList(ruler), NEW m
  PROVE  /\ m \in MarksIn(Paint) /\ m.layer = "players" /\ m.part = "badge" <=>
              layers["players"] /\ \E i \in Feet : m = BadgeMark(S.players[i])
         /\ m \in MarksIn(Paint) /\ m.layer = "players" /\ m.part = "ring" <=>
              layers["players"] /\ \E i \in Feet : InFollowSquad(S.players[i]) /\ m = RingMark(S.players[i])
         /\ m \in MarksIn(Paint) /\ m.layer = "players" /\ m.part = "number" <=>
              layers["players"] /\ \E i \in Feet : Numbered(S.players[i]) /\ m = NumberMark(S.players[i])
<1>1. m \in MarksIn(Paint) /\ m.layer = "players" <=>
        layers["players"] /\ \E i \in Feet : m \in PinOf(S.players[i]) \cup NumberOf(S.players[i])
  BY PaintedMen
<1>2. ASSUME NEW p
      PROVE  /\ BadgeMark(p).part = "badge" /\ NeedleMark(p).part = "needle" /\ CrossMark(p).part = "cross"
             /\ RingMark(p).part = "ring" /\ NumberMark(p).part = "number"
  BY DEF BadgeMark, NeedleMark, CrossMark, RingMark, NumberMark
<1>3. ASSUME NEW p
      PROVE  /\ m \in PinOf(p) \cup NumberOf(p) /\ m.part = "badge" <=> m = BadgeMark(p)
             /\ m \in PinOf(p) \cup NumberOf(p) /\ m.part = "ring" <=> InFollowSquad(p) /\ m = RingMark(p)
             /\ m \in PinOf(p) \cup NumberOf(p) /\ m.part = "number" <=> Numbered(p) /\ m = NumberMark(p)
  BY <1>2 DEF PinOf, NumberOf
<1> QED
  BY <1>1, <1>3

MenOf(q, part, Looks(_)) ==
  {q[i].of : i \in {j \in 1..Len(q) : /\ q[j].layer = "players" /\ q[j].part = part /\ Looks(q[j].look)}}
Spotlit(q) ==
  LET pinned == MenOf(q, "badge", LAMBDA look : TRUE)
  IN  /\ MenOf(q, "ring", LAMBDA look : look[1] = "white") = pinned \cap Mates \cap {followKey}
      /\ MenOf(q, "ring", LAMBDA look : look[1] = "amber") = (pinned \cap Mates) \ {followKey}
      /\ MenOf(q, "badge", LAMBDA look : look[3] = 30) = IF Lead = {} THEN {} ELSE pinned \ Mates
      /\ MenOf(q, "number", LAMBDA look : look[3]) \subseteq IF Lead = {} THEN {} ELSE pinned \ Mates

LEMMA SpotlightHolds ==
  ASSUME scene \in {None} \cup 1..Len(Scenes), IsList(ruler)
  PROVE  SpotlightOnSquad
<1> SUFFICES ASSUME scene # None PROVE SpotlightOnSquad
  BY DEF SpotlightOnSquad, Painted
<1>1. scene \in 1..Len(Scenes) /\ Painted = {Paint}
  BY DEF Painted
<1> DEFINE paint == Paint
           s == S.players
           pinned == {paint[i].of : i \in {j \in 1..Len(paint) : /\ paint[j].layer = "players"
                                                              /\ paint[j].part = "badge" /\ TRUE}}
           white == {paint[i].of : i \in {j \in 1..Len(paint) : /\ paint[j].layer = "players"
                                                      /\ paint[j].part = "ring" /\ paint[j].look[1] = "white"}}
           amber == {paint[i].of : i \in {j \in 1..Len(paint) : /\ paint[j].layer = "players"
                                                      /\ paint[j].part = "ring" /\ paint[j].look[1] = "amber"}}
           faint == {paint[i].of : i \in {j \in 1..Len(paint) : /\ paint[j].layer = "players"
                                                      /\ paint[j].part = "badge" /\ paint[j].look[3] = 30}}
           dim == {paint[i].of : i \in {j \in 1..Len(paint) : /\ paint[j].layer = "players"
                                                      /\ paint[j].part = "number" /\ paint[j].look[3]}}
           show == layers["players"]
<1>b. SpotlightOnSquad <=> \A q \in Painted : Spotlit(q)
  BY DEF SpotlightOnSquad, Spotlit, MenOf, Lead, Mates
<1>c. Spotlit(paint) <=>
        /\ white = pinned \cap Mates \cap {followKey}
        /\ amber = (pinned \cap Mates) \ {followKey}
        /\ faint = IF Lead = {} THEN {} ELSE pinned \ Mates
        /\ dim \subseteq IF Lead = {} THEN {} ELSE pinned \ Mates
  BY DEF Spotlit, MenOf
<1>d. SpotlightOnSquad <=> Spotlit(paint)
  BY <1>1, <1>b
<1>a. SpotlightOnSquad <=>
        /\ white = pinned \cap Mates \cap {followKey}
        /\ amber = (pinned \cap Mates) \ {followKey}
        /\ faint = IF Lead = {} THEN {} ELSE pinned \ Mates
        /\ dim \subseteq IF Lead = {} THEN {} ELSE pinned \ Mates
  BY <1>c, <1>d
<1>2. \A i \in 1..Len(paint) : paint[i] \in MarksIn(paint)
  BY DEF MarksIn
<1>3. \A m \in MarksIn(paint) : \E i \in 1..Len(paint) : paint[i] = m
  BY DEF MarksIn
<1>4. \A m : /\ m \in MarksIn(paint) /\ m.layer = "players" /\ m.part = "badge" <=>
                  show /\ \E i \in Feet : m = BadgeMark(s[i])
             /\ m \in MarksIn(paint) /\ m.layer = "players" /\ m.part = "ring" <=>
                  show /\ \E i \in Feet : InFollowSquad(s[i]) /\ m = RingMark(s[i])
             /\ m \in MarksIn(paint) /\ m.layer = "players" /\ m.part = "number" <=>
                  show /\ \E i \in Feet : Numbered(s[i]) /\ m = NumberMark(s[i])
  BY <1>1, MenAre
<1>5. ASSUME NEW p
      PROVE  /\ BadgeMark(p).of = p.key /\ (BadgeMark(p).look[3] = 30 <=> Faint(p))
             /\ RingMark(p).of = p.key /\ RingMark(p).look[1] = IF p.key = followKey THEN "white" ELSE "amber"
             /\ NumberMark(p).of = p.key /\ NumberMark(p).look[3] = Faint(p)
  BY DEF BadgeMark, RingMark, NumberMark, Opacity
<1>6. /\ FollowHighlight = {} <=> Lead = {}
      /\ \A i \in 1..Len(s) : InFollowSquad(s[i]) <=> s[i].key \in Mates
      /\ \A i, j \in 1..Len(s) : s[i].key = s[j].key => i = j
      /\ Feet \subseteq 1..Len(s)
  BY <1>1, HighlightIs, KeysTell DEF Feet
<1>7. \A i \in 1..Len(s) : Faint(s[i]) <=> Lead # {} /\ s[i].key \notin Mates
  BY <1>6 DEF Faint
<1> HIDE DEF paint, s, show
<1>8. \A e : e \in pinned <=> show /\ \E i \in Feet : e = s[i].key
  <2>1. ASSUME NEW e \in pinned PROVE show /\ \E i \in Feet : e = s[i].key
    <3>1. PICK k \in 1..Len(paint) : paint[k].layer = "players" /\ paint[k].part = "badge" /\ e = paint[k].of
      OBVIOUS
    <3>2. show
      BY <1>2, <1>4, <3>1
    <3>3. PICK i \in Feet : paint[k] = BadgeMark(s[i])
      BY <1>2, <1>4, <3>1
    <3>4. BadgeMark(s[i]).of = s[i].key /\ (BadgeMark(s[i]).look[3] = 30 <=> Faint(s[i]))
      BY <1>5
    <3> QED
      BY <3>1, <3>2, <3>3, <3>4
  <2>2. ASSUME show, NEW i \in Feet PROVE s[i].key \in pinned
    <3>1. BadgeMark(s[i]) \in MarksIn(paint) /\ BadgeMark(s[i]).layer = "players" /\ BadgeMark(s[i]).part = "badge"
      BY <1>4, <2>2
    <3>2. PICK k \in 1..Len(paint) : paint[k] = BadgeMark(s[i])
      BY <1>3, <3>1
    <3>3. BadgeMark(s[i]).of = s[i].key
      BY <1>5
    <3> QED
      BY <3>1, <3>2, <3>3
  <2> QED
    BY <2>1, <2>2
<1>9. \A e : e \in white <=> show /\ \E i \in Feet : e = s[i].key /\ InFollowSquad(s[i]) /\ e = followKey
  <2>1. ASSUME NEW e \in white
        PROVE  show /\ \E i \in Feet : e = s[i].key /\ InFollowSquad(s[i]) /\ e = followKey
    <3>1. PICK k \in 1..Len(paint) : /\ paint[k].layer = "players" /\ paint[k].part = "ring" /\ e = paint[k].of
                                     /\ paint[k].look[1] = "white"
      OBVIOUS
    <3>2. show
      BY <1>2, <1>4, <3>1
    <3>3. PICK i \in Feet : InFollowSquad(s[i]) /\ paint[k] = RingMark(s[i])
      BY <1>2, <1>4, <3>1
    <3>4. RingMark(s[i]).of = s[i].key /\ RingMark(s[i]).look[1] = IF s[i].key = followKey THEN "white" ELSE "amber"
      BY <1>5
    <3> QED
      BY <3>1, <3>2, <3>3, <3>4
  <2>2. ASSUME show, NEW i \in Feet, InFollowSquad(s[i]), s[i].key = followKey PROVE s[i].key \in white
    <3>1. RingMark(s[i]) \in MarksIn(paint) /\ RingMark(s[i]).layer = "players" /\ RingMark(s[i]).part = "ring"
      BY <1>4, <2>2
    <3>2. PICK k \in 1..Len(paint) : paint[k] = RingMark(s[i])
      BY <1>3, <3>1
    <3>3. RingMark(s[i]).look[1] = "white" /\ RingMark(s[i]).of = s[i].key
      BY <1>5, <2>2
    <3> QED
      BY <3>1, <3>2, <3>3
  <2> QED
    BY <2>1, <2>2
<1>10. \A e : e \in amber <=> show /\ \E i \in Feet : e = s[i].key /\ InFollowSquad(s[i]) /\ e # followKey
  <2>1. ASSUME NEW e \in amber
        PROVE  show /\ \E i \in Feet : e = s[i].key /\ InFollowSquad(s[i]) /\ e # followKey
    <3>1. PICK k \in 1..Len(paint) : /\ paint[k].layer = "players" /\ paint[k].part = "ring" /\ e = paint[k].of
                                     /\ paint[k].look[1] = "amber"
      OBVIOUS
    <3>2. show
      BY <1>2, <1>4, <3>1
    <3>3. PICK i \in Feet : InFollowSquad(s[i]) /\ paint[k] = RingMark(s[i])
      BY <1>2, <1>4, <3>1
    <3>4. RingMark(s[i]).of = s[i].key /\ RingMark(s[i]).look[1] = IF s[i].key = followKey THEN "white" ELSE "amber"
      BY <1>5
    <3> QED
      BY <3>1, <3>2, <3>3, <3>4
  <2>2. ASSUME show, NEW i \in Feet, InFollowSquad(s[i]), s[i].key # followKey PROVE s[i].key \in amber
    <3>1. RingMark(s[i]) \in MarksIn(paint) /\ RingMark(s[i]).layer = "players" /\ RingMark(s[i]).part = "ring"
      BY <1>4, <2>2
    <3>2. PICK k \in 1..Len(paint) : paint[k] = RingMark(s[i])
      BY <1>3, <3>1
    <3>3. RingMark(s[i]).look[1] = "amber" /\ RingMark(s[i]).of = s[i].key
      BY <1>5, <2>2
    <3> QED
      BY <3>1, <3>2, <3>3
  <2> QED
    BY <2>1, <2>2
<1>11. \A e : e \in faint <=> show /\ \E i \in Feet : e = s[i].key /\ Faint(s[i])
  <2>1. ASSUME NEW e \in faint PROVE show /\ \E i \in Feet : e = s[i].key /\ Faint(s[i])
    <3>1. PICK k \in 1..Len(paint) : /\ paint[k].layer = "players" /\ paint[k].part = "badge" /\ e = paint[k].of
                                     /\ paint[k].look[3] = 30
      OBVIOUS
    <3>2. show
      BY <1>2, <1>4, <3>1
    <3>3. PICK i \in Feet : paint[k] = BadgeMark(s[i])
      BY <1>2, <1>4, <3>1
    <3>4. BadgeMark(s[i]).of = s[i].key /\ (BadgeMark(s[i]).look[3] = 30 <=> Faint(s[i]))
      BY <1>5
    <3> QED
      BY <3>1, <3>2, <3>3, <3>4
  <2>2. ASSUME show, NEW i \in Feet, Faint(s[i]) PROVE s[i].key \in faint
    <3>1. BadgeMark(s[i]) \in MarksIn(paint) /\ BadgeMark(s[i]).layer = "players" /\ BadgeMark(s[i]).part = "badge"
      BY <1>4, <2>2
    <3>2. PICK k \in 1..Len(paint) : paint[k] = BadgeMark(s[i])
      BY <1>3, <3>1
    <3>3. BadgeMark(s[i]).look[3] = 30 /\ BadgeMark(s[i]).of = s[i].key
      BY <1>5, <2>2
    <3> QED
      BY <3>1, <3>2, <3>3
  <2> QED
    BY <2>1, <2>2
<1>12. \A e \in dim : show /\ \E i \in Feet : e = s[i].key /\ Faint(s[i])
  <2> SUFFICES ASSUME NEW e \in dim PROVE show /\ \E i \in Feet : e = s[i].key /\ Faint(s[i])
    OBVIOUS
  <2>1. PICK k \in 1..Len(paint) : /\ paint[k].layer = "players" /\ paint[k].part = "number" /\ e = paint[k].of
                                   /\ paint[k].look[3]
    OBVIOUS
  <2>2. show
    BY <1>2, <1>4, <2>1
  <2>3. PICK i \in Feet : Numbered(s[i]) /\ paint[k] = NumberMark(s[i])
    BY <1>2, <1>4, <2>1
  <2>4. NumberMark(s[i]).of = s[i].key /\ NumberMark(s[i]).look[3] = Faint(s[i])
    BY <1>5
  <2> QED
    BY <2>1, <2>2, <2>3, <2>4
<1> HIDE DEF pinned, white, amber, faint, dim
<1>13. white = pinned \cap Mates \cap {followKey}
  BY <1>6, <1>8, <1>9
<1>14. amber = (pinned \cap Mates) \ {followKey}
  BY <1>6, <1>8, <1>10
<1>15. faint = IF Lead = {} THEN {} ELSE pinned \ Mates
  BY <1>6, <1>7, <1>8, <1>11
<1>16. dim \subseteq IF Lead = {} THEN {} ELSE pinned \ Mates
  BY <1>6, <1>7, <1>8, <1>12
<1> QED
  BY <1>a, <1>13, <1>14, <1>15, <1>16 DEF pinned, white, amber, faint, dim, paint

-----------------------------------------------------------------------------
(* One number each *)

\* Whom its numbers stand for, and that none has two of them.
Counted(s) == {m.of : m \in {x \in MarksIn(s) : x.part = "number"}}
Apart(s) ==
  \A i, j \in 1..Len(s) : s[i].part = "number" /\ s[j].part = "number" /\ s[i].of = s[j].of => i = j

LEMMA ApartNone ==
  ASSUME NEW s, NEW K, NEW O, Paints(s, K, O), \A kd \in K : kd[2] # "number"
  PROVE  Apart(s) /\ Counted(s) = {}
<1>1. ASSUME NEW k \in 1..Len(s) PROVE s[k].part # "number"
  <2>1. <<s[k].layer, s[k].part>> \in K
    BY DEF Paints
  <2>2. <<s[k].layer, s[k].part>>[2] = s[k].part
    OBVIOUS
  <2> QED
    BY <2>1, <2>2
<1> QED
  BY <1>1 DEF Apart, Counted, MarksIn

LEMMA ApartOne ==
  ASSUME NEW c, NEW layer, NEW id, NEW n, NEW colour, NEW faint,
         NEW s, s = Only(c, NumberBadge(layer, id, n, colour, faint)),
         NEW M, M = [layer |-> layer, part |-> "number", of |-> id, look |-> <<n, colour, faint>>]
  PROVE  /\ IsList(s) /\ Apart(s) /\ Counted(s) \subseteq {id}
         /\ MarksIn(s) = IF c THEN {M} ELSE {}
<1> DEFINE m == [layer |-> layer, part |-> "number", of |-> id, look |-> <<n, colour, faint>>]
           b == NumberBadge(layer, id, n, colour, faint)
<1>0. s = Only(c, b) /\ M = m
  OBVIOUS
<1>1. IsList(b) /\ MarksIn(b) = {m}
  BY MarksOne DEF NumberBadge
<1>2. Len(b) = 1
  <2>1. b = <<m>>
    BY DEF NumberBadge, Mark
  <2> QED
    BY <2>1
<1>3. m.of = id
  OBVIOUS
<1> HIDE DEF b, m
<1>4. IsList(s) /\ MarksIn(s) = IF c THEN {m} ELSE {}
  BY <1>0, <1>1, MarksOnly
<1>5. \A i, j \in 1..Len(s) : i = j
  <2>1. CASE c
    <3>1. Len(s) = 1
      BY <1>0, <1>2, <2>1 DEF Only
    <3> QED
      BY <3>1
  <2>2. CASE ~c
    <3>1. s = << >>
      BY <1>0, <2>2 DEF Only
    <3>2. Len(<< >>) = 0
      OBVIOUS
    <3> QED
      BY <3>1, <3>2
  <2> QED
    BY <2>1, <2>2
<1>6. Apart(s) /\ Counted(s) \subseteq {id}
  BY <1>3, <1>4, <1>5 DEF Apart, Counted
<1> QED
  BY <1>0, <1>4, <1>6

LEMMA ApartJoin ==
  ASSUME NEW s, NEW t, IsList(s), IsList(t), Apart(s), Apart(t), Counted(s) \cap Counted(t) = {}
  PROVE  /\ IsList(s \o t) /\ MarksIn(s \o t) = MarksIn(s) \cup MarksIn(t)
         /\ Apart(s \o t) /\ Counted(s \o t) = Counted(s) \cup Counted(t)
<1> DEFINE r == s \o t
<1>1. /\ Len(s) \in Nat /\ Len(t) \in Nat /\ Len(r) = Len(s) + Len(t)
      /\ \A k \in 1..Len(s) : k \in 1..Len(r) /\ r[k] = s[k]
      /\ \A k \in 1..Len(r) : k > Len(s) => k - Len(s) \in 1..Len(t) /\ r[k] = t[k - Len(s)]
  BY ListsJoin
<1>2. IsList(r) /\ MarksIn(r) = MarksIn(s) \cup MarksIn(t)
  BY MarksJoin
<1> HIDE DEF r
<1>3. Counted(r) = Counted(s) \cup Counted(t)
  BY <1>2 DEF Counted
<1> DEFINE Num(x, k) == k \in 1..Len(x) /\ x[k].part = "number"
<1>a. \A k : Num(s, k) => s[k].of \in Counted(s)
  BY DEF Counted, MarksIn
<1>b. \A k : Num(t, k) => t[k].of \in Counted(t)
  BY DEF Counted, MarksIn
<1>4. ASSUME NEW k \in 1..Len(r), r[k].part = "number"
      PROVE  \/ k <= Len(s) /\ Num(s, k) /\ r[k] = s[k]
             \/ k > Len(s) /\ Num(t, k - Len(s)) /\ r[k] = t[k - Len(s)]
  <2>1. CASE k > Len(s)
    BY <1>1, <1>4, <2>1
  <2>2. CASE ~(k > Len(s))
    <3>1. k \in 1..Len(s) /\ k <= Len(s)
      BY <1>1, <2>2
    <3> QED
      BY <1>1, <1>4, <3>1
  <2> QED
    BY <2>1, <2>2
<1>5. ASSUME NEW i \in 1..Len(r), NEW j \in 1..Len(r),
             r[i].part = "number", r[j].part = "number", r[i].of = r[j].of
      PROVE  i = j
  <2>1. /\ \/ i <= Len(s) /\ Num(s, i) /\ r[i] = s[i]
           \/ i > Len(s) /\ Num(t, i - Len(s)) /\ r[i] = t[i - Len(s)]
        /\ \/ j <= Len(s) /\ Num(s, j) /\ r[j] = s[j]
           \/ j > Len(s) /\ Num(t, j - Len(s)) /\ r[j] = t[j - Len(s)]
    BY <1>4, <1>5
  <2>2. CASE Num(s, i) /\ r[i] = s[i] /\ Num(s, j) /\ r[j] = s[j]
    BY <1>5, <2>2 DEF Apart
  <2>3. CASE Num(t, i - Len(s)) /\ r[i] = t[i - Len(s)] /\ Num(t, j - Len(s)) /\ r[j] = t[j - Len(s)]
    <3>1. i - Len(s) = j - Len(s)
      BY <1>5, <2>3 DEF Apart
    <3> QED
      BY <1>1, <3>1
  <2>4. CASE Num(s, i) /\ r[i] = s[i] /\ Num(t, j - Len(s)) /\ r[j] = t[j - Len(s)]
    BY <1>5, <1>a, <1>b, <2>4
  <2>5. CASE Num(t, i - Len(s)) /\ r[i] = t[i - Len(s)] /\ Num(s, j) /\ r[j] = s[j]
    BY <1>5, <1>a, <1>b, <2>5
  <2> HIDE DEF Num
  <2> QED
    BY <2>1, <2>2, <2>3, <2>4, <2>5
<1>6. Apart(r)
  BY <1>5 DEF Apart
<1> QED
  BY <1>2, <1>3, <1>6 DEF r

LEMMA ApartAll ==
  ASSUME NEW n \in Nat, NEW ss, ss = [i \in 1..n |-> ss[i]], \A i \in 1..n : IsList(ss[i]) /\ Apart(ss[i]),
         \A i, j \in 1..n : i # j => Counted(ss[i]) \cap Counted(ss[j]) = {}
  PROVE  Apart(FlattenSeq(ss))
<1>1. PICK X : ss \in Seq(Seq(X)) /\ Len(ss) = n
  BY ListsAre
<1>2. CASE n = 0
  <2>1. FlattenSeq(ss) = ss
    BY <1>1, <1>2 DEF FlattenSeq
  <2>2. Len(FlattenSeq(ss)) = 0
    BY <1>1, <1>2, <2>1
  <2>3. 1..0 = {}
    OBVIOUS
  <2> QED
    BY <2>2, <2>3 DEF Apart
<1>3. CASE n # 0
  <2>0. Len(ss) # 0
    BY <1>1, <1>3
  <2>a. PICK f : /\ FlattenSeq(ss) = f[Len(ss)] /\ f[1] = ss[1]
                 /\ \A i \in 2..Len(ss) : f[i] = f[i - 1] \o ss[i]
                 /\ \A i \in 1..Len(ss) : f[i] \in Seq(X)
    BY <1>1, <2>0, FlattenGoes
  <2>1. /\ FlattenSeq(ss) = f[n] /\ f[1] = ss[1]
        /\ \A i \in 2..n : f[i] = f[i - 1] \o ss[i]
    BY <1>1, <2>a
  <2> DEFINE U(m) == UNION {Counted(ss[i]) : i \in 1..m}
             Is(m) == IsList(f[m]) /\ Apart(f[m]) /\ Counted(f[m]) = U(m)
             T == {m \in 1..n : ~Is(m)}
  <2>2. U(1) = Counted(ss[1])
    <3>1. 1..1 = {1}
      OBVIOUS
    <3> QED
      BY <3>1
  <2>3. ASSUME NEW m \in 2..n
        PROVE  U(m) = U(m - 1) \cup Counted(ss[m]) /\ U(m - 1) \cap Counted(ss[m]) = {}
    <3>1. 1..m = 1..(m - 1) \cup {m} /\ m \in 1..n /\ \A i \in 1..(m - 1) : i \in 1..n /\ i # m
      OBVIOUS
    <3>2. U(m) = U(m - 1) \cup Counted(ss[m])
      BY <3>1
    <3>3. \A i \in 1..(m - 1) : Counted(ss[i]) \cap Counted(ss[m]) = {}
      BY <3>1
    <3>4. \A x \in U(m - 1) : x \notin Counted(ss[m])
      BY <3>3
    <3> HIDE DEF U
    <3> QED
      BY <3>2, <3>4
  <2> HIDE DEF U
  <2>4. T = {}
    <3> SUFFICES ASSUME T # {} PROVE FALSE
      OBVIOUS
    <3>1. T \in SUBSET Nat
      OBVIOUS
    <3>2. PICK m \in T : \A k \in T : m <= k
      BY <3>1, LeastNat
    <3>3. m \in 1..n /\ ~Is(m)
      OBVIOUS
    <3>4. m # 1
      <4> SUFFICES ASSUME m = 1 PROVE FALSE
        OBVIOUS
      <4> QED
        BY <2>1, <2>2, <3>3
    <3>5. m \in 2..n /\ m - 1 \in 1..n /\ ~(m <= m - 1)
      BY <3>3, <3>4
    <3>6. Is(m - 1)
      BY <3>2, <3>5
    <3>7. f[m] = f[m - 1] \o ss[m] /\ IsList(ss[m]) /\ Apart(ss[m])
      BY <2>1, <3>3, <3>5
    <3>8. Counted(f[m - 1]) \cap Counted(ss[m]) = {}
      BY <2>3, <3>5, <3>6
    <3>9. IsList(f[m]) /\ Apart(f[m]) /\ Counted(f[m]) = Counted(f[m - 1]) \cup Counted(ss[m])
      BY <3>6, <3>7, <3>8, ApartJoin
    <3> QED
      BY <2>3, <3>3, <3>5, <3>6, <3>9
  <2> QED
    BY <1>3, <2>1, <2>4
<1> QED
  BY <1>2, <1>3

\* The numbers on vehicles.
HasNumber(v) == v.placed /\ layers["squadNumbers"] /\ VehicleSquadNumber(v) # None
VehicleNumberMark(v) ==
  [layer |-> "vehicles", part |-> "number", of |-> v.id, look |-> <<VehicleSquadNumber(v), TeamColor(v.team), FALSE>>]

LEMMA VehicleNumbersAre ==
  ASSUME scene \in 1..Len(Scenes)
  PROVE  /\ IsList(VehicleNumbers) /\ Apart(VehicleNumbers)
         /\ \A m \in MarksIn(VehicleNumbers) :
              \E i \in 1..Len(S.vehicles) : HasNumber(S.vehicles[i]) /\ m = VehicleNumberMark(S.vehicles[i])
<1> DEFINE s == S.vehicles
           One(v) == Only(layers["squadNumbers"] /\ VehicleSquadNumber(v) # None,
                          NumberBadge("vehicles", v.id, VehicleSquadNumber(v), TeamColor(v.team), FALSE))
           tt == [i \in 1..Len(s) |-> Only(s[i].placed, One(s[i]))]
<1>1. VehicleNumbers = FlattenSeq(tt)
  BY DEF VehicleNumbers, Placed
<1>2. Len(s) \in Nat /\ tt = [i \in 1..Len(s) |-> tt[i]]
  BY SceneIs
<1>3. ASSUME NEW i \in 1..Len(s)
      PROVE  /\ IsList(tt[i]) /\ Apart(tt[i]) /\ Counted(tt[i]) \subseteq {s[i].id}
             /\ MarksIn(tt[i]) = IF HasNumber(s[i]) THEN {VehicleNumberMark(s[i])} ELSE {}
  <2> DEFINE v == s[i]
             id == v.id
             n == VehicleSquadNumber(v)
             colour == TeamColor(v.team)
             faint == FALSE
             M == VehicleNumberMark(v)
             b == Only(HasNumber(v), NumberBadge("vehicles", id, n, colour, faint))
  <2>1. tt[i] = b
    BY DEF Only, HasNumber
  <2>2. M = [layer |-> "vehicles", part |-> "number", of |-> id, look |-> <<n, colour, faint>>]
    BY DEF VehicleNumberMark
  <2> HIDE DEF id, n, colour, faint, M
  <2>3. b = Only(HasNumber(v), NumberBadge("vehicles", id, n, colour, faint))
    OBVIOUS
  <2> HIDE DEF tt, b, v
  <2>4. /\ IsList(b) /\ Apart(b) /\ Counted(b) \subseteq {id}
        /\ MarksIn(b) = IF HasNumber(v) THEN {M} ELSE {}
    BY <2>2, <2>3, ApartOne
  <2> QED
    BY <2>1, <2>4 DEF id, M, v
<1>4. \A i, j \in 1..Len(s) : s[i].id = s[j].id => i = j
  BY KeysTell
<1> HIDE DEF tt, s
<1>5. ASSUME NEW i \in 1..Len(s), NEW j \in 1..Len(s), i # j PROVE Counted(tt[i]) \cap Counted(tt[j]) = {}
  BY <1>3, <1>4, <1>5
<1>6. Apart(FlattenSeq(tt))
  BY <1>2, <1>3, <1>5, ApartAll
<1>7. IsList(FlattenSeq(tt)) /\ MarksIn(FlattenSeq(tt)) = UNION {MarksIn(tt[i]) : i \in 1..Len(s)}
  BY <1>2, <1>3, MarksAll
<1>8. ASSUME NEW m \in MarksIn(FlattenSeq(tt))
      PROVE  \E i \in 1..Len(s) : HasNumber(s[i]) /\ m = VehicleNumberMark(s[i])
  <2>1. PICK i \in 1..Len(s) : m \in MarksIn(tt[i])
    BY <1>7
  <2>a. MarksIn(tt[i]) = IF HasNumber(s[i]) THEN {VehicleNumberMark(s[i])} ELSE {}
    BY <1>3
  <2>2. HasNumber(s[i]) /\ m = VehicleNumberMark(s[i])
    BY <2>1, <2>a
  <2> QED
    BY <2>2
<1> QED
  BY <1>1, <1>6, <1>7, <1>8 DEF s

LEMMA PlayerNumbersApart ==
  ASSUME scene \in 1..Len(Scenes)
  PROVE  /\ IsList(PlayerNumbers) /\ Apart(PlayerNumbers)
         /\ \A m \in MarksIn(PlayerNumbers) :
              \E i \in Feet : Numbered(S.players[i]) /\ m = NumberMark(S.players[i])
<1> DEFINE s == S.players
           tt == [i \in 1..Len(s) |-> Only(OnFoot(s[i]), PlayerNumber(s[i]))]
<1>1. PlayerNumbers = FlattenSeq(tt)
  BY DEF PlayerNumbers, ForEach
<1>2. Len(s) \in Nat /\ tt = [i \in 1..Len(s) |-> tt[i]]
  BY SceneIs
<1>3. ASSUME NEW i \in 1..Len(s)
      PROVE  /\ IsList(tt[i]) /\ Apart(tt[i]) /\ Counted(tt[i]) \subseteq {s[i].key}
             /\ MarksIn(tt[i]) = IF OnFoot(s[i]) /\ Numbered(s[i]) THEN {NumberMark(s[i])} ELSE {}
  <2> DEFINE p == s[i]
             id == p.key
             n == p.squad
             colour == TeamColor(p.team)
             faint == Faint(p)
             c == OnFoot(p) /\ Numbered(p)
             M == NumberMark(p)
             b == Only(c, NumberBadge("players", id, n, colour, faint))
  <2>1. tt[i] = b
    BY DEF Only, PlayerNumber, Numbered
  <2>2. M = [layer |-> "players", part |-> "number", of |-> id, look |-> <<n, colour, faint>>]
    BY DEF NumberMark
  <2> HIDE DEF id, n, colour, faint, M, c
  <2>3. b = Only(c, NumberBadge("players", id, n, colour, faint))
    OBVIOUS
  <2> HIDE DEF tt, b, p
  <2>4. /\ IsList(b) /\ Apart(b) /\ Counted(b) \subseteq {id}
        /\ MarksIn(b) = IF c THEN {M} ELSE {}
    BY <2>2, <2>3, ApartOne
  <2> QED
    BY <2>1, <2>4 DEF id, M, p, c
<1>4. \A i, j \in 1..Len(s) : s[i].key = s[j].key => i = j
  BY KeysTell
<1> HIDE DEF tt, s
<1>5. ASSUME NEW i \in 1..Len(s), NEW j \in 1..Len(s), i # j PROVE Counted(tt[i]) \cap Counted(tt[j]) = {}
  BY <1>3, <1>4, <1>5
<1>6. Apart(FlattenSeq(tt))
  BY <1>2, <1>3, <1>5, ApartAll
<1>7. IsList(FlattenSeq(tt)) /\ MarksIn(FlattenSeq(tt)) = UNION {MarksIn(tt[i]) : i \in 1..Len(s)}
  BY <1>2, <1>3, MarksAll
<1>8. ASSUME NEW m \in MarksIn(FlattenSeq(tt))
      PROVE  \E i \in 1..Len(s) : OnFoot(s[i]) /\ Numbered(s[i]) /\ m = NumberMark(s[i])
  <2>1. PICK i \in 1..Len(s) : m \in MarksIn(tt[i])
    BY <1>7
  <2>a. MarksIn(tt[i]) = IF OnFoot(s[i]) /\ Numbered(s[i]) THEN {NumberMark(s[i])} ELSE {}
    BY <1>3
  <2>2. OnFoot(s[i]) /\ Numbered(s[i]) /\ m = NumberMark(s[i])
    BY <2>1, <2>a
  <2> QED
    BY <2>2
<1> QED
  BY <1>1, <1>6, <1>7, <1>8 DEF s, Feet

\* Badges first and numbers after them, no number twice.
LEMMA PinnedApart ==
  ASSUME NEW pins, NEW numbers, NEW K, NEW O, Paints(pins, K, O), \A kd \in K : kd[2] # "number",
         IsList(numbers), Apart(numbers)
  PROVE  /\ IsList(pins \o numbers) /\ Apart(pins \o numbers)
         /\ \A m \in MarksIn(pins \o numbers) : m.part = "number" => m \in MarksIn(numbers)
<1>1. IsList(pins) /\ Apart(pins) /\ Counted(pins) = {}
  BY ApartNone DEF Paints
<1>2. /\ IsList(pins \o numbers) /\ MarksIn(pins \o numbers) = MarksIn(pins) \cup MarksIn(numbers)
      /\ Apart(pins \o numbers)
  BY <1>1, ApartJoin
<1>3. \A m \in MarksIn(pins) : m.part # "number"
  BY <1>1 DEF Counted
<1> QED
  BY <1>2, <1>3

LEMMA ApartOnly ==
  ASSUME NEW c, NEW s, Apart(s)
  PROVE  Apart(Only(c, s))
<1>1. CASE c
  BY <1>1 DEF Only
<1>2. CASE ~c
  <2>1. Only(c, s) = << >>
    BY <1>2 DEF Only
  <2>2. 1..Len(<< >>) = {}
    OBVIOUS
  <2> QED
    BY <2>1, <2>2 DEF Apart
<1> QED
  BY <1>1, <1>2

\* What the numbers of a paint are, and that no two are on one pin or vehicle.
LEMMA NumbersAre ==
  ASSUME scene \in 1..Len(Scenes), IsList(ruler)
  PROVE  /\ Apart(Paint)
         /\ \A m \in MarksIn(Paint) : m.part = "number" =>
              \/ \E i \in Feet : m = NumberMark(S.players[i])
              \/ \E i \in 1..Len(S.vehicles) : HasNumber(S.vehicles[i]) /\ m = VehicleNumberMark(S.vehicles[i])
<1> DEFINE ss == Pieces
           Man(m) == \E i \in Feet : m = NumberMark(S.players[i])
           Hull(m) == \E i \in 1..Len(S.vehicles) : HasNumber(S.vehicles[i]) /\ m = VehicleNumberMark(S.vehicles[i])
<1>1. /\ \A n \in 1..14 : Paints(ss[n], PieceKinds[n], Named)
      /\ MarksIn(Paint) = UNION {MarksIn(ss[n]) : n \in 1..14}
  BY PaintMarks
<1>2. ss = [i \in 1..14 |-> ss[i]] /\ Paint = FlattenSeq(ss) /\ 14 \in Nat
  BY PiecesAre, PaintIsPieces
<1>3. ss[9] = On("vehicles", VehicleMarks) /\ ss[12] = On("players", PlayerMarks) /\ 9 \in 1..14 /\ 12 \in 1..14
  BY DEF Pieces
<1>4. /\ Apart(ss[9]) /\ \A m \in MarksIn(ss[9]) : m.part = "number" => Hull(m)
  <2>1. /\ VehicleMarks = VehicleBadges \o VehicleNumbers /\ Paints(VehicleBadges, VehicleKinds, Named)
    BY VehiclesPaint
  <2>2. \A kd \in VehicleKinds : kd[2] # "number"
    BY DEF VehicleKinds
  <2>3. IsList(VehicleNumbers) /\ Apart(VehicleNumbers) /\ \A m \in MarksIn(VehicleNumbers) : Hull(m)
    BY VehicleNumbersAre
  <2> HIDE DEF Hull
  <2>4. /\ IsList(VehicleMarks) /\ Apart(VehicleMarks)
        /\ \A m \in MarksIn(VehicleMarks) : m.part = "number" => m \in MarksIn(VehicleNumbers)
    BY <2>1, <2>2, <2>3, PinnedApart
  <2>a. ss[9] = Only(layers["vehicles"], VehicleMarks)
    BY <1>3 DEF On
  <2> HIDE DEF ss
  <2>5. Apart(ss[9]) /\ MarksIn(ss[9]) = IF layers["vehicles"] THEN MarksIn(VehicleMarks) ELSE {}
    BY <2>4, <2>a, ApartOnly, MarksOnly
  <2> QED
    BY <2>3, <2>4, <2>5
<1>5. /\ Apart(ss[12]) /\ \A m \in MarksIn(ss[12]) : m.part = "number" => Man(m)
  <2>1. /\ PlayerMarks = PlayerPins \o PlayerNumbers /\ Paints(PlayerPins, PlayerKinds, Named)
    BY PlayersPaint
  <2>2. \A kd \in PlayerKinds : kd[2] # "number"
    BY DEF PlayerKinds
  <2>3. IsList(PlayerNumbers) /\ Apart(PlayerNumbers) /\ \A m \in MarksIn(PlayerNumbers) : Man(m)
    BY PlayerNumbersApart
  <2> HIDE DEF Man
  <2>4. /\ IsList(PlayerMarks) /\ Apart(PlayerMarks)
        /\ \A m \in MarksIn(PlayerMarks) : m.part = "number" => m \in MarksIn(PlayerNumbers)
    BY <2>1, <2>2, <2>3, PinnedApart
  <2>a. ss[12] = Only(layers["players"], PlayerMarks)
    BY <1>3 DEF On
  <2> HIDE DEF ss
  <2>5. Apart(ss[12]) /\ MarksIn(ss[12]) = IF layers["players"] THEN MarksIn(PlayerMarks) ELSE {}
    BY <2>4, <2>a, ApartOnly, MarksOnly
  <2> QED
    BY <2>3, <2>4, <2>5
<1>6. ASSUME NEW n \in 1..14, n # 9, n # 12 PROVE Apart(ss[n]) /\ Counted(ss[n]) = {}
  <2>1. \A kd \in PieceKinds[n] : kd[2] # "number"
    BY <1>6, KindsAre DEF KindOf
  <2> QED
    BY <1>1, <2>1, ApartNone
<1>7. Counted(ss[9]) \cap Counted(ss[12]) = {}
  <2>1. \A i \in Feet, j \in 1..Len(S.vehicles) : S.players[i].key # S.vehicles[j].id
    <3>1. \A i \in 1..Len(S.players), j \in 1..Len(S["vehicles"]) : S.players[i].key # S["vehicles"][j].id
      BY SceneIs
    <3> QED
      BY <3>1 DEF Feet
  <2>2. \A m : Hull(m) => \E j \in 1..Len(S.vehicles) : m.of = S.vehicles[j].id
    BY DEF VehicleNumberMark
  <2>3. \A m : Man(m) => \E i \in Feet : m.of = S.players[i].key
    BY DEF NumberMark
  <2> HIDE DEF Hull, Man, ss
  <2>4. \A e \in Counted(ss[9]) : \E j \in 1..Len(S.vehicles) : e = S.vehicles[j].id
    BY <1>4, <2>2 DEF Counted
  <2>5. \A e \in Counted(ss[12]) : \E i \in Feet : e = S.players[i].key
    BY <1>5, <2>3 DEF Counted
  <2> QED
    BY <2>1, <2>4, <2>5
<1> HIDE DEF ss, Man, Hull
<1>8. \A n \in 1..14 : IsList(ss[n]) /\ Apart(ss[n])
  BY <1>1, <1>4, <1>5, <1>6 DEF Paints
<1>9. \A i, j \in 1..14 : i # j => Counted(ss[i]) \cap Counted(ss[j]) = {}
  BY <1>6, <1>7
<1>10. Apart(Paint)
  BY <1>2, <1>8, <1>9, ApartAll
<1>11. ASSUME NEW m \in MarksIn(Paint), m.part = "number" PROVE Man(m) \/ Hull(m)
  <2>1. PICK n \in 1..14 : m \in MarksIn(ss[n])
    BY <1>1
  <2>2. m.of \in Counted(ss[n])
    BY <1>11, <2>1 DEF Counted
  <2> QED
    BY <1>4, <1>5, <1>6, <1>11, <2>1, <2>2
<1> QED
  BY <1>10, <1>11 DEF Man, Hull

\* A driver in a squad gives his vehicle its number.
LEMMA DriverFirst ==
  ASSUME scene \in 1..Len(Scenes), NEW n \in 1..Len(S.vehicles), NEW k \in 1..Len(S.vehicles[n].seats),
         S.vehicles[n].seats[k].idx = 0, NEW i \in 1..Len(S.players),
         S.players[i].key = S.vehicles[n].seats[k].man, S.players[i].squad # None
  PROVE  VehicleSquadNumber(S.vehicles[n]) = S.players[i].squad
<1> DEFINE v == S.vehicles[n]
           aboard == {j \in 1..Len(S.players) : S.players[j].key = v.seats[k].man /\ S.players[j].squad # None}
           crew == {l \in 1..Len(v.seats) : SquadAboard(v.seats[l]) # None}
           Lower(l, j) == \/ v.seats[l].idx < v.seats[j].idx
                          \/ v.seats[l].idx = v.seats[j].idx /\ l < j
           first == {l \in crew : \A j \in crew \ {l} : Lower(l, j)}
<1>1. /\ \A j \in 1..Len(S.players) : S.players[j].key = S.players[i].key => j = i
      /\ \A l \in 1..Len(v.seats) : v.seats[l].idx \in Nat
      /\ \A l, j \in 1..Len(v.seats) : v.seats[l].idx = v.seats[j].idx => l = j
  BY KeysTell
<1>2. SquadAboard(v.seats[k]) = S.players[i].squad
  <2>1. aboard = {i}
    BY <1>1
  <2>2. i \in Int /\ aboard \in SUBSET Int /\ aboard # {} /\ \A x \in aboard : x <= i
    BY <2>1
  <2> HIDE DEF aboard
  <2>3. Max(aboard) \in aboard
    BY <2>2, MaxIs
  <2>4. Max(aboard) = i
    BY <2>1, <2>3
  <2>5. SquadAboard(v.seats[k]) = IF aboard = {} THEN None ELSE S.players[Max(aboard)].squad
    BY DEF SquadAboard, aboard
  <2> QED
    BY <2>1, <2>4, <2>5
<1>3. k \in crew /\ v.seats[k].idx = 0
  BY <1>2
<1>4. VehicleSquadNumber(v) = IF first = {} THEN None ELSE SquadAboard(v.seats[CHOOSE l \in first : TRUE])
  BY DEF VehicleSquadNumber, CrewSquad
<1>5. crew \subseteq 1..Len(v.seats)
  OBVIOUS
<1> HIDE DEF v, crew
<1>6. k \in first
  <2> SUFFICES ASSUME NEW j \in crew \ {k} PROVE Lower(k, j)
    BY <1>3
  <2>1. v.seats[j].idx \in Nat /\ v.seats[j].idx # 0
    BY <1>1, <1>3, <1>5
  <2> QED
    BY <1>3, <2>1
<1>7. ASSUME NEW l \in first PROVE l = k
  <2> SUFFICES ASSUME l # k PROVE FALSE
    OBVIOUS
  <2>1. l \in crew /\ Lower(l, k)
    BY <1>3
  <2>2. v.seats[l].idx \in Nat /\ v.seats[l].idx # 0
    BY <1>1, <1>3, <1>5, <2>1
  <2> QED
    BY <1>3, <2>1, <2>2
<1> HIDE DEF first
<1>8. (CHOOSE l \in first : TRUE) = k
  BY <1>6, <1>7
<1> QED
  BY <1>2, <1>4, <1>6, <1>8 DEF v

LEMMA OneNumberHolds ==
  ASSUME scene \in {None} \cup 1..Len(Scenes), IsList(ruler)
  PROVE  OneNumberEach
<1> SUFFICES ASSUME scene # None PROVE OneNumberEach
  BY DEF OneNumberEach, Painted
<1>1. scene \in 1..Len(Scenes) /\ Painted = {Paint}
  BY DEF Painted
<1> DEFINE paint == Paint
           numbers == {i \in 1..Len(paint) : paint[i].part = "number"}
           SquadOf(man) == {S.players[i].squad : i \in {j \in 1..Len(S.players) : S.players[j].key = man}} \ {None}
           Drivers(v) == {v.seats[k].man : k \in {l \in 1..Len(v.seats) : v.seats[l].idx = 0}}
           A == \A i, j \in numbers : paint[i].of = paint[j].of => i = j
           B == \A i \in numbers, n \in 1..Len(S.vehicles) :
                  paint[i].of = S.vehicles[n].id =>
                    \A d \in Drivers(S.vehicles[n]) : SquadOf(d) \subseteq {paint[i].look[1]}
           C == \A i \in numbers, n \in 1..Len(S.players) :
                  paint[i].of = S.players[n].key => ~S.players[n].attached /\ paint[i].look[1] = S.players[n].squad
<1>a. OneNumberEach = \A q \in Painted :
        LET nn == {i \in 1..Len(q) : q[i].part = "number"}
        IN  /\ \A i, j \in nn : q[i].of = q[j].of => i = j
            /\ \A i \in nn, n \in 1..Len(S.vehicles) :
                  q[i].of = S.vehicles[n].id =>
                    \A d \in Drivers(S.vehicles[n]) : SquadOf(d) \subseteq {q[i].look[1]}
            /\ \A i \in nn, n \in 1..Len(S.players) :
                  q[i].of = S.players[n].key => ~S.players[n].attached /\ q[i].look[1] = S.players[n].squad
  BY DEF OneNumberEach
<1>b. A /\ B /\ C => OneNumberEach
  <2> HIDE DEF Drivers, SquadOf
  <2> QED
    BY <1>1, <1>a
<1>2. /\ \A i, j \in numbers : paint[i].of = paint[j].of => i = j
      /\ \A i \in numbers : \/ \E j \in Feet : paint[i] = NumberMark(S.players[j])
                           \/ \E j \in 1..Len(S.vehicles) : HasNumber(S.vehicles[j]) /\ paint[i] = VehicleNumberMark(S.vehicles[j])
  BY <1>1, NumbersAre DEF Apart, MarksIn
<1>3. /\ \A p : NumberMark(p).of = p.key /\ NumberMark(p).look[1] = p.squad
      /\ \A v : VehicleNumberMark(v).of = v.id /\ VehicleNumberMark(v).look[1] = VehicleSquadNumber(v)
  BY DEF NumberMark, VehicleNumberMark
<1>4. \A j \in 1..Len(S.players), n \in 1..Len(S.vehicles) : S.players[j].key # S.vehicles[n].id
  <2>1. \A j \in 1..Len(S.players), n \in 1..Len(S["vehicles"]) : S.players[j].key # S["vehicles"][n].id
    BY <1>1, SceneIs
  <2> QED
    BY <2>1
<1>5. /\ \A i, j \in 1..Len(S.players) : S.players[i].key = S.players[j].key => i = j
      /\ \A i, j \in 1..Len(S.vehicles) : S.vehicles[i].id = S.vehicles[j].id => i = j
  BY <1>1, KeysTell
<1>6. Feet \subseteq 1..Len(S.players) /\ \A j \in Feet : ~S.players[j].attached
  BY DEF Feet, OnFoot
<1> HIDE DEF paint, numbers
<1>7. ASSUME NEW i \in numbers, NEW n \in 1..Len(S.vehicles), paint[i].of = S.vehicles[n].id,
             NEW d \in Drivers(S.vehicles[n])
      PROVE  SquadOf(d) \subseteq {paint[i].look[1]}
  <2>1. PICK j \in 1..Len(S.vehicles) : paint[i] = VehicleNumberMark(S.vehicles[j])
    <3> SUFFICES ASSUME NEW j \in Feet, paint[i] = NumberMark(S.players[j]) PROVE FALSE
      BY <1>2
    <3>1. paint[i].of = S.players[j].key
      BY <1>3
    <3> QED
      BY <1>4, <1>6, <1>7, <3>1
  <2>2. paint[i].of = S.vehicles[j].id /\ paint[i].look[1] = VehicleSquadNumber(S.vehicles[j])
    BY <1>3, <2>1
  <2>3. j = n
    BY <1>5, <1>7, <2>2
  <2>4. PICK k \in 1..Len(S.vehicles[n].seats) : S.vehicles[n].seats[k].idx = 0 /\ d = S.vehicles[n].seats[k].man
    OBVIOUS
  <2>5. ASSUME NEW q \in SquadOf(d) PROVE q = paint[i].look[1]
    <3>1. PICK l \in 1..Len(S.players) : S.players[l].key = d /\ q = S.players[l].squad /\ q # None
      OBVIOUS
    <3>2. VehicleSquadNumber(S.vehicles[n]) = S.players[l].squad
      BY <1>1, <2>4, <3>1, DriverFirst
    <3> QED
      BY <2>2, <2>3, <3>1, <3>2
  <2> QED
    BY <2>5
<1>8. ASSUME NEW i \in numbers, NEW n \in 1..Len(S.players), paint[i].of = S.players[n].key
      PROVE  ~S.players[n].attached /\ paint[i].look[1] = S.players[n].squad
  <2>1. PICK j \in Feet : paint[i] = NumberMark(S.players[j])
    <3> SUFFICES ASSUME NEW j \in 1..Len(S.vehicles), paint[i] = VehicleNumberMark(S.vehicles[j]) PROVE FALSE
      BY <1>2
    <3>1. paint[i].of = S.vehicles[j].id
      BY <1>3
    <3> QED
      BY <1>4, <1>8, <3>1
  <2>2. paint[i].of = S.players[j].key /\ paint[i].look[1] = S.players[j].squad
    BY <1>3, <2>1
  <2>3. j = n
    BY <1>5, <1>6, <1>8, <2>2
  <2> QED
    BY <1>6, <2>2, <2>3
<1> HIDE DEF Drivers, SquadOf
<1> QED
  BY <1>2, <1>7, <1>8, <1>b DEF paint, numbers

-----------------------------------------------------------------------------
(* Pictures *)

LEMMA TurretHolds == TurretOnItsHull
<1> SUFFICES ASSUME scene # None, NEW i \in 1..Len(S.vehicles),
                    VehicleTurretIcon(S.vehicles[i]) # None, AssetUrl(Catalog, S.frame, S.vehicles[i].class) = None
             PROVE  VehicleIcon(S.vehicles[i]) = TurretToBase[VehicleTurretIcon(S.vehicles[i])]
  BY DEF TurretOnItsHull
<1> QED
  BY DEF VehicleIcon, Picture, OrElse, VanillaVehicleIcon

\* The first rung that is matched is the one that counts.
LEMMA ClimbIs ==
  ASSUME NEW ladder, NEW name, NEW n \in 1..Len(ladder), Len(ladder) \in Nat, ladder[n][1] \in name
  PROVE  \E k \in 1..n : ladder[k][1] \in name /\ Climb(ladder, name) = ladder[k][2]
<1> DEFINE hits == {i \in 1..Len(ladder) : ladder[i][1] \in name}
<1>1. n \in hits /\ hits \in SUBSET Int /\ 1 \in Int /\ \A x \in hits : 1 <= x
  OBVIOUS
<1>2. Climb(ladder, name) = IF hits = {} THEN None ELSE ladder[Min(hits)][2]
  BY DEF Climb
<1>3. \A k \in hits : k \in 1..Len(ladder) /\ ladder[k][1] \in name
  OBVIOUS
<1> HIDE DEF hits
<1>4. Min(hits) \in hits /\ Min(hits) <= n
  BY <1>1, MinIs
<1>5. Min(hits) \in 1..n
  BY <1>3, <1>4
<1> QED
  BY <1>1, <1>2, <1>3, <1>4, <1>5

LEMMA LeadersHold == LeadersLookIt
<1> SUFFICES ASSUME NEW role, IsSquadLeader(role) PROVE RoleIcon(role) \in LeaderIcons
  BY DEF LeadersLookIt
<1> DEFINE ladder ==
             <<<<"crewman", Fitted(role, "sl", "crewman_squadleader", "crewman")>>,
               <<"pilot", "pilot_squadleader">>, <<"sl", "squadleader">>, <<"medic", "medic">>,
               <<"hat", "heavyantitank">>, <<"lat", "lightantitank">>, <<"ar", "automaticrifleman">>,
               <<"marksman", "designatedmarksman">>, <<"mg", "machinegunner">>,
               <<"engineer", "engineer">>, <<"grenadier", "grenadier">>, <<"raider", "raider">>,
               <<"recruit", "recruit">>, <<"scout", "scout">>, <<"rifleman", "rifleman">>>>
<1>1. "sl" \in role
  BY DEF IsSquadLeader
<1>2. RoleIcon(role) = Climb(ladder, role)
  BY DEF RoleIcon
<1>3. Len(ladder) = 15 /\ ladder[3][1] = "sl"
  OBVIOUS
<1>4. ladder[1][2] = "crewman_squadleader" /\ ladder[2][2] = "pilot_squadleader" /\ ladder[3][2] = "squadleader"
  BY <1>1 DEF Fitted
<1> HIDE DEF ladder
<1>5. Len(ladder) \in Nat /\ 3 \in 1..Len(ladder) /\ ladder[3][1] \in role
  BY <1>1, <1>3
<1>6. PICK k \in 1..3 : RoleIcon(role) = ladder[k][2]
  BY <1>2, <1>5, ClimbIs
<1>7. k = 1 \/ k = 2 \/ k = 3
  OBVIOUS
<1> QED
  BY <1>4, <1>6, <1>7 DEF LeaderIcons

-----------------------------------------------------------------------------
(* The ruler *)

\* A list and one more entry.
LEMMA ListAndOne ==
  ASSUME NEW s, NEW x, IsList(s)
  PROVE  /\ Len(s \o <<x>>) = Len(s) + 1
         /\ \A k \in 1..Len(s) : (s \o <<x>>)[k] = s[k]
         /\ (s \o <<x>>)[Len(s) + 1] = x
<1> DEFINE t == <<x>>
<1>1. t \in Seq({x}) /\ Len(t) = 1 /\ t[1] = x /\ 1 \in 1..Len(t)
  OBVIOUS
<1> HIDE DEF t
<1>2. IsList(t)
  BY <1>1, ListIs
<1>3. /\ IsList(s \o t) /\ Len(s) \in Nat /\ Len(t) \in Nat /\ Len(s \o t) = Len(s) + Len(t)
      /\ \A k \in 1..Len(s) : k \in 1..Len(s \o t) /\ (s \o t)[k] = s[k]
      /\ \A k \in 1..Len(t) : Len(s) + k \in 1..Len(s \o t) /\ (s \o t)[Len(s) + k] = t[k]
      /\ \A k \in 1..Len(s \o t) : k > Len(s) => k - Len(s) \in 1..Len(t) /\ (s \o t)[k] = t[k - Len(s)]
  BY <1>2, ListsJoin
<1>4. (s \o t)[Len(s) + 1] = t[1]
  BY <1>1, <1>3
<1>5. Len(s \o t) = Len(s) + 1 /\ (\A k \in 1..Len(s) : (s \o t)[k] = s[k]) /\ (s \o t)[Len(s) + 1] = x
  BY <1>1, <1>3, <1>4
<1> QED
  BY <1>5 DEF t

\* One more leg is one more half of a metre.
LEMMA NearStep ==
  ASSUME NEW m \in Int, NEW p \in Int, NEW q \in Int, NEW x \in Int, NEW y \in Int,
         100 * q <= p + 50 * (m - 1), p <= 100 * q + 50 * (m - 1), 100 * y <= x + 50, x <= 100 * y + 50
  PROVE  100 * (q + y) <= p + x + 50 * m /\ p + x <= 100 * (q + y) + 50 * m
OBVIOUS

\* Rounded one by one or together, lengths differ by half a metre each.
LEMMA RoundedSums ==
  ASSUME NEW n \in Nat, NEW a, a = [i \in 1..n |-> a[i]], \A i \in 1..n : a[i] \in Nat,
         NEW b, b = [i \in 1..n |-> FormatMetres(a[i])]
  PROVE  /\ SumSeqOf(a) \in Int /\ SumSeqOf(b) \in Int
         /\ 100 * SumSeqOf(b) <= SumSeqOf(a) + 50 * n /\ SumSeqOf(a) <= 100 * SumSeqOf(b) + 50 * n
<1>1. a \in Seq(Nat) /\ Len(a) = n
  BY FunctionIsList
<1>2. \A i \in 1..n : b[i] \in Int /\ 100 * b[i] <= a[i] + 50 /\ a[i] <= 100 * b[i] + 50
  BY DEF FormatMetres
<1>3. b = [i \in 1..n |-> b[i]]
  OBVIOUS
<1>4. b \in Seq(Int) /\ Len(b) = n
  BY <1>2, <1>3, FunctionIsList
<1>a. Len(a) \in Nat /\ \A i \in 1..Len(a) : a[i] \in Int
  BY <1>1
<1>5. PICK f \in [0..n -> Int] :
        f[0] = 0 /\ (\A i \in 1..n : f[i] = f[i - 1] + a[i]) /\ SumSeqOf(a) = f[n]
  BY <1>1, <1>a, SumGoes
<1>6. PICK g \in [0..n -> Int] :
        g[0] = 0 /\ (\A i \in 1..n : g[i] = g[i - 1] + b[i]) /\ SumSeqOf(b) = g[n]
  BY <1>2, <1>4, SumGoes
<1> DEFINE Near(m) == 100 * g[m] <= f[m] + 50 * m /\ f[m] <= 100 * g[m] + 50 * m
           T == {m \in 0..n : ~Near(m)}
<1>7. T = {}
  <2> SUFFICES ASSUME T # {} PROVE FALSE
    OBVIOUS
  <2>1. T \in SUBSET Nat
    OBVIOUS
  <2>2. PICK m \in T : \A k \in T : m <= k
    BY <2>1, LeastNat
  <2>3. m \in 0..n /\ ~Near(m)
    OBVIOUS
  <2>4. m # 0
    BY <1>5, <1>6, <2>3
  <2>a. m \in 0..n
    BY <2>3
  <2> HIDE DEF T
  <2>5. m \in Int /\ m \in 1..n /\ m - 1 \in 0..n /\ ~(m <= m - 1)
    BY <2>a, <2>4
  <2>b. m - 1 \notin T
    BY <2>2, <2>5
  <2>6. Near(m - 1)
    BY <2>b, <2>5 DEF T
  <2>7. f[m] = f[m - 1] + a[m] /\ g[m] = g[m - 1] + b[m]
    BY <1>5, <1>6, <2>5
  <2>8. f[m - 1] \in Int /\ g[m - 1] \in Int
    BY <2>5
  <2>9. a[m] \in Int /\ b[m] \in Int /\ 100 * b[m] <= a[m] + 50 /\ a[m] <= 100 * b[m] + 50
    BY <1>2, <2>5
  <2>10. /\ 100 * (g[m - 1] + b[m]) <= f[m - 1] + a[m] + 50 * m
         /\ f[m - 1] + a[m] <= 100 * (g[m - 1] + b[m]) + 50 * m
    BY <2>5, <2>6, <2>8, <2>9, NearStep
  <2>11. Near(m)
    BY <2>7, <2>10
  <2> QED
    BY <2>3, <2>11
<1>8. Near(n)
  BY <1>7
<1> QED
  BY <1>5, <1>6, <1>8

LEMMA RulerHolds ==
  ASSUME ruler \in {<< >>} \cup Rulers, IsList(ruler)
  PROVE  RulerReads
<1> DEFINE legs == Len(ruler) - 1
           a == [i \in 1..legs |-> LengthOf(ruler[i], ruler[i + 1])]
           b == [i \in 1..legs |-> FormatMetres(a[i])]
           c == [i \in 1..legs |-> RulerReadings[i].look[1]]
           marks == RulerReadings
           last == marks[Len(marks)]
<1>1. RulerReads <=>
        /\ \A i \in 1..Len(marks) : marks[i].look[2] <=> i = Len(marks)
        /\ Len(marks) > 0 => 2 * Far(last.look[1], SumSeqOf(c)) <= legs + 1
  BY DEF RulerReads
<1>2. Len(ruler) \in Nat /\ legs \in Int
  BY ListIs
<1>3. \A i \in 1..legs : a[i] \in Nat
  <2> SUFFICES ASSUME NEW i \in 1..legs PROVE LengthOf(ruler[i], ruler[i + 1]) \in Nat
    OBVIOUS
  <2>1. ruler \in Rulers
    <3> SUFFICES ASSUME ruler = << >> PROVE FALSE
      OBVIOUS
    <3>1. Len(ruler) = 0
      OBVIOUS
    <3> QED
      BY <3>1
  <2>2. Lengths(ruler[i], ruler[i + 1]) # {}
    BY <2>1, PaintAssumption
  <2>3. LengthOf(ruler[i], ruler[i + 1]) \in Lengths(ruler[i], ruler[i + 1])
    BY <2>2 DEF LengthOf
  <2>4. \A x, y : \A k \in Lengths(x, y) : k \in Nat
    BY DEF Lengths
  <2> QED
    BY <2>3, <2>4
<1>4. RulerReadings = LegReadings \o TotalReading
  BY ReadingsAre
<1>5. /\ LegReadings = [i \in 1..legs |-> LegReadings[i]]
      /\ \A i \in 1..legs : LegReadings[i].look[1] = b[i] /\ (LegReadings[i].look[2] <=> legs = 1)
  BY DEF LegReadings, Reading
<1>6. TotalReading = IF legs > 1 THEN <<Reading(PathLength(ruler), TRUE, None)>> ELSE << >>
  BY DEF TotalReading, Only
<1>7. PathLength(ruler) = SumSeqOf(a)
  BY DEF PathLength
<1> HIDE DEF a, legs, marks
<1>8. CASE legs < 1
  <2>1. 1..legs = {}
    BY <1>2, <1>8
  <2>2. LegReadings = << >>
    BY <1>5, <2>1
  <2>3. TotalReading = << >>
    BY <1>2, <1>6, <1>8
  <2>4. marks = << >>
    BY <1>4, <2>2, <2>3 DEF marks
  <2>5. Len(marks) = 0
    BY <2>4
  <2>6. 1..Len(marks) = {} /\ ~(Len(marks) > 0)
    BY <2>5
  <2> QED
    BY <1>1, <2>6
<1>9. CASE legs >= 1
  <2>0. legs \in Nat
    BY <1>2, <1>9
  <2>1. LegReadings \in Seq({LegReadings[i] : i \in 1..legs}) /\ Len(LegReadings) = legs
    BY <1>5, <2>0, FunctionIsList
  <2>a. IsList(LegReadings)
    BY <2>1, ListIs
  <2>2. a = [i \in 1..legs |-> a[i]] /\ b = [i \in 1..legs |-> FormatMetres(a[i])]
    BY DEF a
  <2> HIDE DEF b
  <2>3. /\ SumSeqOf(a) \in Int /\ SumSeqOf(b) \in Int
        /\ 100 * SumSeqOf(b) <= SumSeqOf(a) + 50 * legs /\ SumSeqOf(a) <= 100 * SumSeqOf(b) + 50 * legs
    BY <1>3, <2>0, <2>2, RoundedSums
  <2> DEFINE A == SumSeqOf(a)
             B == SumSeqOf(b)
             total == FormatMetres(A)
  <2>4. total \in Int /\ 100 * total <= A + 50 /\ A <= 100 * total + 50
    BY <2>3 DEF FormatMetres
  <2> HIDE DEF A, B, total
  <2>5. 2 * Far(total, B) <= legs + 1 /\ Far(B, B) = 0
    <3>1. A \in Int /\ B \in Int /\ 100 * B <= A + 50 * legs /\ A <= 100 * B + 50 * legs
      BY <2>3 DEF A, B
    <3> QED
      BY <2>0, <2>4, <3>1 DEF Far
  <2>6. CASE legs = 1
    <3>1. TotalReading = << >>
      BY <1>6, <2>6
    <3>2. marks = LegReadings
      BY <1>4, <2>1, <3>1 DEF marks
    <3>3. Len(marks) = 1 /\ \A i \in 1..1 : i = 1
      BY <2>1, <2>6, <3>2
    <3>4. \A i \in 1..Len(marks) : marks[i].look[2] <=> i = Len(marks)
      BY <1>5, <2>6, <3>2, <3>3
    <3>5. c = b
      BY <1>5, <2>2, <3>2 DEF marks
    <3>6. last.look[1] = b[1] /\ 1 \in 1..legs
      BY <1>5, <2>6, <3>2, <3>3
    <3>7. B = b[1]
      <4>1. b[1] \in Int
        BY <1>3, <2>2, <2>6 DEF FormatMetres
      <4>2. Len(b) = 1 /\ \A i \in 1..1 : b[i] \in Int
        <5>1. b = [i \in 1..1 |-> b[i]] /\ \A i \in 1..1 : b[i] \in Int
          BY <2>2, <2>6, <4>1
        <5>2. b \in Seq(Int) /\ Len(b) = 1
          BY <5>1, FunctionIsList
        <5> QED
          BY <5>1, <5>2
      <4>3. PICK g \in [0..1 -> Int] : g[0] = 0 /\ (\A i \in 1..1 : g[i] = g[i - 1] + b[i]) /\ SumSeqOf(b) = g[1]
        BY <4>2, SumGoes
      <4>4. g[1] = g[0] + b[1]
        BY <4>3
      <4> QED
        BY <4>1, <4>3, <4>4 DEF B
    <3>8. 2 * Far(last.look[1], SumSeqOf(c)) <= legs + 1
      BY <2>0, <2>5, <3>5, <3>6, <3>7 DEF B
    <3> QED
      BY <1>1, <3>4, <3>8
  <2>7. CASE legs # 1
    <3> DEFINE r == Reading(PathLength(ruler), TRUE, None)
    <3>a. legs > 1
      BY <2>0, <1>9, <2>7
    <3>1. TotalReading = <<r>>
      BY <1>6, <3>a
    <3>2. r.look[1] = total /\ r.look[2] = TRUE
      BY <1>7 DEF Reading, total, A
    <3> HIDE DEF r
    <3>5. /\ Len(marks) = legs + 1
          /\ \A k \in 1..legs : marks[k] = LegReadings[k]
          /\ marks[legs + 1] = r
      <4>1. marks = LegReadings \o <<r>>
        BY <1>4, <3>1 DEF marks
      <4> QED
        BY <2>a, <2>1, <4>1, ListAndOne
    <3>6. \A i \in 1..Len(marks) : marks[i].look[2] <=> i = Len(marks)
      <4> SUFFICES ASSUME NEW i \in 1..Len(marks) PROVE marks[i].look[2] <=> i = Len(marks)
        OBVIOUS
      <4>1. CASE i = legs + 1
        BY <3>2, <3>5, <4>1
      <4>2. CASE i # legs + 1
        <5>1. i \in 1..legs
          BY <2>0, <3>5, <4>2
        <5> QED
          BY <1>5, <2>7, <3>5, <4>2, <5>1
      <4> QED
        BY <4>1, <4>2
    <3>7. c = b
      BY <1>5, <2>2, <3>5 DEF marks
    <3>8. last.look[1] = total
      BY <3>2, <3>5
    <3>9. 2 * Far(last.look[1], SumSeqOf(c)) <= legs + 1
      BY <2>5, <3>7, <3>8 DEF B
    <3> QED
      BY <1>1, <3>6, <3>9
  <2> QED
    BY <2>6, <2>7
<1> QED
  BY <1>2, <1>8, <1>9

(* Whatever is drawn when: following a man lights up his squad and no one  *)
(* else, no pin or vehicle has two numbers, a vehicle's is its driver's    *)
(* squad and a pin's its man's, a turret is on the hull it was cut from,   *)
(* leaders look it, and the total of a measurement is the sum of its legs  *)
(* but for their rounding (drawPlayers, drawVehicles, drawRuler).          *)
THEOREM MarksSpeakTrue == ScreenSpec => []MarksTell
<1>1. ScreenInit => PaintInv
  BY PaintParts, SceneStarts
<1>2. PaintInv /\ [ScreenNext]_screenVars => PaintInv'
  BY PaintParts, SceneKeeps
<1>3. PaintInv => MarksTell
  <2> SUFFICES ASSUME PaintInv PROVE MarksTell
    OBVIOUS
  <2>1. scene \in {None} \cup 1..Len(Scenes) /\ IsList(ruler) /\ ruler \in {<< >>} \cup Rulers
    BY DEF PaintInv, PaintTypeOK
  <2> QED
    BY <2>1, SpotlightHolds, OneNumberHolds, TurretHolds, LeadersHold, RulerHolds DEF MarksTell
<1> QED
  BY <1>1, <1>2, <1>3, PTL DEF ScreenSpec
=============================================================================
