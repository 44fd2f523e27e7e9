---------------------------- MODULE VehiclePanel ----------------------------
(***************************************************************************)
(* The panel of the selected vehicle (ui/VehiclePanel.tsx): what is read   *)
(* of it this frame (seats, turrets, parts) against what the catalogue     *)
(* says of its class.  The panel is a function of the frame; the actions   *)
(* are what the next frame can bring.                                      *)
(*                                                                         *)
(* A live turret is [cls, mags, weapon]: its class, or Unmatched when the  *)
(* class carries a suffix the catalogue does not know; its magazines, or   *)
(* None when not read; the weapon in use, an index of the catalogue's list *)
(* or None.                                                                *)
(***************************************************************************)
EXTENDS VehicleLoadouts

CONSTANTS
  Classes,    \* vehicle classes the user may select
  Men,        \* who may sit in it
  ExtraSeats, \* seats the live vehicle has beyond the catalogue's
  PartsOf     \* the components of a vehicle of each class

VARIABLES
  veh,        \* class of the selected vehicle; None: the panel is not under study
  loadout,    \* what the catalogue says of the class, or None
  inSnap,     \* it is in this frame
  men,        \* [Men -> seat or None]
  seatsRead,  \* the frame has the seat array
  turrets,    \* sequence of live turrets
  parts       \* sequence of components

ASSUME VehicleAssumption ==
  /\ IsFiniteSet(Men) /\ None \notin Men
  /\ ExtraSeats \in Nat
  /\ None \notin Classes /\ None \notin Int /\ None \notin Stations \cup {"unmatched"}
  /\ \A c \in Classes : /\ PartsOf[c] \in Seq(Range(PartsOf[c]))
                        /\ \A p \in Range(PartsOf[c]) : p.n \in Int

vehicleVars == <<veh, loadout, inSnap, men, seatsRead, turrets, parts>>

Unmatched == "unmatched"

RealSeats == (IF loadout = None THEN 2 ELSE Len(loadout.seats)) + ExtraSeats

-----------------------------------------------------------------------------
(* The roster *)

(* passengersOf: who is attached within 5 m, in the order of the players.  *)
PassengersOf ==
  LET all == SetToSeq(Men)
  IN  AtPlaces(all, {i \in 1..Len(all) : men[all[i]] # None})

(* The backend's seats, or the passengers numbered as found. *)
DisplaySeats ==
  IF seatsRead
  THEN [i \in 1..RealSeats |->
          LET at == {m \in Men : men[m] = i}
          IN  [idx |-> i - 1, occ |-> IF at = {} THEN None ELSE CHOOSE m \in at : TRUE]]
  ELSE [i \in 1..Len(PassengersOf) |-> [idx |-> i - 1, occ |-> PassengersOf[i]]]

(* The occupant on display at a seat. *)
Occupant(seats, idx) ==
  LET at == {i \in 1..Len(seats) : seats[i].idx = idx}
  IN  IF at = {} THEN None ELSE seats[MaxIn(at)].occ

(* Live turrets that carry ammo, by their place in the frame. *)
LiveArmed == {t \in 1..Len(turrets) : turrets[t].mags # None /\ turrets[t].mags > 0}

Row(key, occ, turret, live, guns, weaponSeat) ==
  [key |-> key, occ |-> occ, turret |-> turret, live |-> live, guns |-> guns,
   weaponSeat |-> weaponSeat]

OfClass(c) == {t \in LiveArmed : c # None /\ turrets[t].cls = c}

(* The first turret of its class, also when an earlier seat has it. *)
ClaimsFirst(i) ==
  LET mine == OfClass(loadout.seats[i])
  IN  IF mine = {} THEN None ELSE NthOf(mine, 1)

(* The turret a seat of the catalogue claims by class: of several seats    *)
(* with one class each takes the next.                                     *)
Claims(i) ==
  LET mine == OfClass(loadout.seats[i])
      nth  == Cardinality({j \in 1..i : loadout.seats[j] = loadout.seats[i]})
  IN  IF nth <= Cardinality(mine) THEN NthOf(mine, nth) ELSE None

CatalogueRows(seats) ==
  [i \in 1..Len(loadout.seats) |->
     LET c    == loadout.seats[i]
         guns == WeaponsOf(loadout, c)
     IN  Row(<<"s", i - 1>>, Occupant(seats, i - 1), c, Claims(i), guns, c # None /\ guns > 0)]

(* The catalogue's seats, then the live ones it does not have. *)
SeatRows(seats) ==
  LET more == AtPlaces(seats, {i \in 1..Len(seats) :
                                 loadout = None \/ seats[i].idx >= Len(loadout.seats)})
      tag  == IF loadout = None THEN "s" ELSE "x"
  IN  (IF loadout = None THEN << >> ELSE CatalogueRows(seats))
      \o [i \in 1..Len(more) |-> Row(<<tag, more[i].idx>>, more[i].occ, None, None, 0, FALSE)]

(* Armed turrets no seat claimed. *)
Leftover(rows) == LiveArmed \ {rows[r].live : r \in 1..Len(rows)}

(* Weapon seats still without one. *)
Vacant(rows) == {r \in 1..Len(rows) : rows[r].weaponSeat /\ rows[r].live = None}

(* The turrets fill the vacant seats in order; what is left gets rows of   *)
(* its own.                                                                *)
Fill(rows, guns, vacant) ==
  LET Before(r) == Cardinality({v \in vacant : v <= r})
      n == Cardinality(vacant)
  IN  [r \in 1..Len(rows) |->
         IF r \in vacant /\ Before(r) <= Cardinality(guns)
         THEN [rows[r] EXCEPT !.live = NthOf(guns, Before(r))] ELSE rows[r]]
      \o [k \in 1..MaxOf(Cardinality(guns) - n, 0) |->
            Row(<<"o", k - 1>>, None, None, NthOf(guns, n + k), 0, TRUE)]

CrewRows ==
  LET rows == SeatRows(DisplaySeats)
  IN  Fill(rows, Leftover(rows), Vacant(rows))

(* What a row names: the weapon in use, else the first the seat could have *)
(* in use, else the turret itself.                                         *)
ActiveWeapon(r) ==
  LET inUse == IF r.live = None THEN None ELSE turrets[r.live].weapon
  IN  CASE inUse # None /\ inUse <= r.guns -> <<r.turret, inUse>>
        [] inUse # None /\ inUse > r.guns  -> <<"humanised", inUse>>
        [] inUse = None /\ r.guns > 0      -> <<r.turret, 1>>
        [] OTHER                           -> r.turret

-----------------------------------------------------------------------------
(* The grid of parts *)

(* Where a part is drawn.  A part is [kind, n]; its kind is what its class *)
(* and name give away.                                                     *)
Slot(p) == IF p.kind \in {"engine", "ammo", "rotorMain", "rotorTail", "wheelL", "wheelR",
                          "trackL", "trackR", "turretBase"}
           THEN p.kind ELSE "other"

Slotted(s) == {i \in 1..Len(parts) : Slot(parts[i]) = s}
InSlot(s) == AtPlaces([i \in 1..Len(parts) |-> i], Slotted(s))

(* The wheels of a side by their number, of one number as they come. *)
ByIdx(s) ==
  LET UpTo(i) == {j \in Slotted(s) : \/ parts[j].n < parts[i].n
                                     \/ parts[j].n = parts[i].n /\ j <= i}
  IN  [k \in 1..Cardinality(Slotted(s)) |-> CHOOSE i \in Slotted(s) : Cardinality(UpTo(i)) = k]

IsHeli == Slotted("rotorMain") \cup Slotted("rotorTail") # {}

(* Left, centre and right column, and the row below. *)
Grid ==
  IF IsHeli THEN << << >>, InSlot("rotorMain") \o InSlot("engine") \o InSlot("rotorTail"),
                   << >>, InSlot("other")>>
  ELSE <<ByIdx("wheelL") \o InSlot("trackL"),
         InSlot("turretBase") \o InSlot("ammo") \o InSlot("engine"),
         ByIdx("wheelR") \o InSlot("trackR"), InSlot("other")>>

-----------------------------------------------------------------------------
(* The frames *)

(* The live turrets of a class: one for each seat with a turret, in either *)
(* order of the array, all of known classes or with the first one renamed, *)
(* and at the end a gun or smoke launcher of no seat.                      *)
LiveTurrets(lo) ==
  LET known == IF lo = None THEN <<"Turret">>
               ELSE AtPlaces(lo.seats, {i \in 1..Len(lo.seats) : lo.seats[i] # None})
      Live(cls) == [cls |-> cls, mags |-> None, weapon |-> None]
      Of(s) == [i \in 1..Len(s) |-> Live(s[i])]
      renamed == IF known = << >> THEN known ELSE <<Unmatched>> \o Tail(known)
  IN  {Of(s) : s \in {known, Reverse(known), renamed}}
      \cup {Append(Of(known), Live(Unmatched))}

VehicleInit ==
  /\ veh \in Classes
  /\ loadout = VehicleLoadout(veh)
  /\ inSnap = TRUE
  /\ men = [m \in Men |-> None]
  /\ seatsRead = TRUE
  /\ turrets \in LiveTurrets(loadout)
  /\ parts = PartsOf[veh]

VehicleOff ==
  /\ veh = None /\ loadout = None /\ inSnap = FALSE /\ men = << >>
  /\ seatsRead = FALSE /\ turrets = << >> /\ parts = << >>

(* A man takes a seat, changes it or gets off. *)
Board(m, i) ==
  /\ inSnap
  /\ men[m] # i
  /\ i # None => \A o \in Men : men[o] # i
  /\ men' = [men EXCEPT ![m] = i]
  /\ UNCHANGED <<veh, loadout, inSnap, seatsRead, turrets, parts>>

(* Magazines of a turret spent, reloaded, or not read this time; the gun   *)
(* in use changes with them.                                               *)
Magazines(t, n, w) ==
  /\ inSnap
  /\ turrets[t].mags # n
  /\ turrets' = [turrets EXCEPT ![t] = [cls |-> turrets[t].cls, mags |-> n, weapon |-> w]]
  /\ UNCHANGED <<veh, loadout, inSnap, men, seatsRead, parts>>

SeatsUnread ==
  /\ inSnap
  /\ seatsRead' = ~seatsRead
  /\ UNCHANGED <<veh, loadout, inSnap, men, turrets, parts>>

(* The vehicle leaves the frame, or is back in it: the panel stays. *)
LeavesFrame ==
  /\ inSnap' = ~inSnap
  /\ UNCHANGED <<veh, loadout, men, seatsRead, turrets, parts>>

VehicleNext ==
  /\ veh # None
  /\ \/ \E m \in Men, i \in {None} \cup 1..RealSeats : Board(m, i)
     \/ \E t \in 1..Len(turrets), n \in {None, 0, 2} :
          \E w \in IF n = None THEN {None} ELSE {1, 2} : Magazines(t, n, w)
     \/ SeatsUnread
     \/ LeavesFrame

-----------------------------------------------------------------------------
(* Properties *)

(* The frame is one the reader can give. *)
VehicleTypeOK ==
  veh # None =>
    /\ veh \in Classes /\ inSnap \in BOOLEAN /\ seatsRead \in BOOLEAN
    /\ men \in [Men -> {None} \cup 1..RealSeats]
    /\ \A r \in 1..Len(turrets) : turrets[r].mags \in {None, 0, 2}

Crews == IF veh = None THEN {} ELSE {CrewRows}
RowsWith(rows, Test(_)) == {r \in 1..Len(rows) : Test(rows[r])}

(* Every armed gun of the vehicle is in one row, and in no other: not      *)
(* lost when its class is unknown, not shown again when two seats share    *)
(* its class (the crew list of VehiclePanel.tsx).                          *)
EveryGunOnce ==
  \A rows \in Crews : \A t \in LiveArmed :
    Cardinality(RowsWith(rows, LAMBDA r : r.live = t)) = 1

(* A gun of a known class is at a seat of that class, whatever else in the *)
(* array is unknown: filling by position never takes a seat before the     *)
(* guns that belong there, and the row names the weapon really in use.     *)
GunAtItsSeat ==
  \A rows \in Crews : \A t \in LiveArmed :
    loadout # None /\ Contains(loadout.seats, turrets[t].cls) =>
      \A r \in RowsWith(rows, LAMBDA row : row.live = t) :
        /\ rows[r].turret = turrets[t].cls
        /\ ActiveWeapon(rows[r])[2] = turrets[t].weapon

(* Every man aboard is in one row, also when seats are missing from the    *)
(* catalogue or unread, and no two rows share a key.                       *)
EveryManOnce ==
  \A rows \in Crews :
    /\ \A m \in Men : men[m] # None =>
         Cardinality(RowsWith(rows, LAMBDA r : r.occ = m)) = 1
    /\ \A i, j \in 1..Len(rows) : i # j => rows[i].key # rows[j].key

(* On a ground vehicle every part has one indicator, the wheels of a side  *)
(* in their order.                                                         *)
PartsShown ==
  veh # None /\ ~IsHeli =>
    LET all == Grid[1] \o Grid[2] \o Grid[3] \o Grid[4]
    IN  /\ Len(all) = Len(parts) /\ ToSet(all) = 1..Len(parts)
        /\ \A c \in {1, 3} : \A i, j \in 1..Len(Grid[c]) :
             LET a == parts[Grid[c][i]]
                 b == parts[Grid[c][j]]
             IN  i < j /\ a.kind = b.kind /\ a.kind \in {"wheelL", "wheelR"} => a.n <= b.n

(* What the panel of a vehicle promises, whatever its catalogue entry and  *)
(* the order its turrets, seats and parts are read in: guns, men and parts *)
(* are all there, once, each where it belongs (VehiclePanel.tsx).          *)
VehicleAccounted ==
  VehicleTypeOK /\ EveryGunOnce /\ GunAtItsSeat /\ EveryManOnce /\ PartsShown
=============================================================================
