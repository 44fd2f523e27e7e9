------------------------------ MODULE KillFeed ------------------------------
(***************************************************************************)
(* The diff of successive snapshots that yields the kill feed              *)
(* (killfeed/diff.ts).  A rise of a player's death counter is a death; it  *)
(* is credited to the latest attack on him still in a buffer, which damage *)
(* events fill and game time empties.                                      *)
(*                                                                         *)
(* A snapshot is a record: players (a sequence of records with eos, name,  *)
(* team, deaths, health, weapon), vehicles (with crew, the names seated in *)
(* it, and turret), events, phase and time (None when not read).  A player *)
(* whose name is not known (None) takes no part.                           *)
(***************************************************************************)
EXTENDS ReplayBasics

CONSTANTS
  AttackTtl,     \* game seconds an attack stays creditable
  BufferMax,     \* attacks the buffer may hold
  SeenMax,       \* fingerprints kept before the set is trimmed ...
  SeenKeep,      \* ... to this many
  FullRoster,    \* players from which a collapse of the living is a map change
  MassDeaths,    \* deaths without any event that read as a map change
  UtilityWeapons,\* bandages, shovels, ...: never what killed
  SoldierClasses \* a soldier as the causer: not a weapon

(* As IdOf, but by the name shown. *)
IdByName(p) == p.name

IdOf(p) == OrElse(p.eos, p.name)

NewDiff == [prev |-> << >>, weapons |-> << >>, seen |-> << >>,
            buffer |-> << >>, inited |-> FALSE]

(* The sticky weapon of every named player who holds one that can kill. *)
HeldWeapons(players) ==
  MapBy(SelectSeq(players, LAMBDA p : /\ p.name # None
                                      /\ p.weapon \notin UtilityWeapons \cup {None}),
        LAMBDA p : p.name, LAMBDA p : p.weapon)

(* The death counters of the named players; of two with one id the last    *)
(* one's.                                                                  *)
Counters(players) ==
  LET Named == {i \in 1..Len(players) : players[i].name # None}
      LastWith(id) == CHOOSE i \in Named : /\ IdOf(players[i]) = id
                                           /\ \A j \in Named : j > i => IdOf(players[j]) # id
  IN  [id \in {IdOf(players[i]) : i \in Named} |-> players[LastWith(id)].deaths]

(* Named players of the previous snapshot whose death counter has risen. *)
Deaths(d, players) ==
  LET Risen(p) == /\ p.name # None /\ IdOf(p) \in DOMAIN d.prev
                  /\ p.deaths > d.prev[IdOf(p)]
  IN  AtPlaces(players, {i \in 1..Len(players) : Risen(players[i])})

(* A broken combat state: the round is over, a full server with nobody     *)
(* alive, or many deaths at once that no event explains.                   *)
InTransition(snap, dead) ==
  \/ snap.phase \notin {None, "InProgress"}
  \/ /\ Len(snap.players) >= FullRoster
     /\ Cardinality({i \in 1..Len(snap.players) : snap.players[i].health > 0}) <= 1
  \/ snap.events = << >> /\ Len(dead) >= MassDeaths

IsAttack(ev) ==
  /\ ev.attacker # None /\ ev.victim # None /\ ev.attacker # ev.victim
  /\ ev.killed \/ ev.wounded

Fingerprint(ev) ==
  <<ev.attacker, ev.victim, ev.ts, IF ev.killed THEN "k" ELSE "w">>

(* One event of the snapshot: an attack not seen before joins the buffer.  *)
BufferEvent(d, ev, now) ==
  IF ~IsAttack(ev) \/ Contains(d.seen, Fingerprint(ev)) THEN d
  ELSE [d EXCEPT !.seen = Append(@, Fingerprint(ev)),
                 !.buffer = Append(@, [ev |-> ev, at |-> now, used |-> FALSE])]

BufferEvents(d, snap) ==
  LET after[n \in 0..Len(snap.events)] ==
        IF n = 0 THEN d ELSE BufferEvent(after[n - 1], snap.events[n], snap.time)
  IN  after[Len(snap.events)]

(* The attacks a death may be credited to: same name, and the same stable  *)
(* id when both sides have one.                                            *)
Creditable(d, p) ==
  {i \in 1..Len(d.buffer) :
     LET b == d.buffer[i]
     IN  /\ ~b.used
         /\ b.ev.victim = p.name
         /\ p.eos = None \/ b.ev.victimEos = None \/ p.eos = b.ev.victimEos}

PlayerNamed(snap, n) ==
  LET ByName == MapBy(SelectSeq(snap.players, LAMBDA p : p.name # None),
                      LAMBDA p : p.name, LAMBDA p : p)
  IN  IF n \in DOMAIN ByName THEN ByName[n] ELSE None

(* The first vehicle a player of that name sits in. *)
VehicleOf(snap, n) ==
  LET Mine == SelectSeq(snap.vehicles, LAMBDA v : n \in v.crew)
  IN  IF Mine = << >> THEN None ELSE Head(Mine)

(* What killed: the event's weapon, then its causer, then the turret of a  *)
(* mounted killer or the weapon in his hands, then the last one he held.   *)
EventWeapon(ev) ==
  CASE ev.weapon \notin UtilityWeapons \cup {None} -> ev.weapon
    [] ev.causer \notin UtilityWeapons \cup SoldierClasses \cup {None} -> ev.causer
    [] OTHER -> None

ResolveWeapon(ev, killer, snap, cache) ==
  LET Car == VehicleOf(snap, ev.attacker)
      Turret == IF Car = None THEN None ELSE Car.turret
      Hand == IF killer = None \/ Turret # None \/ killer.weapon \in UtilityWeapons
              THEN None ELSE killer.weapon
      Direct == SelectSeq(<<EventWeapon(ev), Hand, Turret>>, LAMBDA w : w # None)
  IN  IF Direct # << >> THEN [weapon |-> Head(Direct), approx |-> FALSE]
      ELSE IF ev.attacker \in DOMAIN cache
           THEN [weapon |-> cache[ev.attacker], approx |-> TRUE]
           ELSE [weapon |-> None, approx |-> FALSE]

(* The row of a death credited to a buffered attack; what a player did to  *)
(* himself names no killer.                                                *)
CreditedRow(d, p, ev, snap) ==
  LET k == PlayerNamed(snap, ev.attacker)
      kTeam == IF k = None THEN None ELSE k.team
      w == ResolveWeapon(ev, k, snap, d.weapons)
      suicide == ev.self \/ ev.attacker = p.name
  IN  [killer |-> IF suicide THEN None ELSE ev.attacker, victim |-> p.name, victimTeam |-> p.team,
       weapon |-> w.weapon, approx |-> w.approx, cause |-> ev.cause,
       car |-> VehicleOf(snap, ev.attacker) # None,
       tk |-> ~suicide /\ kTeam # None /\ kTeam = p.team, suicide |-> suicide]

(* The row of a death nobody is credited with: its cause comes from the    *)
(* latest event on the player that states one; from there back the older   *)
(* events are not looked at.                                               *)
WorldRow(p, snap) ==
  LET Mine == {i \in 1..Len(snap.events) : snap.events[i].victim = p.name}
      Caused == {i \in Mine : snap.events[i].cause # None}
      From == IF Caused = {} THEN 1 ELSE CHOOSE i \in Caused : \A j \in Caused : j <= i
      Looked == {i \in Mine : i >= From}
  IN  [killer |-> None, victim |-> p.name, victimTeam |-> p.team,
       weapon |-> None, approx |-> FALSE, car |-> FALSE,
       cause |-> IF Caused = {} THEN None ELSE snap.events[From].cause,
       tk |-> FALSE,
       suicide |-> \E i \in Looked : \/ snap.events[i].attacker = p.name
                                     \/ snap.events[i].self]

(* As CreditDeath, but the attack is not consumed. *)
CreditDeathKeeping(acc, p, snap) ==
  LET C == Creditable(acc.d, p)
      i == CHOOSE i \in C : \A j \in C : j <= i
  IN  [acc EXCEPT !.rows = Append(@,
         IF C = {} THEN WorldRow(p, snap)
         ELSE CreditedRow(acc.d, p, acc.d.buffer[i].ev, snap))]

(* One death: the latest creditable attack is consumed. *)
CreditDeath(acc, p, snap) ==
  LET d == acc.d
      C == Creditable(d, p)
      i == CHOOSE i \in C : \A j \in C : j <= i
  IN  IF C = {} THEN [acc EXCEPT !.rows = Append(@, WorldRow(p, snap))]
      ELSE [d |-> [d EXCEPT !.buffer[i].used = TRUE],
            rows |-> Append(acc.rows, CreditedRow(d, p, d.buffer[i].ev, snap))]

CreditDeaths(d, dead, snap) ==
  LET after[n \in 0..Len(dead)] ==
        IF n = 0 THEN [d |-> d, rows |-> << >>]
        ELSE CreditDeath(after[n - 1], dead[n], snap)
  IN  after[Len(dead)]

(* The end of a pass: consumed and expired attacks leave, both bounds hold. *)
Aged(d, now) ==
  LET Fresh(b) == ~b.used /\ (now = None \/ b.at = None \/ now - b.at <= AttackTtl)
      Kept(b) == AtPlaces(b, {i \in 1..Len(b) : Fresh(b[i])})
  IN  [d EXCEPT !.buffer = LastOf(Kept(@), BufferMax),
                !.seen = IF Len(@) > SeenMax THEN LastOf(@, SeenKeep) ELSE @]

(* One snapshot: the counters advance first, the first snapshot only seeds *)
(* them, and a transition neither reads events nor ages the buffer.        *)
DiffSnapshot(d, snap) ==
  LET dead == Deaths(d, snap.players)
      seeded == [d EXCEPT !.weapons = HeldWeapons(snap.players) @@ @,
                          !.prev = Counters(snap.players), !.inited = TRUE]
      credited == CreditDeaths(BufferEvents(seeded, snap), dead, snap)
  IN  IF ~d.inited \/ InTransition(snap, dead) THEN [d |-> seeded, rows |-> << >>]
      ELSE [d |-> Aged(credited.d, snap.time), rows |-> credited.rows]
=============================================================================
