----------------------------- MODULE ReplayLoad -----------------------------
(***************************************************************************)
(* Loading a replay, from the match to the panels: the agent samples the   *)
(* game, the server packs the recording, and the viewer unpacks each line, *)
(* folds position frames into snapshots and runs the kill feed and the     *)
(* ticket analysis over them (api/recordings.ts, api/replay.ts).           *)
(*                                                                         *)
(* The match (world), the sampling and the packing are outside the viewer; *)
(* one step of the specification is one line of the recording.             *)
(***************************************************************************)
EXTENDS KillFeed, ReplayWire, TicketTimeline

CONSTANTS
  Sources,      \* where the damage events come from: the game's "log", which
                \* names victims only, or its "memory", which has their id
  Roster,       \* the players, in the order the agent lists them
  Eos, Name, Team, Weapon,   \* functions of the players
  Attacks,      \* pairs <<attacker, victim>> that may happen
  Mortals,      \* players who may fall to death, bleed out or be revived
  Leaver, Gunner, Squaddie,  \* who reconnects, who mounts, who changes squad
  CarKind, CarClass, CarTeam, StartTickets,
  Drained,       \* the team whose tickets are drained, gained or misread
  MaxFull, MaxPos, PosAfter  \* bounds: full lines, position lines in a row,
                             \* the full lines after which these may come

VARIABLES
  source,   \* where this server takes the damage events from
  world,    \* the match
  enc,      \* the server's encoder
  reader,   \* unpacker, last full frame, snapshot of the line just read
  diff, rows,   \* the kill feed's state and the rows of the last snapshot
  tickets,  \* the ticket analysis so far
  seen,     \* what the agent saw when it wrote the last line
  hits, shown, credited, missed, lost, killed,   \* history, for the properties
  timed     \* the game time up to which the feed has dropped old attacks,
            \* after the last line and before it

viewer == <<reader, diff, rows, tickets>>
vars == <<source, world, enc, viewer, seen, hits, shown, credited, missed, lost, killed, timed>>

People == Range(Roster)

(* A player is known by his stable id, or else by his name; two of one name *)
(* are on different teams.  A name may not be known.                       *)
ASSUME RosterAssumption ==
  /\ \A i, j \in 1..Len(Roster) : Roster[i] = Roster[j] => i = j
  /\ \A p, q \in People : \/ OrElse(Eos[p], Name[p]) # OrElse(Eos[q], Name[q])
                          \/ p = q
  /\ \A p, q \in People :
       Name[p] = Name[q] /\ Name[p] # None /\ Team[p] = Team[q] => p = q
  /\ Attacks \subseteq People \X People /\ Mortals \subseteq People
  /\ Gunner \in People \ {Leaver}
  /\ MassDeaths \in Nat /\ FullRoster \in Nat /\ None \notin {"InProgress", "Post"}

(* Of two who share a name both have a stable id, two who attack the same   *)
(* player do not share one, and the bounds of the feed are numbers.        *)
ASSUME CreditAssumption ==
  /\ \A p, q \in People : Name[p] = Name[q] /\ p # q => Eos[p] # None
  /\ \A x, y \in Attacks : x[2] = y[2] /\ Name[x[1]] = Name[y[1]] => x = y
  /\ \A x \in Attacks : Name[x[1]] # None
  /\ AttackTtl \in Nat /\ BufferMax \in Nat /\ SeenMax \in Nat /\ SeenKeep \in 0..SeenMax

ASSUME ReplayAssumption ==
  /\ Roster \in Seq(Range(Roster)) /\ Leaver \in Range(Roster)
  /\ None \notin Int
  /\ CarKind \in DOMAIN VehicleTickets /\ VehicleTickets[CarKind] \in Nat
  /\ CarClass \in DOMAIN ClassTickets => ClassTickets[CarClass] \in Nat
  /\ StartTickets \in Int

-----------------------------------------------------------------------------
(* The match and its sampling. *)

World0 == [cond |-> [p \in People |-> "up"], deaths |-> [p \in People |-> 1],
           here |-> People, where |-> 0, clock |-> 0, phase |-> "InProgress",
           tickets |-> [t \in TicketTeams |-> StartTickets],
           car |-> "runs", mounted |-> FALSE, squad |-> TRUE, full |-> 0, pos |-> 0]

(* Who is on the server, in the order of the roster. *)
Present(w) == AtPlaces(Roster, {i \in 1..Len(Roster) : Roster[i] \in w.here})

(* The lines are numbered as they are written. *)
TickOf(w) == (MaxPos + 1) * w.full + w.pos

Player(w, p) ==
  Overlay(IF w.squad /\ p = Squaddie THEN [squad |-> 1] ELSE << >>,
          [eos |-> Eos[p], name |-> Name[p], team |-> Team[p], deaths |-> w.deaths[p],
           health |-> IF w.cond[p] = "dead" THEN 0 ELSE 1 + w.where, weapon |-> Weapon[p],
           pos |-> IF w.cond[p] = "dead" THEN None ELSE w.where])

Vehicle(w) ==
  [id |-> "car", team |-> CarTeam, kind |-> CarKind, class |-> CarClass, turret |-> "turret",
   health |-> IF w.car = "runs" THEN 1 ELSE 0,
   crew |-> IF w.mounted THEN {Name[Gunner]} ELSE {}]

(* What the game takes for the car. *)
CarPrice == IF CarClass \in DOMAIN ClassTickets THEN ClassTickets[CarClass]
            ELSE VehicleTickets[CarKind]

TeamDeaths(w, t) ==
  SumSeqOf([i \in 1..Len(Roster) |->
              IF Team[Roster[i]] = t THEN w.deaths[Roster[i]] ELSE 0])

(* A full frame; "blind": no game state; "unread": a bad ticket read. *)
Sample(w, events, fault) ==
  Overlay(
    IF w.squad THEN [markers |-> 1] ELSE << >>,
    [tick |-> TickOf(w),
     players |-> [i \in 1..Cardinality(w.here) |-> Player(w, Present(w)[i])],
     vehicles |-> IF w.car = "gone" THEN << >> ELSE <<Vehicle(w)>>,
     events |-> events,
     phase |-> IF fault = "blind" THEN None ELSE w.phase,
     time |-> IF fault = "blind" THEN None ELSE w.clock,
     teams |-> [t \in TicketTeams |->
                  [deaths |-> TeamDeaths(w, t),
                   tickets |-> IF fault = "unread" /\ t = Drained THEN None
                               ELSE w.tickets[t]]]])

(* The log gives no id of the victim, never names him as his own attacker  *)
(* and knows the weapon when it knows the attacker; memory has the class   *)
(* of what caused the damage too.                                          *)
Event(att, vic, kind, w) ==
  LET self == att = Name[vic]
      common == [victim |-> Name[vic], ts |-> w.full, self |-> self,
                 killed |-> kind = "killed", wounded |-> kind = "wounded",
                 cause |-> IF att = None THEN "fall" ELSE None]
  IN  Overlay(
        IF source = "log"
        THEN [attacker |-> IF self THEN None ELSE att, victimEos |-> None,
              weapon |-> IF att = None THEN None ELSE "rifle", causer |-> None]
        ELSE [attacker |-> att, victimEos |-> Eos[vic],
              weapon |-> IF kind = "killed" THEN "rifle" ELSE None,
              causer |-> "soldier"],
        common)

Kill(w, V) ==
  [w EXCEPT !.cond = [p \in People |-> IF p \in V THEN "dead" ELSE @[p]],
            !.deaths = [p \in People |-> @[p] + (IF p \in V THEN 1 ELSE 0)],
            !.tickets = [t \in TicketTeams |->
                           @[t] - Cardinality({p \in V : Team[p] = t})]]

(* Before each full frame the dead have respawned. *)
Respawned(w) ==
  [w EXCEPT !.cond = [p \in People |-> IF @[p] = "dead" THEN "up" ELSE @[p]],
            !.clock = @ + 1, !.full = @ + 1, !.pos = 0]

Happening(w, events, fault, dead, hit) ==
  [w |-> w, events |-> events, fault |-> fault, dead |-> dead, hit |-> hit]
Plain(w) == Happening(w, << >>, "none", {}, {})

Up(w, p) == p \in w.here /\ w.cond[p] = "up"
Down(w, p) == p \in w.here /\ w.cond[p] = "down"

(* Nobody is hit: time passes, the round ends or begins, tickets change,   *)
(* somebody goes or comes back, or the game is not read.                   *)
Quiet(w) ==
  {Plain(w), Plain([w EXCEPT !.clock = @ + AttackTtl]),
   Plain([w EXCEPT !.squad = ~@]), Plain([w EXCEPT !.mounted = ~@ /\ w.car = "runs"]),
   Plain([w EXCEPT !.phase = IF @ = "Post" THEN "InProgress" ELSE "Post"]),
   Plain([w EXCEPT !.tickets[Drained] = @ - 1]),
   Plain([w EXCEPT !.tickets[Drained] = @ + 2]),
   Plain([w EXCEPT !.here = IF Leaver \in @ THEN @ \ {Leaver} ELSE @ \cup {Leaver},
                   !.cond[Leaver] = "up"]),
   Happening(w, << >>, "blind", {}, {}),
   Happening([w EXCEPT !.tickets[Drained] = @ - 1], << >>, "unread", {}, {})}

(* A hit, or two on one player from different hands. *)
Fights(w) ==
  LET Here(x) == x \in Attacks /\ x[1] \in w.here /\ x[2] \in w.here
      Hit(x, kind) == Event(Name[x[1]], x[2], kind, w)
  IN  {Happening([w EXCEPT !.cond[x[2]] = "down"], <<Hit(x, "wounded")>>, "none", {}, {x}) :
         x \in {y \in Attacks : Here(y) /\ Up(w, y[2])}}
      \cup {Happening(Kill(w, {x[2]}), <<Hit(x, "killed")>>, "none", {x[2]}, {x}) :
              x \in {y \in Attacks : Here(y)}}
      \cup {Happening(Kill(w, {z[1][2]}), <<Hit(z[1], "wounded"), Hit(z[2], "killed")>>,
                      "none", {z[1][2]}, {z[1], z[2]}) :
              z \in {y \in Attacks \X Attacks :
                       /\ Here(y[1]) /\ Here(y[2]) /\ Up(w, y[1][2])
                       /\ y[1] # y[2] /\ y[1][2] = y[2][2]}}

(* Bled out or revived; a death that no hit explains; a slaughter. *)
Fates(w) ==
  LET Dies(V, events) == Happening(Kill(w, V), events, "none", V, {})
  IN  {Dies({p}, << >>) :
         p \in {q \in Mortals : Down(w, q) \/ (Up(w, q) /\ Name[q] = None)}}
      \cup {Plain([w EXCEPT !.cond[p] = "up"]) : p \in {q \in Mortals : Down(w, q)}}
      \cup {Dies({p}, <<Event(None, p, "killed", w)>>) :
              p \in {q \in Mortals : Up(w, q) /\ Name[q] # None}}
      \cup {Dies({p}, <<Event(Name[p], p, "killed", w)>>) :
              p \in {q \in Mortals \ {Leaver} : Up(w, q) /\ Name[q] # None}}
      \cup {Dies(w.here \ {Gunner}, << >>)}

(* The car is shot up, and the crew dies with it; the wreck goes; it is    *)
(* back.                                                                   *)
CarHappens(w) ==
  LET crew == IF w.mounted THEN {Gunner} ELSE {}
  IN  {CASE w.car = "runs" ->
              Happening([Kill(w, crew) EXCEPT !.car = "wreck", !.mounted = FALSE,
                                              !.tickets[CarTeam] = @ - CarPrice],
                        << >>, "none", crew, {})
         [] w.car = "wreck" -> Plain([w EXCEPT !.car = "gone"])
         [] OTHER -> Plain([w EXCEPT !.car = "runs"])}

(* What may happen between two full frames. *)
Happenings(w) == Quiet(w) \cup Fights(w) \cup Fates(w) \cup CarHappens(w)

-----------------------------------------------------------------------------
RowsOf(p) == {i \in 1..Len(rows') : rows'[i].victim = Name[p] /\ rows'[i].victimTeam = Team[p]}

(* This name, on this team, is the player as the events tell him: those of *)
(* the log know nobody but by name.                                        *)
SameVictim(name, team, p) == name = Name[p] /\ (source = "log" \/ team = Team[p])

(* The rows that credit this attacker with this victim. *)
CreditsTo(x) ==
  {i \in 1..Len(rows') : /\ rows'[i].killer = Name[x[1]]
                         /\ SameVictim(rows'[i].victim, rows'[i].victimTeam, x[2])}

(* The viewer takes the snapshot a line yields, if it yields one: both     *)
(* passes move on it.                                                      *)
Load(line) ==
  LET r == PushLine(reader, line)
      d == DiffSnapshot(diff, r.snap)
  IN  /\ reader' = r
      /\ diff' = IF r.snap = NoFrame THEN diff ELSE d.d
      /\ rows' = IF r.snap = NoFrame THEN << >> ELSE d.rows
      /\ tickets' = IF reader.snap = NoFrame \/ r.snap = NoFrame THEN tickets
                    ELSE TicketStep(tickets, reader.snap, r.snap)

WithName(P) == {p \in P : Name[p] # None}

(* The round is over, deaths without any event pile up, or hardly anybody  *)
(* of a full server is left alive.                                         *)
Broken(h) ==
  \/ h.w.phase # "InProgress"
  \/ h.events = << >> /\ Cardinality(WithName(h.dead)) >= MassDeaths
  \/ /\ Cardinality(h.w.here) >= FullRoster
     /\ Cardinality({q \in h.w.here : h.w.cond[q] # "dead"}) <= 1

(* Time goes on for the feed with every frame that has one, unless the     *)
(* match is broken.                                                        *)
History(h, was) ==
  /\ hits' = hits \cup {[by |-> x[1], of |-> x[2], at |-> h.w.clock,
                         life |-> world.deaths[x[2]]] : x \in h.hit}
  /\ timed' = [before |-> timed.now,
               now |-> IF seen' = NoFrame \/ seen'.time = None \/ Broken(h)
                       THEN timed.now ELSE seen'.time]
  /\ shown' = [p \in People |-> shown[p] + Cardinality(RowsOf(p))]
  /\ missed' = [p \in People |->
       missed[p] + (IF p \in h.dead /\ (Name[p] = None \/ p \notin was \/ Broken(h))
                    THEN 1 ELSE 0)]
  /\ credited' = [x \in Attacks |-> credited[x] + Cardinality(CreditsTo(x))]

(* One full frame is sampled, packed, sent and loaded. *)
FullLine ==
  /\ world.full < MaxFull
  /\ \E h \in IF world.full = 0 THEN {Plain(Respawned(world))}
            ELSE Happenings(Respawned(world)) :
       LET f == Sample(h.w, h.events, h.fault)
           e == EncodeFull(enc, f)
       IN  /\ world' = h.w
           /\ seen' = f
           /\ enc' = e.e
           /\ Load(e.line)
           /\ History(h, world.here)
           /\ lost' = IF seen = NoFrame THEN lost
                      ELSE [t \in TicketTeams |-> lost[t] +
                              (IF BothInProgress(seen, f) THEN Drop(seen, f, t) ELSE 0)]
           /\ killed' = [t \in TicketTeams |-> killed[t] +
                           (IF t = CarTeam /\ world.car = "runs" /\ h.w.car = "wreck"
                            THEN CarPrice ELSE 0)]
           /\ UNCHANGED source

(* An entry of a frame, sampled somewhere else, the health too or not.     *)
Moved(x, where, whole) ==
  [x EXCEPT !.pos = where, !.health = IF whole THEN 1 + where ELSE @]

(* Between full frames everybody walks on, or back, and the agent samples  *)
(* positions: of the living, or of whoever has a soldier by now; of them   *)
(* the whole, or no more than where they are.  What is not sampled stays   *)
(* as the last full frame had it.                                          *)
PositionLine ==
  /\ world.pos < MaxPos /\ world.full \in PosAfter
  /\ \E S \in {{p \in world.here : world.cond[p] # "dead"}, world.here \ {Leaver}},
        whole \in BOOLEAN :
       LET w == [world EXCEPT !.where = 1 - @, !.pos = @ + 1]
           f == [t |-> "pos", tick |-> TickOf(w),
                 players |-> [k \in {OrElse(Eos[p], Name[p]) : p \in S} |->
                                [at |-> w.where,
                                 health |-> IF whole THEN 1 + w.where ELSE None]],
                 vehicles |->
                   IF w.car = "gone" THEN << >>
                   ELSE [car |-> IF whole THEN [health |-> Vehicle(w).health, team |-> CarTeam]
                                 ELSE [health |-> None, team |-> None]]]
       IN  /\ world' = w
           /\ Load([kind |-> "pos", pos |-> f])
           /\ seen' = IF world.full = 0 THEN NoFrame ELSE
                [enc.prev EXCEPT !.tick = f.tick, !.events = << >>,
                   !.players = [i \in DOMAIN @ |->
                      IF KeyOf(@[i]) \in DOMAIN f.players /\ @[i].health > 0
                      THEN Moved(@[i], w.where, whole) ELSE @[i]]]
           /\ History(Plain(w), world.here)
           /\ UNCHANGED <<source, enc, lost, killed>>

(* The header opens the stream; a line the encoder could not read adds     *)
(* nothing, wherever it stands.                                            *)
OtherLine ==
  /\ \E kind \in IF world.full = 0 /\ world.pos = 0 THEN {"header", "raw"} ELSE {"raw"} :
       reader' = PushLine(reader, [kind |-> kind])
  /\ UNCHANGED <<source, world, enc, diff, rows, tickets, seen, hits, shown,
                 credited, missed, lost, killed, timed>>

Init ==
  /\ source \in Sources /\ world = World0 /\ enc = NewEncoder /\ reader = NewReader
  /\ diff = NewDiff /\ rows = << >> /\ tickets = NewTickets /\ seen = NoFrame
  /\ hits = {} /\ credited = [x \in Attacks |-> 0]
  /\ shown = [p \in People |-> 0] /\ missed = [p \in People |-> 0]
  /\ lost = [t \in TicketTeams |-> 0] /\ killed = [t \in TicketTeams |-> 0]
  /\ timed = [now |-> 0, before |-> 0]

Next == FullLine \/ PositionLine \/ OtherLine

Spec == Init /\ [][Next]_vars

-----------------------------------------------------------------------------
TypeOK ==
  /\ diff.inited <=> world.full > 0
  /\ Len(diff.buffer) <= BufferMax
  /\ \A i \in 1..Len(diff.buffer) : ~diff.buffer[i].used
  /\ Len(diff.seen) <= SeenMax
  /\ \A t \in TicketTeams : tickets.acc[t] \in Nat /\ tickets.bk[t].total \in Nat

(* Two layers of decoding give back what the agent saw: every field of a   *)
(* full frame, entities in their order, those without an id in their       *)
(* place, nothing carried forward that has gone; and after a position line *)
(* the same roster with whoever was sampled where he was sampled.          *)
DecodedIsSeen == reader.snap # NoFrame => reader.snap = seen

(* A row that names a killer names somebody who wounded or killed that     *)
(* victim, as far as the events tell victims apart, and the attack had not *)
(* run out when the feed last dropped old ones.                            *)
KillerDidHit ==
  \A i \in 1..Len(rows) : rows[i].killer # None =>
    \E h \in hits :
      /\ Name[h.by] = rows[i].killer
      /\ SameVictim(rows[i].victim, rows[i].victimTeam, h.of)
      /\ timed.before - h.at <= AttackTtl

(* No attack is credited twice. *)
CreditedOnce ==
  \A x \in Attacks :
    credited[x] <= Cardinality({h \in hits : /\ Name[h.by] = Name[x[1]]
                                             /\ SameVictim(Name[h.of], Team[h.of], x[2])})

(* Every death is one row: none is shown twice, and none is left out       *)
(* unless the match was in transition, the player was not in the frame     *)
(* before or his name is not known.                                        *)
OneRowPerDeath ==
  \A p \in People : world.deaths[p] = 1 + shown[p] + missed[p]

(* A team's losses add up to the drops of its tickets between readable     *)
(* frames of a running match.                                              *)
LossesAddUp ==
  \A t \in TicketTeams :
    LET b == tickets.bk[t]
    IN  b.total = lost[t] /\ b.total = b.death + b.vehicle + b.bleed

(* No cause is charged with more than happened. *)
CausesBounded ==
  \A t \in TicketTeams :
    /\ tickets.bk[t].vehicle <= killed[t]
    /\ tickets.bk[t].death + tickets.acc[t] <=
         TeamDeaths(world, t) - TeamDeaths(World0, t)

(* The killer a row names hit the player in the life that ended: "Never a  *)
(* guessed killer" (diff.ts:351).                                          *)
KillerOfThisLife ==
  \A i \in 1..Len(rows) : rows[i].killer # None =>
    \E h \in hits :
      /\ Name[h.by] = rows[i].killer
      /\ Name[h.of] = rows[i].victim /\ Team[h.of] = rows[i].victimTeam
      /\ h.life = world.deaths[h.of] - 1

(* Credit is due: within the bounds of its buffers (TypeOK) the feed names *)
(* somebody who did hit the victim, and for no attack twice.               *)
CreditIsDue == TypeOK /\ KillerDidHit /\ CreditedOnce

(* The losses of a team are explained by what was seen, all of them and    *)
(* nothing beyond it.                                                      *)
LossesExplained == LossesAddUp /\ CausesBounded
=============================================================================
