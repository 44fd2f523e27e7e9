------------------------------ MODULE Captures ------------------------------
(***************************************************************************)
(* The objectives on the map (canvas/capVisibility.ts and drawLane,        *)
(* drawCaps, drawLaneNodeCaps of canvas/draw.ts): which capture zones are  *)
(* shown, where their flags stand and how the lane is threaded through     *)
(* them, while the layer rolls its lane and the flags change hands.        *)
(*                                                                         *)
(* The map is a line.  A zone is its number, its place in captureZones; a  *)
(* live zone is a record of what memory says of it, and None stands for a  *)
(* zone the server has despawned.                                          *)
(***************************************************************************)
EXTENDS ReplayBasics

CONSTANTS
  Zones,         \* 1..n
  ZoneOf,        \* zone -> [depth, place, anchor, main, shape]
  LaneNodes,     \* node of the lane -> [depth, pos, team]
  LaneEdges,     \* sequence of pairs of nodes
  Objectives,    \* node -> anchor of its static objective, or None
  Lanes,         \* the sets of zones the layer may roll
  CloudMin, CloudDupMin, CloudDepthMin, NearSnap, \* as in the code
  MatchReach,    \* how far from its flag a zone is matched (capzones.py)
  Hovers,        \* how near the cursor must be to a zone, at each zoom
  MaxZoneEvents  \* bound: what may happen to the zones

VARIABLES
  zones,         \* zone -> None or [locked, owner, taking, pct, read]
  rolled,        \* the set of zones rolled, or None
  zoneEvents

capVars == <<zones, rolled, zoneEvents>>

IsMainZone(z) == ZoneOf[z].main

(* The objectives of all lanes.                                            *)
Candidates == {z \in Zones : ~IsMainZone(z)}

Anchor(z) == OrElse(ZoneOf[z].anchor, ZoneOf[z].place)

SameDepth(S, n) ==
  \E z \in S : /\ ZoneOf[z].depth # None
               /\ Cardinality({y \in S : ZoneOf[y].depth = ZoneOf[z].depth}) >= n

(* The lane hangs together; an objective of it has a place of its own, out *)
(* of reach of the next one's, and its static anchor is no further from it *)
(* than the reader matches them (_clean_match of squad/capzones.py); the   *)
(* objectives of one lane are no cloud, and those of all lanes are one,    *)
(* whatever MaxZoneEvents lets be taken of them before the layer rolls.    *)
ASSUME LanesAssumption ==
  /\ MaxZoneEvents \in Nat /\ CloudMin \in Nat /\ CloudDepthMin \in Nat /\ NearSnap \in Nat
  /\ MatchReach \in Nat /\ Hovers \subseteq Nat
  /\ IsFiniteSet(Zones) /\ Zones = 1..Cardinality(Zones)
  /\ None \notin Int /\ None \notin Lanes
  /\ None \notin [locked : BOOLEAN, owner : {0, 1, 2}, taking : {0, 1, 2}, pct : {0, 50, 100},
                  read : BOOLEAN]
  /\ \A z \in Zones : /\ ZoneOf[z].main \in BOOLEAN
                       /\ ZoneOf[z].place \in Int /\ ZoneOf[z].anchor \in Int \cup {None}
                       /\ Far(ZoneOf[z].place, Anchor(z)) <= MatchReach
  /\ IsFiniteSet(DOMAIN LaneNodes) /\ \A n \in DOMAIN LaneNodes : LaneNodes[n].pos \in Int
  /\ LaneEdges \in Seq((DOMAIN LaneNodes) \X (DOMAIN LaneNodes))
  /\ \A N \in SUBSET (DOMAIN LaneNodes) :
       N # {} /\ (\A e \in 1..Len(LaneEdges) : LaneEdges[e][1] \in N <=> LaneEdges[e][2] \in N)
       => N = DOMAIN LaneNodes
  /\ \A lane \in Lanes :
       /\ \A y, z \in {x \in Zones : x \in lane \/ IsMainZone(x)} : Anchor(y) = Anchor(z) => y = z
       /\ \A y, z \in {x \in Zones : x \in lane \/ IsMainZone(x)} :
            y # z => Far(ZoneOf[y].place, ZoneOf[z].place) > 2 * MatchReach
       /\ Cardinality(Candidates \cap lane) < CloudMin /\ ~SameDepth(Candidates \cap lane, CloudDepthMin)
  /\ \A T \in (SUBSET Candidates) \ {Candidates} :
       4 * Cardinality(T) <= MaxZoneEvents =>
         \/ Cardinality(Candidates \ T) >= CloudMin
         \/ SameDepth(Candidates \ T, CloudDepthMin)

DormantZone == [locked |-> TRUE, owner |-> 0, taking |-> 0, pct |-> 0, read |-> TRUE]

LiveZones == {z \in DOMAIN zones : zones[z] # None}
ReadZones == {z \in LiveZones : zones[z].read}

-----------------------------------------------------------------------------
(* Fog of war *)

CapInPlay(z) == \/ ~zones[z].locked \/ zones[z].owner > 0
                \/ zones[z].taking > 0 \/ zones[z].pct > 0

Dormant == {z \in LiveZones : ~IsMainZone(z) /\ ~CapInPlay(z)}

(* Where a dormant zone is for the test of duplicates: its anchor counts   *)
(* when its own place was not read.                                        *)
Stand(z) == IF ZoneOf[z].anchor # None THEN ZoneOf[z].anchor
            ELSE IF zones[z].read THEN ZoneOf[z].place ELSE None

SamePlace(S) == \E y, z \in S : y # z /\ Stand(y) # None /\ Stand(y) = Stand(z)

IsPreRollCloud ==
  \/ Cardinality(Dormant) >= CloudMin
  \/ SameDepth(Dormant, CloudDepthMin)
  \/ Cardinality(Dormant) >= CloudDupMin /\ SamePlace(Dormant)

CapVisible(z, cloud) == IsMainZone(z) \/ CapInPlay(z) \/ ~cloud

VisibleCaps == LET cloud == IsPreRollCloud IN {z \in LiveZones : CapVisible(z, cloud)}

-----------------------------------------------------------------------------
(* The flags *)


(* Of a sequence of places the first that is nearest to p. *)
NearestTo(s, p) ==
  CHOOSE i \in 1..Len(s) :
    \A j \in 1..Len(s) : \/ Far(s[i], p) < Far(s[j], p)
                         \/ Far(s[i], p) = Far(s[j], p) /\ i <= j

(* The mark of a zone: its plate with the flag of the owner, the outline   *)
(* of the zone (or the dashed ring), the arc of the capture's progress,    *)
(* the padlock; each with the team whose colour it has.                    *)
CapMark(z) ==
  LET s == zones[z]
      contested == s.taking > 0 /\ s.taking # s.owner
  IN  [at |-> Anchor(z), plate |-> s.owner, lock |-> s.locked,
       shape |-> IF ZoneOf[z].shape /\ contested THEN s.taking ELSE s.owner,
       arc |-> IF s.pct > 0 /\ s.pct < 100 THEN s.taking ELSE None]

(* Without capture zones the nodes of the lane are marked, each once: main *)
(* bases in their team's colour, at the static anchor when there is one.   *)
NodeMarks ==
  LET nodes == {LaneEdges[e][i] : e \in 1..Len(LaneEdges), i \in 1..2}
  IN  {[node |-> n, team |-> LaneNodes[n].team, at |-> OrElse(Objectives[n], LaneNodes[n].pos)] :
         n \in {m \in nodes : LaneNodes[m].pos # None}}

DrawnCaps == VisibleCaps \cap ReadZones

CapsOnMap == IF LiveZones = {} THEN NodeMarks ELSE {CapMark(z) : z \in DrawnCaps}

(* What the cursor can find: the zone whose own place, not its anchor, is  *)
(* nearest to it and near enough, the first in the frame of several.       *)
HitCaps(w, hover) == {z \in VisibleCaps : zones[z].read /\ Far(ZoneOf[z].place, w) <= hover}

CapHit(w, hover) ==
  LET found == HitCaps(w, hover)
      far(z) == Far(ZoneOf[z].place, w)
  IN  IF found = {} THEN None
      ELSE CHOOSE z \in found : \A y \in found : far(z) < far(y) \/ (far(z) = far(y) /\ z <= y)

-----------------------------------------------------------------------------
(* The lane *)

CapsByLast(depth) ==
  LET all == AtPlaces([z \in Zones |-> Anchor(z)], {z \in ReadZones : ZoneOf[z].depth = depth})
  IN  IF all = << >> THEN << >> ELSE <<all[Len(all)]>>

(* The flags that share a prefix, in their order in the frame. *)
CapsByPrefix(depth) ==
  AtPlaces([z \in Zones |-> Anchor(z)], {z \in ReadZones : ZoneOf[z].depth = depth})

AllCaps == AtPlaces([z \in Zones |-> Anchor(z)], ReadZones)

(* A node nobody has a flag for: on the flag it overlaps, else its own. *)
SnapToNearCap(pos) ==
  LET all == AllCaps
      i   == NearestTo(all, pos)
  IN  IF all # << >> /\ Far(all[i], pos) <= NearSnap THEN all[i] ELSE pos

(* The end of an edge at a node, seen from the edge's other end. *)
Resolve(node, toward) ==
  LET caps == CapsByPrefix(LaneNodes[node].depth)
      pos  == LaneNodes[node].pos
  IN  IF caps # << >>
      THEN IF Len(caps) = 1 \/ toward = None THEN caps[1] ELSE caps[NearestTo(caps, toward)]
      ELSE IF pos = None THEN None ELSE SnapToNearCap(pos)

Without(s, i) == SubSeq(s, 1, i - 1) \o SubSeq(s, i + 1, Len(s))

(* The flags of one prefix in the order they are joined: the first, then   *)
(* always the nearest of the rest.                                         *)
Onward(w) ==
  LET i == NearestTo(w.rest, w.done[Len(w.done)])
  IN  [done |-> Append(w.done, w.rest[i]), rest |-> Without(w.rest, i)]

ChainOf(caps) ==
  LET walk[k \in 1..Len(caps)] ==
        IF k = 1 THEN [done |-> <<caps[1]>>, rest |-> Tail(caps)] ELSE Onward(walk[k - 1])
  IN  IF Len(caps) < 2 THEN caps ELSE walk[Len(caps)].done

Segment(a, b) == IF a = None \/ b = None \/ a = b THEN {} ELSE {{a, b}}

LaneLines ==
  LET chains == {ChainOf(CapsByPrefix(d)) : d \in {ZoneOf[z].depth : z \in ReadZones}}
  IN  IF LaneEdges = << >> THEN {}
      ELSE (UNION {Segment(Resolve(LaneEdges[e][1], LaneNodes[LaneEdges[e][2]].pos),
                           Resolve(LaneEdges[e][2], LaneNodes[LaneEdges[e][1]].pos)) :
                     e \in 1..Len(LaneEdges)})
           \cup (UNION {Segment(x[1][x[2]], x[1][x[2] + 1]) :
                          x \in {y \in chains \X (1..Cardinality(Zones)) : y[2] < Len(y[1])}})

-----------------------------------------------------------------------------
(* The match *)

CapInit ==
  /\ zones \in {[z \in Zones |-> [DormantZone EXCEPT !.owner = IF ZoneOf[z].main THEN 1 ELSE 0]],
                [z \in Zones |-> None]}
  /\ rolled = None
  /\ zoneEvents = 0

CapOff == zones = << >> /\ rolled = None /\ zoneEvents = 0

ZoneEvent == zoneEvents < MaxZoneEvents /\ zoneEvents' = zoneEvents + 1

(* The layer rolls: the objectives off the lane are despawned. *)
Roll(lane) ==
  /\ rolled = None /\ LiveZones # {}
  /\ rolled' = lane
  /\ zones' = [z \in Zones |-> IF z \in lane \/ ZoneOf[z].main THEN zones[z] ELSE None]
  /\ UNCHANGED zoneEvents

Zone(z, s) == /\ ZoneEvent
              /\ zones' = [zones EXCEPT ![z] = s]
              /\ UNCHANGED rolled

Unlock(z) == /\ z \in LiveZones /\ zones[z].locked /\ ~IsMainZone(z)
             /\ Zone(z, [zones[z] EXCEPT !.locked = FALSE])

(* Either team goes for it, or its owner for what another left half done. *)
Take(z, team) == /\ z \in LiveZones /\ ~zones[z].locked /\ zones[z].taking = 0
                 /\ (zones[z].owner # team \/ zones[z].pct = 50)
                 /\ Zone(z, [zones[z] EXCEPT !.taking = team, !.pct = 50])

Captured(z) == /\ z \in LiveZones /\ zones[z].taking > 0
               /\ Zone(z, [zones[z] EXCEPT !.owner = zones[z].taking, !.taking = 0, !.pct = 100])

(* They leave half way; what they did wears off, or stays for the next. *)
Abandon(z) == /\ z \in LiveZones /\ zones[z].taking > 0
              /\ Zone(z, [zones[z] EXCEPT !.taking = 0])

WearsOff(z) == /\ z \in LiveZones /\ zones[z].taking = 0 /\ zones[z].pct = 50
               /\ Zone(z, [zones[z] EXCEPT !.pct = IF zones[z].owner = 0 THEN 0 ELSE 100])

Relock(z) == /\ z \in LiveZones /\ ~zones[z].locked /\ zones[z].taking = 0
             /\ Zone(z, [zones[z] EXCEPT !.locked = TRUE])

PlaceUnread(z) == /\ z \in ReadZones
                  /\ Zone(z, [zones[z] EXCEPT !.read = FALSE])

CapNext ==
  /\ zones # << >>
  /\ \/ \E lane \in Lanes : Roll(lane)
     \/ \E z \in Zones : \/ Unlock(z) \/ Captured(z) \/ Abandon(z) \/ WearsOff(z)
                         \/ Relock(z) \/ PlaceUnread(z)
                         \/ \E t \in {1, 2} : Take(z, t)

-----------------------------------------------------------------------------
(* Properties *)

(* While every lane is still there nothing but what is in play is shown;   *)
(* once the layer has rolled every flag of the lane is shown, the ones     *)
(* still locked too, also where the lane branches in two (the thresholds   *)
(* of capVisibility.ts).                                                   *)
FogLifts ==
  zones # << >> /\ LiveZones # {} =>
    /\ rolled # None => VisibleCaps = LiveZones
    /\ rolled = None /\ (\A z \in LiveZones : zones[z].locked) =>
         \A z \in VisibleCaps : IsMainZone(z) \/ CapInPlay(z)

(* A flag that is going to change hands shows it: arc and outline have     *)
(* another colour than the plate from the first of the progress on.  An    *)
(* arc alone, in the owner's colour or nobody's, is what the attackers     *)
(* left behind: no such mark has the colour of a team that is not there.   *)
ContestReads ==
  zones # << >> => \A z \in DrawnCaps :
    LET m == CapMark(z)
        contested == zones[z].taking > 0 /\ zones[z].taking # zones[z].owner
    IN  /\ contested => m.arc \notin {None, 0, m.plate}
        /\ ~contested => m.shape = m.plate /\ m.arc \in {None, 0, m.plate}

(* What a set of lines leads to from a place, by n of them. *)
LaneSpread(lines, from, n) ==
  LET reach[k \in 0..n] ==
        IF k = 0 THEN from
        ELSE LET so == reach[k - 1] IN so \cup UNION {l \in lines : l \cap so # {}}
  IN  reach[n]

(* The lane hangs together: from either of its ends the lines lead to the  *)
(* other, and every flag at a depth of it is on them, where the flag is    *)
(* drawn ("thread the line through EVERY flag of a multi-cap node").       *)
LaneThreadsFlags ==
  zones # << >> /\ rolled # None /\ LaneEdges # << >> =>
    LET depths == {LaneNodes[n].depth : n \in DOMAIN LaneNodes}
        flags  == {Anchor(z) : z \in {y \in ReadZones : ZoneOf[y].depth \in depths}}
        ends   == {Resolve(LaneEdges[e][1], LaneNodes[LaneEdges[e][2]].pos) : e \in 1..Len(LaneEdges)}
                  \ {None}
    IN  \A lines \in {LaneLines}, all \in {flags \cup ends} : \E p \in all :
          all \subseteq LaneSpread(lines, {p}, Cardinality(lines))

(* Badges are drawn at the static anchor, the cursor is measured against   *)
(* the place read from memory (draw.ts and hitTest.ts): on a lane the      *)
(* cursor on a badge finds the zone it stands for, or nothing when the     *)
(* view is zoomed in so far that the zone's own place is out of reach, but *)
(* never the flag next to it; and no two badges cover each other.          *)
MarksAreHit ==
  zones # << >> /\ rolled # None => \A z \in DrawnCaps :
    /\ \A hover \in Hovers :
         CapHit(Anchor(z), hover) = IF Far(ZoneOf[z].place, Anchor(z)) <= hover THEN z ELSE None
    /\ \A y \in DrawnCaps : CapMark(y).at = CapMark(z).at => y = z

(* Flags, fog, lanes and cursor agree on which zones there are and who     *)
(* holds them, before the layer has rolled and after (draw.ts,             *)
(* capVisibility.ts and hitTest.ts).                                       *)
ZonesAgree == FogLifts /\ ContestReads /\ LaneThreadsFlags /\ MarksAreHit
=============================================================================
