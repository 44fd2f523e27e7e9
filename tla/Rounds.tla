------------------------------- MODULE Rounds -------------------------------
(***************************************************************************)
(* Mortar and rocket rounds on the map (canvas/projectiles.ts): the canvas *)
(* repaints the same frame many times and keeps, across paints, a track of *)
(* every round and the rings of the ones that burst.  A round that is gone *)
(* from a frame is taken to have burst where it was last seen.             *)
(*                                                                         *)
(* The map is a line.  A round of the frame is [id, at, hit]; a track is   *)
(* [at, heading, seen], its key the round's id; times count paints and the *)
(* stretches during which nothing is painted.                              *)
(***************************************************************************)
EXTENDS ReplayBasics

CONSTANTS
  RoundIds,     \* 1..n, in the order they are fired
  Reach,        \* the last place of the line
  MatchRadius,  \* MATCH_RADIUS_UE
  ImpactMs, StaleMs, \* as in the code, in the model's time
  MaxPaints     \* bound on the time

VARIABLES
  rounds,       \* the rounds of the frame on display; None: not under study
  tracks, impacts, impactSpawned,
  paintedAt,    \* time of the last paint
  fired, bursts, \* ghosts: rounds fired so far; [id -> rings it was given]
  newFrame      \* the frame has not been painted yet

ASSUME RoundsAssumption ==
  /\ IsFiniteSet(RoundIds) /\ RoundIds = 1..Cardinality(RoundIds)
  /\ ImpactMs \in Nat /\ StaleMs \in Nat /\ ImpactMs <= StaleMs
  /\ None \notin RoundIds /\ None \notin {"first", "last"}

roundVars == <<rounds, tracks, impacts, impactSpawned, paintedAt, fired, bursts, newFrame>>

-----------------------------------------------------------------------------
(* One paint *)

Gone(f, S) == [x \in DOMAIN f \ S |-> f[x]]
With(f, x, v) == [y \in DOMAIN f \cup {x} |-> IF y = x THEN v ELSE f[y]]

(* The track a round without one of its own takes over: the nearest of the *)
(* rounds that did not come before it in this frame.                       *)
Taken(tr, k) ==
  LET near == {s \in DOMAIN tr \ {rounds[j].id : j \in 1..k} :
                 Far(tr[s].at, rounds[k].at) < MatchRadius}
  IN  IF rounds[k].id \in DOMAIN tr \/ near = {} THEN None
      ELSE CHOOSE s \in near : \A o \in near :
             \/ Far(tr[s].at, rounds[k].at) < Far(tr[o].at, rounds[k].at)
             \/ Far(tr[s].at, rounds[k].at) = Far(tr[o].at, rounds[k].at) /\ s <= o

(* The heading drawn: of the last move seen, of the track's before when    *)
(* the round has not moved; rounds fly to the right when first seen.       *)
HeadingOf(prev, r) ==
  IF prev = None THEN 1
  ELSE IF r.at # prev.at THEN Sign(r.at - prev.at) ELSE prev.heading

(* Round k of the frame, on what the rounds before it left. *)
Follow(st, k, now) ==
  LET r     == rounds[k]
      taken == Taken(st.tracks, k)
      prev  == IF r.id \in DOMAIN st.tracks THEN st.tracks[r.id]
               ELSE IF taken # None THEN st.tracks[taken] ELSE None
      burst == r.hit /\ r.id \notin DOMAIN st.spawned
  IN  [tracks  |-> With(Gone(st.tracks, {taken}), r.id,
                        [at |-> r.at, heading |-> HeadingOf(prev, r), seen |-> now]),
       rings   |-> IF burst THEN Append(st.rings, [id |-> r.id, at |-> r.at, start |-> now])
                   ELSE st.rings,
       spawned |-> IF burst THEN With(st.spawned, r.id, now) ELSE st.spawned]

Followed(now) ==
  LET after[k \in 0..Len(rounds)] ==
        IF k = 0 THEN [tracks |-> tracks, rings |-> impacts, spawned |-> impactSpawned]
        ELSE Follow(after[k - 1], k, now)
  IN  after[Len(rounds)]

SkyIds == {rounds[k].id : k \in 1..Len(rounds)}

(* A track that is lost has burst where it was last seen. *)
Bursts(st, S, now) ==
  AtPlaces([s \in S |-> [id |-> s, at |-> st.tracks[s].at, start |-> now]], S)

(* As Vanished, but the rounds that were seen to hit burst again. *)
VanishedAll(st, now) ==
  LET lost == DOMAIN st.tracks \ SkyIds
      kept == Gone(st.spawned, lost)
  IN  [tracks  |-> Gone(st.tracks, lost),
       rings   |-> st.rings \o Bursts(st, {s \in lost : now - st.tracks[s].seen <= StaleMs}, now),
       spawned |-> Gone(kept, {s \in DOMAIN kept : now - kept[s] > StaleMs})]

(* The tracks of rounds that are gone burst, unless they were seen to hit  *)
(* or have not been painted for StaleMs; and the memory of old hits goes.  *)
Vanished(st, now) ==
  LET lost == DOMAIN st.tracks \ SkyIds
      bang == {s \in lost : now - st.tracks[s].seen <= StaleMs /\ s \notin DOMAIN st.spawned}
      kept == Gone(st.spawned, lost)
  IN  [tracks  |-> Gone(st.tracks, lost),
       rings   |-> st.rings \o Bursts(st, bang, now),
       spawned |-> Gone(kept, {s \in DOMAIN kept : now - kept[s] > StaleMs})]

(* drawProjectilesAndImpacts, dt after the last paint. *)
DrawProjectilesAndImpacts(dt) ==
  /\ rounds # None /\ paintedAt + dt <= MaxPaints
  /\ paintedAt' = paintedAt + dt
  /\ \E st \in {Vanished(Followed(paintedAt + dt), paintedAt + dt)} :
       /\ tracks' = st.tracks
       /\ impactSpawned' = st.spawned
       /\ impacts' = AtPlaces(st.rings, {i \in 1..Len(st.rings) : (paintedAt + dt) - st.rings[i].start <= ImpactMs})
       /\ bursts' = [r \in RoundIds |->
            bursts[r] + Cardinality({i \in 1..Len(st.rings) :
                                       st.rings[i].id = r /\ i > Len(impacts)})]
  /\ newFrame' = FALSE
  /\ UNCHANGED <<rounds, fired>>

-----------------------------------------------------------------------------
(* The frames, played forwards *)

RoundsInit ==
  /\ rounds = << >> /\ tracks = << >> /\ impacts = << >> /\ impactSpawned = << >>
  /\ paintedAt = 0 /\ fired = 0 /\ bursts = [r \in RoundIds |-> 0] /\ newFrame = TRUE

RoundsOff ==
  /\ rounds = None /\ tracks = << >> /\ impacts = << >> /\ impactSpawned = << >>
  /\ paintedAt = 0 /\ fired = 0 /\ bursts = << >> /\ newFrame = FALSE

(* In the next frame rounds have flown on, stand with the mark of a hit,   *)
(* or are gone; one more may be fired, at either end of the array.         *)
NextSky(S, new) ==
  /\ rounds # None /\ ~newFrame
  /\ \A k \in DOMAIN S :
       rounds[k].hit => S[k].at = rounds[k].at /\ S[k].hit
  /\ LET flown == AtPlaces(S, DOMAIN S)
         shot  == [id |-> fired + 1, at |-> 0, hit |-> FALSE]
     IN  /\ new # None => fired < Cardinality(RoundIds)
         /\ rounds' = CASE new = "first" -> <<shot>> \o flown
                        [] new = "last" -> Append(flown, shot)
                        [] OTHER -> flown
         /\ fired' = IF new = None THEN fired ELSE fired + 1
  /\ newFrame' = TRUE
  /\ UNCHANGED <<tracks, impacts, impactSpawned, paintedAt, bursts>>

(* Where the rounds of the frame can be in the next one. *)
NextPlaces(K) ==
  [K -> [move : {0, 1}, hit : BOOLEAN]]

RoundsNext ==
  \/ \E dt \in {1, StaleMs + 1} : DrawProjectilesAndImpacts(dt)
  \/ rounds # None /\
     \E K \in SUBSET (1..Len(rounds)), new \in {None, "first", "last"} :
       \E m \in NextPlaces(K) :
         /\ \A k \in K : rounds[k].at + m[k].move <= Reach
         /\ NextSky([k \in K |-> [id |-> rounds[k].id, at |-> rounds[k].at + m[k].move,
                                  hit |-> m[k].hit]], new)

-----------------------------------------------------------------------------
(* Properties *)

(* The rings of one round never stack: two rings on the map at once are of *)
(* two rounds (the dedupe of impactSpawned).                               *)
RingsDontStack ==
  \A i, j \in 1..Len(impacts) : impacts[i].id = impacts[j].id => i = j

(* The tracker forgets: after a paint it follows exactly the rounds of the *)
(* frame, and remembers no hit for longer than StaleMs.                    *)
TrackerBounded ==
  (rounds # None /\ ~newFrame) =>
    /\ DOMAIN tracks = {rounds[k].id : k \in 1..Len(rounds)}
    /\ \A s \in DOMAIN impactSpawned : paintedAt - impactSpawned[s] <= StaleMs

(* A round that was followed and is gone gets its ring, once, where it was *)
(* last seen, unless it has one, nothing was painted for long, or a round  *)
(* just fired has taken its track over.                                    *)
LostOnesBurst ==
  [][\A s \in DOMAIN tracks :
       /\ paintedAt' # paintedAt
       /\ s \notin {rounds[k].id : k \in 1..Len(rounds)}
       /\ {rounds[k].id : k \in 1..Len(rounds)} \subseteq DOMAIN tracks
       => bursts'[s] = IF s \in DOMAIN impactSpawned \/ paintedAt' - tracks[s].seen > StaleMs
                       THEN bursts[s] ELSE bursts[s] + 1]_roundVars

(* The tracker and the sky agree over any series of paints: it follows     *)
(* what flies and forgets the rest, and what it loses bursts once          *)
(* (projectiles.ts).                                                       *)
RoundsAgree == [](RingsDontStack /\ TrackerBounded) /\ LostOnesBurst
=============================================================================
