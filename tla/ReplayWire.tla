----------------------------- MODULE ReplayWire -----------------------------
(***************************************************************************)
(* The compact recording format (format 2) and the two-tier recording it   *)
(* carries: the decoder of state/replayUnpack.ts, the reconstruction of    *)
(* state/replayReconstruct.ts and the line loop of api/recordings.ts.  The *)
(* encoder is the server's; it is the one the decoder mirrors.             *)
(*                                                                         *)
(* An object is a function from its keys to values.  A line is one of      *)
(*   [kind |-> "header"]                                                   *)
(*   [kind |-> "raw"]                     a line the encoder could not read *)
(*   [kind |-> "pos", pos |-> ...]        a position frame, wrapped         *)
(*   [kind |-> "diff", gone |-> keys, set |-> object, ents |-> object]      *)
(* where ents maps a tracked array to [u, o, b]: entity updates, the order *)
(* of the array by index, and the entries sent verbatim (index -1).        *)
(***************************************************************************)
EXTENDS ReplayBasics

Keyed == {"players", "vehicles"}      \* the tracked arrays

Empty == << >>

NoFrame == Empty      \* null: what a line without a frame yields

(* As Patch, but what was removed is carried forward. *)
PatchKeeping(gone, set, base) == Overlay(set, base)

Patch(gone, set, base) == Overlay(set, Restrict(base, DOMAIN base \ gone))

-----------------------------------------------------------------------------
(* The encoder.  Entities are tracked by id; one without an id, or whose   *)
(* id the frame has already used, goes verbatim.                           *)

IdIn(k, x) == IF k = "players" THEN x.eos ELSE x.id

NewEncoder == [prev |-> Empty, index |-> [k \in Keyed |-> Empty],
               table |-> [k \in Keyed |-> Empty]]

Tracked(k, arr) ==
  {i \in 1..Len(arr) : /\ IdIn(k, arr[i]) # None
                       /\ \A j \in 1..i - 1 : IdIn(k, arr[j]) # IdIn(k, arr[i])}

(* New ids get the next free indices in the order they appear. *)
NewPlaces(index, k, arr) == {i \in Tracked(k, arr) : IdIn(k, arr[i]) \notin DOMAIN index}

Indexed(index, k, arr) ==
  LET New == NewPlaces(index, k, arr)
      Place(id) == CHOOSE i \in New : IdIn(k, arr[i]) = id
  IN  Overlay([id \in {IdIn(k, arr[i]) : i \in New} |->
                 Cardinality(DOMAIN index) + Cardinality({j \in New : j < Place(id)})],
              index)

Changes(old, new) ==
  [gone |-> DOMAIN old \ DOMAIN new,
   set |-> Restrict(new, {f \in DOMAIN new : f \notin DOMAIN old \/ old[f] # new[f]})]

EncodeArray(index, table, k, arr) ==
  LET T == Tracked(k, arr)
      Rest == (1..Len(arr)) \ T
      idx == Indexed(index, k, arr)
      At(i) == idx[IdIn(k, arr[i])]
      Old(i) == IF At(i) \in DOMAIN table THEN table[At(i)] ELSE Empty
  IN  [index |-> idx,
       table |-> Overlay([n \in {At(i) : i \in T} |->
                            arr[CHOOSE i \in T : At(i) = n]], table),
       enc |-> [u |-> {<<At(i), Changes(Old(i), arr[i])>> :
                         i \in {j \in T : arr[j] # Old(j)}},
                o |-> [i \in 1..Len(arr) |-> IF i \in T THEN At(i) ELSE -1],
                b |-> AtPlaces(arr, Rest)]]

(* One full frame: only what differs from the last full frame is sent.     *)
EncodeFull(e, f) ==
  LET Diff == {k \in DOMAIN f : k \notin DOMAIN e.prev \/ e.prev[k] # f[k]}
      A == [k \in Diff \cap Keyed |->
              EncodeArray(e.index[k], e.table[k], k, f[k])]
  IN  [e |-> [prev |-> f,
              index |-> Overlay([k \in DOMAIN A |-> A[k].index], e.index),
              table |-> Overlay([k \in DOMAIN A |-> A[k].table], e.table)],
       line |-> [kind |-> "diff", gone |-> DOMAIN e.prev \ DOMAIN f,
                 set |-> Restrict(f, Diff \ Keyed),
                 ents |-> [k \in DOMAIN A |-> A[k].enc]]]

-----------------------------------------------------------------------------
(* The decoder. *)

NewUnpacker == [prev |-> Empty, ents |-> [k \in Keyed |-> Empty]]

(* Entity updates: an unknown index takes the payload as it is, a known    *)
(* one is patched.                                                         *)
UpdateTable(table, u) ==
  Overlay([i \in {x[1] : x \in u} |->
             LET c == (CHOOSE x \in u : x[1] = i)[2]
             IN  IF i \in DOMAIN table THEN Patch(c.gone, c.set, table[i]) ELSE c.set],
          table)

(* The array in the order sent: -1 takes the next verbatim entry, if any   *)
(* is left, and an index the table does not know is skipped.               *)
Arrange(table, o, b) ==
  LET Nth(i) == Cardinality({j \in 1..i : o[j] = -1})
      Kept == {i \in 1..Len(o) : IF o[i] = -1 THEN Nth(i) <= Len(b)
                                 ELSE o[i] \in DOMAIN table}
      Value(i) == IF o[i] = -1 THEN b[Nth(i)] ELSE table[o[i]]
  IN  [n \in 1..Cardinality(Kept) |-> Value(NthOf(Kept, n))]

(* A diff line completes a frame from the last full one. *)
UnpackDiff(d, line) ==
  LET ents == Overlay([k \in DOMAIN line.ents |->
                         UpdateTable(d.ents[k], line.ents[k].u)], d.ents)
      arrays == [k \in DOMAIN line.ents |->
                   Arrange(ents[k], line.ents[k].o, line.ents[k].b)]
      frame == Overlay(arrays, Patch(line.gone, line.set, d.prev))
  IN  [d |-> [prev |-> frame, ents |-> ents], frame |-> frame]

(* A position line passes through and is no base for later diffs; the      *)
(* header and a raw line complete nothing.                                 *)
Unpack(d, line) ==
  CASE line.kind = "diff" -> UnpackDiff(d, line)
    [] line.kind = "pos"  -> [d |-> d, frame |-> line.pos]
    [] OTHER              -> [d |-> d, frame |-> NoFrame]

-----------------------------------------------------------------------------
(* Two tiers: a position frame is [t |-> "pos", tick, players, vehicles],  *)
(* the last two mapping an identity to what was sampled: [at, health] of a *)
(* player, [health, team] of a vehicle, None what the line leaves out.     *)

IsPositionFrame(f) == "t" \in DOMAIN f /\ f.t = "pos"

KeyOf(p) == OrElse(p.eos, p.name)

(* The positions spliced onto the last full frame: who was not sampled, or *)
(* has no soldier, stays where the full frame had him; kills were already  *)
(* delivered with it.                                                      *)
ReconstructFromPosition(base, pos) ==
  LET Player(p) == IF KeyOf(p) \notin DOMAIN pos.players \/ p.pos = None THEN p
                   ELSE [p EXCEPT !.pos = pos.players[KeyOf(p)].at,
                                  !.health = OrElse(pos.players[KeyOf(p)].health, @)]
      Vehicle(v) == IF v.id \notin DOMAIN pos.vehicles THEN v
                    ELSE [v EXCEPT !.health = OrElse(pos.vehicles[v.id].health, @),
                                   !.team = OrElse(pos.vehicles[v.id].team, @)]
  IN  [base EXCEPT !.tick = pos.tick,
                   !.players = [i \in DOMAIN @ |-> Player(@[i])],
                   !.vehicles = [i \in DOMAIN @ |-> Vehicle(@[i])],
                   !.events = << >>]

(* A position frame before the first full frame has nothing to carry. *)
Reconstruct(lastFull, f) ==
  IF ~IsPositionFrame(f) THEN [lastFull |-> f, snap |-> f]
  ELSE [lastFull |-> lastFull,
        snap |-> IF lastFull = NoFrame THEN NoFrame
                 ELSE ReconstructFromPosition(lastFull, f)]

(* One line of the stream, through both layers.  The header and a raw line *)
(* yield nothing, wherever they come.                                      *)
PushLine(r, line) ==
  LET u == Unpack(r.unpacker, line)
      f == Reconstruct(r.lastFull, u.frame)
  IN  IF line.kind \in {"header", "raw"} THEN r
      ELSE [unpacker |-> u.d, lastFull |-> f.lastFull, snap |-> f.snap]

NewReader == [unpacker |-> NewUnpacker, lastFull |-> NoFrame, snap |-> NoFrame]
=============================================================================
