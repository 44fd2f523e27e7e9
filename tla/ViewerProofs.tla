---------------------------- MODULE ViewerProofs ----------------------------
(***************************************************************************)
(* For every list of recordings, whatever they hold, any number of loads   *)
(* in flight and any clicks: the page shows the recording picked last,     *)
(* feed and panels are of the frame the playhead is on, and the playhead   *)
(* keeps time.                                                             *)
(***************************************************************************)
EXTENDS Viewer, DataLemmas, TLAPS

LoadRec == [id : Ids \cup {None}, cancelled : BOOLEAN,
            meta : {"wait", "done"}, frames : {"wait", "done"}]

(***************************************************************************)
(* A response checks only whether its own load was cancelled.  That this   *)
(* is enough is the last conjunct: a load that was not is one of the       *)
(* recording now picked, since whatever changes the pick cancels the rest. *)
(***************************************************************************)
PickInv ==
  /\ {"id", "of"} \subseteq DOMAIN replay
  /\ {"total"} \subseteq DOMAIN progress
  /\ replay.id \in Ids \cup {None}
  /\ loads \in Seq(LoadRec)
  /\ ShowsPicked
  /\ \A l \in DOMAIN loads : loads[l].cancelled \/ loads[l].id = replay.id

\* A load that starts is the only one not cancelled.
LEMMA StartedAlone ==
  ASSUME loads \in Seq(LoadRec), NEW i \in Ids \cup {None}, StartLoad(i)
  PROVE  /\ loads' \in Seq(LoadRec)
         /\ \A l \in DOMAIN loads' : loads'[l].cancelled \/ loads'[l].id = i
         /\ {"total"} \subseteq DOMAIN progress' /\ progress'.total = None
<1> DEFINE old == [l \in 1..Len(loads) |-> [loads[l] EXCEPT !.cancelled = TRUE]]
           new == [id |-> i, cancelled |-> FALSE, meta |-> "wait", frames |-> "wait"]
<1>1. old \in Seq(LoadRec) /\ Len(old) = Len(loads) /\ new \in LoadRec
  <2>1. \A r \in LoadRec : [r EXCEPT !.cancelled = TRUE] \in LoadRec
    BY DEF LoadRec
  <2>2. Len(loads) \in Nat /\ \A l \in 1..Len(loads) : loads[l] \in LoadRec
    OBVIOUS
  <2>3. \A l \in 1..Len(loads) : old[l] \in LoadRec
    BY <2>1, <2>2
  <2>4. old \in Seq(LoadRec) /\ Len(old) = Len(loads)
    BY <2>2, <2>3
  <2>5. new \in LoadRec
    BY DEF LoadRec
  <2> QED
    BY <2>4, <2>5
<1>2. \A l \in 1..Len(old) : old[l].cancelled
  BY DEF LoadRec
<1>3. loads' = Append(old, new)
  BY DEF StartLoad
<1> HIDE DEF old
<1>4. /\ loads' \in Seq(LoadRec) /\ DOMAIN loads' = 1..Len(old) + 1
      /\ \A l \in 1..Len(old) : loads'[l] = old[l]
      /\ loads'[Len(old) + 1] = new
  BY <1>1, <1>3
<1>5. {"total"} \subseteq DOMAIN progress' /\ progress'.total = None
  BY DEF StartLoad, Idle
<1>6. Len(old) \in Nat
  BY <1>1
<1> QED
  BY <1>2, <1>4, <1>5, <1>6

\* A response to a load leaves what is loaded and for whom.
LEMMA AnsweredStays ==
  ASSUME loads \in Seq(LoadRec), NEW l \in DOMAIN loads,
         \/ loads' = [loads EXCEPT ![l].meta = "done"]
         \/ loads' = [loads EXCEPT ![l].frames = "done"]
  PROVE  /\ loads' \in Seq(LoadRec) /\ DOMAIN loads' = DOMAIN loads
         /\ \A k \in DOMAIN loads : /\ loads'[k].cancelled = loads[k].cancelled
                                    /\ loads'[k].id = loads[k].id
<1>1. PICK r \in LoadRec : /\ loads' = [loads EXCEPT ![l] = r]
                           /\ r.cancelled = loads[l].cancelled /\ r.id = loads[l].id
  <2> DEFINE m == [loads[l] EXCEPT !.meta = "done"]
             f == [loads[l] EXCEPT !.frames = "done"]
  <2>1. loads[l] \in LoadRec
    OBVIOUS
  <2>2. m \in LoadRec /\ m.cancelled = loads[l].cancelled /\ m.id = loads[l].id
    BY <2>1 DEF LoadRec
  <2>3. f \in LoadRec /\ f.cancelled = loads[l].cancelled /\ f.id = loads[l].id
    BY <2>1 DEF LoadRec
  <2>4. loads' = [loads EXCEPT ![l] = m] \/ loads' = [loads EXCEPT ![l] = f]
    OBVIOUS
  <2> QED
    BY <2>2, <2>3, <2>4
<1> QED
  BY <1>1

LEMMA InitPick == Init => PickInv
BY DEF Init, PickInv, ShowsPicked, Idle

LEMMA PickStep ==
  ASSUME PickInv, NEW i \in Ids, Pick(i)
  PROVE  PickInv'
<1>1. /\ replay' = [replay EXCEPT !.id = i, !.of = None, !.idx = 1,
                                  !.playing = FALSE, !.speed = 1, !.base = NoBase]
      /\ timeline' = None
  BY DEF Pick
<1>2. {"id", "of"} \subseteq DOMAIN replay' /\ replay'.id = i /\ replay'.of = None
  BY <1>1 DEF PickInv
<1>3. CASE mode = "replay" /\ replay.id = i
  <2>1. UNCHANGED <<loads, progress>>
    BY <1>3 DEF Pick
  <2> QED
    BY <1>1, <1>2, <1>3, <2>1 DEF PickInv, ShowsPicked
<1>4. CASE ~(mode = "replay" /\ replay.id = i)
  <2>1. StartLoad(i)
    BY <1>4 DEF Pick
  <2>2. loads \in Seq(LoadRec)
    BY DEF PickInv
  <2> QED
    BY <1>1, <1>2, <2>1, <2>2, StartedAlone DEF PickInv, ShowsPicked
<1> QED
  BY <1>3, <1>4

LEMMA RetryStep ==
  ASSUME PickInv, Retry
  PROVE  PickInv'
<1>1. /\ replay' = [replay EXCEPT !.of = None, !.idx = 1, !.playing = FALSE, !.nonce = @ + 1]
      /\ StartLoad(replay.id) /\ UNCHANGED timeline
  BY DEF Retry, Feed
<1>2. {"id", "of"} \subseteq DOMAIN replay' /\ replay'.id = replay.id /\ replay'.of = None
  BY <1>1 DEF PickInv
<1>3. loads \in Seq(LoadRec) /\ replay.id \in Ids \cup {None}
  BY DEF PickInv
<1> QED
  BY <1>1, <1>2, <1>3, StartedAlone DEF PickInv, ShowsPicked

LEMMA PlaybackStep ==
  ASSUME PickInv,
         \/ TogglePlay
         \/ \E d \in Deltas : SeekDelta(d)
         \/ Scrub
         \/ \E s \in Speeds : SetSpeed(s)
         \/ FramePlaying
  PROVE  PickInv'
<1>1. UNCHANGED <<loads, progress, timeline>>
  BY DEF TogglePlay, SeekDelta, Scrub, SeekTo, SetSpeed, FramePlaying, Feed, view
<1>2. /\ DOMAIN replay' = DOMAIN replay
      /\ replay'.id = replay.id /\ replay'.of = replay.of
  <2>1. CASE TogglePlay
    BY <2>1 DEF TogglePlay, PickInv
  <2>2. CASE \E d \in Deltas : SeekDelta(d)
    BY <2>2 DEF SeekDelta, SeekTo, PickInv
  <2>3. CASE Scrub
    BY <2>3 DEF Scrub, SeekTo, PickInv
  <2>4. CASE \E s \in Speeds : SetSpeed(s)
    BY <2>4 DEF SetSpeed, PickInv
  <2>5. CASE FramePlaying
    BY <2>5 DEF FramePlaying, PickInv
  <2> QED
    BY <2>1, <2>2, <2>3, <2>4, <2>5
<1> QED
  BY <1>1, <1>2 DEF PickInv, ShowsPicked

LEMMA ResponseStep ==
  ASSUME PickInv, Response
  PROVE  PickInv'
<1>1. PICK l \in DOMAIN loads :
        MetaArrives(l) \/ MetaFails(l) \/ Chunk(l) \/ FramesArrive(l) \/ FramesFail(l)
  BY DEF Response
<1>2. loads \in Seq(LoadRec)
  BY DEF PickInv
<1>3. loads[l].cancelled \/ loads[l].id = replay.id
  BY <1>1 DEF PickInv
<1>4. /\ DOMAIN replay' = DOMAIN replay /\ replay'.id = replay.id
      /\ replay'.of = replay.of \/ replay'.of = replay.id
      /\ timeline' = timeline \/ timeline' = replay.id
  <2>1. CASE MetaArrives(l) \/ MetaFails(l) \/ Chunk(l) \/ FramesFail(l)
    BY <2>1 DEF MetaArrives, MetaFails, Chunk, FramesFail, view
  <2>2. CASE FramesArrive(l)
    BY <1>3, <2>2 DEF FramesArrive, PickInv, view
  <2> QED
    BY <1>1, <2>1, <2>2
<1>5. /\ DOMAIN progress' = DOMAIN progress
      /\ progress'.total = progress.total \/ progress'.total = replay.id
  <2>1. CASE MetaArrives(l)
    BY <1>3, <2>1 DEF MetaArrives, PickInv
  <2>2. CASE MetaFails(l) \/ Chunk(l) \/ FramesFail(l)
    BY <2>2 DEF MetaFails, Chunk, FramesFail, PickInv
  <2>3. CASE FramesArrive(l)
    BY <2>3 DEF FramesArrive, PickInv
  <2> QED
    BY <1>1, <2>1, <2>2, <2>3
<1>6. /\ loads' \in Seq(LoadRec)
      /\ \A k \in DOMAIN loads' : loads'[k].cancelled \/ loads'[k].id = replay.id
  <2>1. CASE UNCHANGED loads
    BY <2>1 DEF PickInv
  <2>2. CASE \/ loads' = [loads EXCEPT ![l].meta = "done"]
             \/ loads' = [loads EXCEPT ![l].frames = "done"]
    BY <1>1, <1>2, <2>2, AnsweredStays DEF PickInv
  <2> QED
    BY <1>1, <2>1, <2>2 DEF MetaArrives, MetaFails, Chunk, FramesArrive, FramesFail
<1> QED
  BY <1>4, <1>5, <1>6 DEF PickInv, ShowsPicked

LEMMA NextPick == PickInv /\ [Next]_vars => PickInv'
<1> SUFFICES ASSUME PickInv, [Next]_vars PROVE PickInv'
  OBVIOUS
<1>1. CASE User
  BY <1>1, PickStep, RetryStep, PlaybackStep DEF User
<1>2. CASE Response
  BY <1>2, ResponseStep
<1>3. CASE FramePlaying
  BY <1>3, PlaybackStep
<1>4. CASE FrameIdle \/ FramePaused \/ Poll
  BY <1>4 DEF FrameIdle, FramePaused, Poll, view, PickInv, ShowsPicked
<1>5. CASE UNCHANGED vars
  BY <1>5 DEF vars, view, PickInv, ShowsPicked
<1> QED
  BY <1>1, <1>2, <1>3, <1>4, <1>5 DEF Next, AnimationFrame

\* However fast the user changes his mind, and in whatever order the answers
\* of the loads he started come or fail: frames, kill timeline and sizes on
\* the page are those of the recording he picked last, or not there yet.
THEOREM PickedIsShown == Spec => []ShowsPicked
<1>1. PickInv => ShowsPicked
  BY DEF PickInv
<1> QED
  BY <1>1, InitPick, NextPick, PTL DEF Spec

-----------------------------------------------------------------------------
(* The frames of a recording *)

LEMMA StreamsAre == \A i \in Ids : Streams[i] \in Seq(RawFrame)
BY ViewerAssumption

Before(s, j, k) == s[j].t < s[k].t \/ (s[j].t = s[k].t /\ j < k)

LEMMA UsableFinite ==
  ASSUME NEW s \in Seq(RawFrame)
  PROVE  /\ IsFiniteSet(Usable(s)) /\ Cardinality(Usable(s)) \in Nat
         /\ \A k \in Usable(s) : k \in 1..Len(s) /\ s[k].t \in Int /\ s[k] \in RawFrame
         /\ \A k \in Usable(s) : /\ UpTo(s, k) \in SUBSET Usable(s)
                                /\ IsFiniteSet(UpTo(s, k))
                                /\ Cardinality(UpTo(s, k)) \in 1..Cardinality(Usable(s))
<1>1. Usable(s) \in SUBSET (1..Len(s)) /\ Len(s) \in Nat
  BY DEF Usable
<1>2. IsFiniteSet(Usable(s)) /\ Cardinality(Usable(s)) \in Nat
  <2>1. IsFiniteSet(1..Len(s))
    BY <1>1, FS_Interval
  <2>2. IsFiniteSet(Usable(s))
    BY <1>1, <2>1, FS_Subset
  <2> QED
    BY <2>2, FS_CardinalityType
<1>3. ASSUME NEW k \in Usable(s)
      PROVE  k \in 1..Len(s) /\ s[k].t \in Int /\ s[k] \in RawFrame
  <2>1. k \in 1..Len(s) /\ s[k] \in RawFrame
    BY <1>1
  <2>2. s[k].t \in Int \cup {NoTime} /\ s[k].t # NoTime
    BY <2>1 DEF Usable, RawFrame
  <2> QED
    BY <2>1, <2>2
<1>4. ASSUME NEW k \in Usable(s)
      PROVE  /\ UpTo(s, k) \in SUBSET Usable(s) /\ IsFiniteSet(UpTo(s, k))
             /\ Cardinality(UpTo(s, k)) \in 1..Cardinality(Usable(s))
  <2>1. UpTo(s, k) \in SUBSET Usable(s) /\ k \in UpTo(s, k)
    BY <1>3 DEF UpTo
  <2>2. IsFiniteSet(UpTo(s, k)) /\ Cardinality(UpTo(s, k)) <= Cardinality(Usable(s))
    BY <1>2, <2>1, FS_Subset
  <2>3. Cardinality(UpTo(s, k)) \in Nat /\ Cardinality(UpTo(s, k)) # 0
    BY <2>1, <2>2, FS_CardinalityType, FS_EmptySet
  <2> QED
    BY <1>2, <2>1, <2>2, <2>3
<1> QED
  BY <1>2, <1>3, <1>4

\* A frame before another has fewer frames up to it.
LEMMA BeforeRank ==
  ASSUME NEW s \in Seq(RawFrame), NEW j \in Usable(s), NEW k \in Usable(s), Before(s, j, k)
  PROVE  Cardinality(UpTo(s, j)) < Cardinality(UpTo(s, k))
<1>1. /\ IsFiniteSet(UpTo(s, k)) /\ IsFiniteSet(UpTo(s, j))
      /\ \A i \in Usable(s) : i \in 1..Len(s) /\ s[i].t \in Int
  BY UsableFinite
<1>2. UpTo(s, j) \in SUBSET UpTo(s, k)
  <2> SUFFICES ASSUME NEW i \in UpTo(s, j) PROVE i \in UpTo(s, k)
    OBVIOUS
  <2>1. /\ i \in Usable(s)
        /\ s[i].t < s[j].t \/ (s[i].t = s[j].t /\ i <= j)
    BY DEF UpTo
  <2>2. /\ i \in Int /\ j \in Int /\ k \in Int
        /\ s[i].t \in Int /\ s[j].t \in Int /\ s[k].t \in Int
    BY <1>1, <2>1
  <2>3. s[i].t < s[k].t \/ (s[i].t = s[k].t /\ i <= k)
    BY <2>1, <2>2 DEF Before
  <2> QED
    BY <2>1, <2>3 DEF UpTo
<1>3. k \in UpTo(s, k) /\ k \notin UpTo(s, j)
  BY <1>1 DEF UpTo, Before
<1>4. Cardinality(UpTo(s, j)) \in Nat /\ Cardinality(UpTo(s, k)) \in Nat
  BY <1>1, FS_CardinalityType
<1>5. /\ Cardinality(UpTo(s, j)) <= Cardinality(UpTo(s, k))
      /\ Cardinality(UpTo(s, k)) = Cardinality(UpTo(s, j)) => UpTo(s, k) = UpTo(s, j)
  BY <1>1, <1>2, FS_Subset
<1> QED
  BY <1>3, <1>4, <1>5

LEMMA NthIs ==
  ASSUME NEW s \in Seq(RawFrame), NEW n \in 1..Cardinality(Usable(s))
  PROVE  Nth(s, n) \in Usable(s) /\ Cardinality(UpTo(s, Nth(s, n))) = n
<1> DEFINE N == Cardinality(Usable(s))
           rank == [k \in Usable(s) |-> Cardinality(UpTo(s, k))]
<1>1. N \in Nat /\ IsFiniteSet(1..N) /\ Cardinality(1..N) = N
  BY UsableFinite, FS_Interval
<1>2. rank \in [Usable(s) -> 1..N]
  BY UsableFinite
<1>3. ASSUME NEW j \in Usable(s), NEW k \in Usable(s), j # k PROVE rank[j] # rank[k]
  <2>1. j \in Int /\ k \in Int /\ s[j].t \in Int /\ s[k].t \in Int
    BY UsableFinite
  <2>2. Before(s, j, k) \/ Before(s, k, j)
    BY <1>3, <2>1 DEF Before
  <2>3. rank[j] \in Int /\ rank[k] \in Int
    BY <1>1, <1>2
  <2> QED
    BY <2>2, <2>3, BeforeRank
<1>4. rank \in Injection(Usable(s), 1..N)
  BY <1>2, <1>3 DEF Injection, IsInjective
<1>5. rank \in Surjection(Usable(s), 1..N)
  BY <1>1, <1>4, FS_Injection
<1>6. \E k \in Usable(s) : Cardinality(UpTo(s, k)) = n
  BY <1>5 DEF Surjection
<1> QED
  BY <1>6 DEF Nth

AllTimeless(fs) == \A k \in 1..Len(fs) : fs[k].t = NoTime
Ascending(fs) == /\ \A k \in 1..Len(fs) : fs[k].t # NoTime
                 /\ \A j, k \in 1..Len(fs) : j <= k => fs[j].t <= fs[k].t

\* What the loader makes of a stream: frames, all without a time or all
\* with one and in time order.
LEMMA InOrderSorts ==
  ASSUME NEW s \in Seq(RawFrame)
  PROVE  InOrder(s) \in Seq(RawFrame) /\ (AllTimeless(InOrder(s)) \/ Ascending(InOrder(s)))
<1>1. CASE Usable(s) = {}
  BY <1>1 DEF InOrder, Usable, AllTimeless
<1>2. CASE Usable(s) # {}
  <2> DEFINE N == Cardinality(Usable(s))
             o == InOrder(s)
  <2>1. N \in Nat /\ o = [n \in 1..N |-> s[Nth(s, n)]]
    BY <1>2, UsableFinite DEF InOrder
  <2>2. ASSUME NEW n \in 1..N
        PROVE  /\ Nth(s, n) \in Usable(s) /\ Cardinality(UpTo(s, Nth(s, n))) = n
               /\ o[n] = s[Nth(s, n)] /\ o[n] \in RawFrame /\ o[n].t \in Int /\ o[n].t # NoTime
    <3>1. Nth(s, n) \in Usable(s) /\ Cardinality(UpTo(s, Nth(s, n))) = n
      BY NthIs
    <3> QED
      BY <2>1, <3>1, UsableFinite DEF Usable
  <2> HIDE DEF o, N
  <2>3. o \in Seq(RawFrame) /\ Len(o) = N
    BY <2>1, <2>2
  <2>4. ASSUME NEW j \in 1..N, NEW k \in 1..N, j <= k PROVE o[j].t <= o[k].t
    <3> SUFFICES ASSUME o[k].t < o[j].t PROVE FALSE
      BY <2>2
    <3>1. Before(s, Nth(s, k), Nth(s, j))
      BY <2>2 DEF Before
    <3>2. k < j
      BY <2>2, <3>1, BeforeRank
    <3> QED
      BY <2>1, <2>4, <3>2
  <2>5. Ascending(o)
    BY <2>2, <2>3, <2>4 DEF Ascending
  <2> QED
    BY <2>3, <2>5 DEF o
<1> QED
  BY <1>1, <1>2

LEMMA PlayableIs ==
  \A i \in Ids : /\ Playable[i] \in Seq(RawFrame)
                 /\ AllTimeless(Playable[i]) \/ Ascending(Playable[i])
BY StreamsAre, InOrderSorts DEF Playable
\* The timeline bar seeks to a frame of the recording.
LEMMA SeekInRange ==
  ASSUME NEW fs \in Seq(RawFrame), fs # <<>>, NEW target \in Int
  PROVE  SeekIndex(fs, target) \in 1..Len(fs)
<1> DEFINE S == {k \in 1..Len(fs) : Ms(fs[k]) >= target} \cup {Len(fs)}
<1>1. Len(fs) \in Nat \ {0}
  OBVIOUS
<1>2. S \in SUBSET (1..Len(fs)) /\ S # {}
  BY <1>1
<1>3. S \in SUBSET Int /\ \A x \in S : 1 <= x
  BY <1>1, <1>2
<1> HIDE DEF S
<1>4. Min(S) \in S
  BY <1>2, <1>3, MinIs
<1> QED
  BY <1>2, <1>4 DEF SeekIndex, S

LEMMA MsIsInt ==
  ASSUME NEW f \in RawFrame
  PROVE  Ms(f) \in Int
BY DEF Ms, RawFrame

\* The engine advances to the last of the frames that are due in a row.
LEMMA AdvanceIs ==
  ASSUME NEW fs \in Seq(RawFrame), NEW from \in 1..Len(fs), NEW target \in Int
  PROVE  LET idx == Advance(fs, from, target) IN
         /\ idx \in from..Len(fs)
         /\ idx # from => Ms(fs[idx]) <= target
         /\ idx < Len(fs) => target < Ms(fs[idx + 1])
<1> DEFINE Due(k) == \A j \in from + 1..k : Ms(fs[j]) <= target
           S == {k \in from..Len(fs) : Due(k)}
           idx == Max(S)
<1>1. Len(fs) \in Nat /\ \A k \in 1..Len(fs) : Ms(fs[k]) \in Int
  BY MsIsInt
<1>2. from \in S
  BY <1>1
<1>3. S \in SUBSET Int /\ S # {} /\ \A x \in S : x <= Len(fs)
  BY <1>1, <1>2
<1>4. idx \in S /\ \A y \in S : idx >= y
  <2>1. Len(fs) \in Int
    BY <1>1
  <2> HIDE DEF S
  <2> QED
    BY <1>3, <2>1, MaxIs
<1>5. idx = Advance(fs, from, target)
  BY DEF Advance
<1> HIDE DEF idx
<1>6. idx \in from..Len(fs) /\ Due(idx)
  BY <1>4
<1>7. idx # from => Ms(fs[idx]) <= target
  BY <1>1, <1>6
<1>8. ASSUME idx < Len(fs) PROVE target < Ms(fs[idx + 1])
  <2> SUFFICES ASSUME ~(target < Ms(fs[idx + 1])) PROVE FALSE
    OBVIOUS
  <2>1. idx + 1 \in from..Len(fs) /\ Ms(fs[idx + 1]) <= target
    BY <1>1, <1>6, <1>8
  <2>2. Due(idx + 1)
    BY <1>1, <1>6, <2>1
  <2>3. idx + 1 \in S
    BY <2>1, <2>2
  <2> QED
    BY <1>4, <1>6, <2>3
<1> QED
  BY <1>5, <1>6, <1>7, <1>8

\* The kill timeline is a sequence, so the feed hook's count is a number.
LEMMA CountIsNat ==
  ASSUME NEW i \in Ids \cup {None}, NEW idx
  PROVE  ShownCount(KillTimeline[i], idx) \in Nat
<1>1. Len(KillTimeline[i]) \in Nat
  <2>1. CASE i = None
    BY <2>1 DEF KillTimeline
  <2>2. CASE i # None
    <3> DEFINE S == [rec : Ids, frameIdx : Nat]
               kills(k) == [n \in 1..Playable[i][k].kills |-> [rec |-> i, frameIdx |-> k]]
               ss == [k \in DOMAIN Playable[i] |-> kills(k)]
    <3>1. i \in Ids /\ Playable[i] \in Seq(RawFrame)
      BY <2>2, PlayableIs
    <3>2. ASSUME NEW k \in 1..Len(Playable[i]) PROVE kills(k) \in Seq(S)
      <4>1. Playable[i][k] \in RawFrame /\ k \in Nat
        BY <3>1
      <4> DEFINE m == Playable[i][k].kills
                 e == [rec |-> i, frameIdx |-> k]
      <4>2. m \in Nat
        BY <4>1 DEF RawFrame
      <4>3. e \in S
        BY <3>1, <4>1
      <4>4. kills(k) = [n \in 1..m |-> e]
        OBVIOUS
      <4> HIDE DEF m, e, S
      <4>5. [n \in 1..m |-> e] \in Seq(S)
        BY <4>2, <4>3
      <4> QED
        BY <4>4, <4>5
    <3>3. ss \in Seq(Seq(S))
      <4> HIDE DEF S, kills
      <4> QED
        BY <3>1, <3>2
    <3>4. KillTimeline[i] = FlattenSeq(ss)
      BY <2>2 DEF KillTimeline
    <3> HIDE DEF S, ss
    <3>5. KillTimeline[i] \in Seq(S)
      BY <3>3, <3>4, FlattenType
    <3> QED
      BY <3>5
  <2> QED
    BY <2>1, <2>2
<1> DEFINE C == {n \in 1..Len(KillTimeline[i]) : KillTimeline[i][n].frameIdx <= idx}
<1>2. IsFiniteSet(1..Len(KillTimeline[i])) /\ C \in SUBSET (1..Len(KillTimeline[i]))
  BY <1>1, FS_Interval
<1>3. Cardinality(C) \in Nat
  BY <1>2, FS_Subset, FS_CardinalityType
<1> QED
  BY <1>3 DEF ShownCount
-----------------------------------------------------------------------------
(***************************************************************************)
(* What the callbacks leave behind for one another.  The feed hook         *)
(* compares the number of rows with the number it remembers: equal numbers *)
(* mean the same rows only because the remembered one is of the timeline   *)
(* and the playhead on the page, which is what FeedInv adds.               *)
(***************************************************************************)
ReplayRec == [id : Ids \cup {None}, of : Ids \cup {None}, idx : Nat,
              playing : BOOLEAN, speed : Speeds,
              base : [snap : Int, elapsed : Nat], nonce : Nat]
ProgressRec == [active : BOOLEAN, loaded : Ids \cup {None},
                total : Ids \cup {None}, error : BOOLEAN]

OnFrame(r) == IF r.of = None THEN r.idx = 1 ELSE r.idx \in 1..Len(Playable[r.of])

PageType ==
  /\ mode \in {"home", "replay"}
  /\ status \in {"connecting", "replay", "idle"}
  /\ shown \in {"connecting", "replayload", "replayerror", "live"}
  /\ replay \in ReplayRec /\ OnFrame(replay)
  /\ progress \in ProgressRec
  /\ clock \in [ms : Int, valid : BOOLEAN]

Count(tl, idx) == ShownCount(KillTimeline[tl], idx)

FeedInv ==
  mode = "replay" =>
    /\ feed = FeedAt(KillTimeline[timeline], Count(timeline, replay.idx))
    /\ lastCount \in {-1, Count(timeline, replay.idx)}

(***************************************************************************)
(* The engine's own memory, its mirror of the index and its clock, agrees  *)
(* with the panels unless a load has put a first frame there since.  And   *)
(* the anchors, which outlive many frames, are of the frame on the panels  *)
(* and never behind the clock.                                             *)
(***************************************************************************)
Steady(fs, k, ms) == ms <= Ms(fs[k]) \/ k = Len(fs) \/ ms < Ms(fs[k + 1])

Followed ==
  /\ cur = [rec |-> replay.of, k |-> lastIdx]
  /\ lastIdx \in 1..LastIdx(replay)
  /\ Steady(Frames(replay), lastIdx, clock.ms)

Anchored ==
  replay.base.snap # 0 =>
    LET target == replay.base.snap + replay.base.elapsed * replay.speed
    IN /\ Followed /\ lastIdx = replay.idx
       /\ Ms(Frames(replay)[replay.idx]) <= target /\ clock.ms <= target

EngineInv == replay.of # None => (JustLoaded \/ Followed) /\ Anchored

\* A load, and the card of a failed one, there is only after a pick.
SomethingPicked ==
  /\ \A l \in DOMAIN loads : loads[l].id \in Ids
  /\ replay.id = None => loads = <<>> /\ ~progress.error /\ shown # "replayerror"

PageInv == PickInv /\ SomethingPicked /\ PageType /\ FeedInv /\ EngineInv
LEMMA SpeedsAre == Speeds \subseteq Nat \ {0} /\ 1 \in Speeds
BY ViewerAssumption

LEMMA NoneIsNoId == None \notin Ids
BY ViewerAssumption

\* The frames loaded, and where the playhead is among them.
LEMMA LoadedFrames ==
  ASSUME PageType, replay.of # None
  PROVE  /\ replay.of \in Ids /\ Frames(replay) = Playable[replay.of]
         /\ Frames(replay) \in Seq(RawFrame) /\ Len(Frames(replay)) \in Nat \ {0}
         /\ Frames(replay) # <<>>
         /\ replay.idx \in 1..Len(Frames(replay))
         /\ \A k \in 1..Len(Frames(replay)) :
              Frames(replay)[k] \in RawFrame /\ Ms(Frames(replay)[k]) \in Int
<1>1. replay.of \in Ids /\ Frames(replay) = Playable[replay.of]
  BY DEF PageType, ReplayRec, Frames
<1>2. Frames(replay) \in Seq(RawFrame)
  BY <1>1, PlayableIs
<1>3. replay.idx \in 1..Len(Frames(replay))
  BY <1>1 DEF PageType, OnFrame
<1>4. Len(Frames(replay)) \in Nat \ {0} /\ Frames(replay) # <<>>
  BY <1>2, <1>3
<1>5. \A k \in 1..Len(Frames(replay)) : Frames(replay)[k] \in RawFrame
  BY <1>2
<1> QED
  BY <1>1, <1>2, <1>3, <1>4, <1>5, MsIsInt

LEMMA StartedIds ==
  ASSUME loads \in Seq(LoadRec), SomethingPicked, NEW i \in Ids, StartLoad(i)
  PROVE  /\ \A l \in DOMAIN loads' : loads'[l].id \in Ids
         /\ progress' \in ProgressRec /\ status' = "connecting"
<1> DEFINE old == [l \in 1..Len(loads) |-> [loads[l] EXCEPT !.cancelled = TRUE]]
           new == [id |-> i, cancelled |-> FALSE, meta |-> "wait", frames |-> "wait"]
           S == {r \in LoadRec : r.id \in Ids}
<1>1. Len(loads) \in Nat /\ \A l \in 1..Len(loads) : loads[l] \in LoadRec /\ loads[l].id \in Ids
  BY DEF SomethingPicked
<1>2. \A l \in 1..Len(loads) : [loads[l] EXCEPT !.cancelled = TRUE] \in S
  BY <1>1 DEF LoadRec
<1>3. new \in S
  BY DEF LoadRec
<1>4. loads' = Append(old, new)
  BY DEF StartLoad
<1> HIDE DEF new, S
<1>5. old \in Seq(S)
  BY <1>1, <1>2
<1> HIDE DEF old
<1>6. loads' \in Seq(S)
  BY <1>3, <1>4, <1>5
<1>7. \A l \in DOMAIN loads' : loads'[l] \in S
  BY <1>6
<1>8. progress' \in ProgressRec /\ status' = "connecting"
  BY DEF StartLoad, Idle, ProgressRec
<1> QED
  BY <1>7, <1>8 DEF S

\* A seek, a change of speed and the play button keep the recording, drop the
\* anchors and stay on its frames.
LEMMA SteeringIs ==
  ASSUME PageType,
         \/ TogglePlay
         \/ \E d \in Deltas : SeekDelta(d)
         \/ Scrub
         \/ \E s \in Speeds : SetSpeed(s)
  PROVE  /\ replay' \in ReplayRec /\ OnFrame(replay')
         /\ replay'.id = replay.id /\ replay'.of = replay.of /\ replay'.base = NoBase
         /\ UNCHANGED <<mode, status, progress, loads, clock, lastIdx, cur, timeline, shown>>
<1>1. replay \in ReplayRec /\ NoBase \in [snap : Int, elapsed : Nat]
  BY DEF PageType, NoBase
<1>2. replay.of # None
  BY DEF TogglePlay, SeekDelta, Scrub, SetSpeed
<1>3. ASSUME NEW k \in 1..Len(Frames(replay)), SeekTo(k)
      PROVE  /\ replay' \in ReplayRec /\ OnFrame(replay')
             /\ replay'.id = replay.id /\ replay'.of = replay.of /\ replay'.base = NoBase
             /\ UNCHANGED <<mode, status, progress, loads, clock, lastIdx, cur, timeline, shown>>
  <2>1. k \in Nat /\ k \in 1..Len(Playable[replay.of])
    BY <1>2, LoadedFrames
  <2>2. replay' = [replay EXCEPT !.idx = k, !.base = NoBase]
    BY <1>3 DEF SeekTo
  <2>3. replay' \in ReplayRec /\ replay'.idx = k
        /\ replay'.id = replay.id /\ replay'.of = replay.of /\ replay'.base = NoBase
    BY <1>1, <2>1, <2>2 DEF ReplayRec
  <2>4. UNCHANGED <<mode, status, progress, loads, clock, lastIdx, cur, timeline, shown>>
    BY <1>3 DEF SeekTo, Feed, playing
  <2> QED
    BY <1>2, <2>1, <2>3, <2>4 DEF OnFrame
<1>4. CASE TogglePlay
  <2> DEFINE k == IF replay.idx >= LastIdx(replay) THEN 1 ELSE replay.idx
  <2>1. k \in Nat /\ k \in 1..Len(Playable[replay.of])
    BY <1>2, LoadedFrames
  <2>2. replay' = [replay EXCEPT !.playing = ~@, !.base = NoBase, !.idx = k]
    BY <1>4 DEF TogglePlay
  <2>3. UNCHANGED <<mode, status, progress, loads, clock, lastIdx, cur, timeline, shown>>
    BY <1>4 DEF TogglePlay, Feed, playing
  <2> HIDE DEF k
  <2>4. replay' \in ReplayRec /\ replay'.idx = k
        /\ replay'.id = replay.id /\ replay'.of = replay.of /\ replay'.base = NoBase
    BY <1>1, <2>1, <2>2 DEF ReplayRec
  <2> QED
    BY <1>2, <2>1, <2>3, <2>4 DEF OnFrame
<1>5. ASSUME NEW d \in Deltas, SeekDelta(d)
      PROVE  \E k \in 1..Len(Frames(replay)) : SeekTo(k)
  <2>1. Ms(Frames(replay)[replay.idx]) + d \in Int
    BY <1>2, LoadedFrames, ViewerAssumption
  <2> QED
    BY <1>2, <1>5, <2>1, LoadedFrames, SeekInRange DEF SeekDelta
<1>6. ASSUME Scrub
      PROVE  \E k \in 1..Len(Frames(replay)) : SeekTo(k)
  <2> DEFINE fs == Frames(replay)
  <2>1. PICK target \in Ms(fs[1])..Max({Ms(fs[1]), Ms(fs[Len(fs)])}) : SeekTo(SeekIndex(fs, target))
    BY <1>6 DEF Scrub
  <2>2. target \in Int
    BY <2>1
  <2> QED
    BY <1>2, <2>1, <2>2, LoadedFrames, SeekInRange
<1>7. ASSUME NEW s \in Speeds, SetSpeed(s)
      PROVE  /\ replay' \in ReplayRec /\ OnFrame(replay')
             /\ replay'.id = replay.id /\ replay'.of = replay.of /\ replay'.base = NoBase
             /\ UNCHANGED <<mode, status, progress, loads, clock, lastIdx, cur, timeline, shown>>
  BY <1>1, <1>2, <1>7, LoadedFrames DEF SetSpeed, view, playing, ReplayRec, OnFrame
<1> QED
  BY <1>3, <1>4, <1>5, <1>6, <1>7

\* What an animation frame of a playing recording does: the playhead moves to
\* target, which is never behind the frame shown nor behind the clock.
LEMMA PlayingIs ==
  ASSUME PageType, EngineInv, FramePlaying
  PROVE  \E target \in Int :
           LET fs  == Frames(replay)
               idx == Advance(fs, replay.idx, target) IN
           /\ replay.of # None
           /\ Ms(fs[replay.idx]) <= target
           /\ clock' = [ms |-> Min({target, Ms(fs[Len(fs)])}), valid |-> TRUE]
           /\ replay' \in ReplayRec /\ replay'.of = replay.of /\ replay'.idx = idx
           /\ replay'.id = replay.id
           /\ lastIdx' = idx /\ cur' = [rec |-> replay.of, k |-> idx]
           /\ replay'.base.snap # 0 =>
                target = replay'.base.snap + replay'.base.elapsed * replay'.speed
           /\ (Followed /\ clock.valid /\ lastIdx = replay.idx /\ Ms(fs[replay.idx]) <= clock.ms)
                => clock.ms <= target
<1> DEFINE fs == Frames(replay)
<1>1. PICK dt \in 0..Step :
       LET base == IF NeedsRebase THEN [snap |-> RebaseAt, elapsed |-> 0]
                   ELSE [replay.base EXCEPT !.elapsed = @ + dt]
           target == base.snap + base.elapsed * replay.speed
           idx == Advance(fs, replay.idx, target)
           end == idx = Len(fs)
       IN /\ NeedsRebase => dt = 0
          /\ clock' = [ms |-> Min({target, Ms(fs[Len(fs)])}), valid |-> TRUE]
          /\ replay' = [replay EXCEPT !.idx = idx, !.playing = ~end,
                                      !.base = IF end THEN NoBase ELSE base]
          /\ lastIdx' = IF NeedsRebase \/ idx # replay.idx \/ end THEN idx ELSE lastIdx
          /\ IF NeedsRebase \/ idx # replay.idx \/ end
             THEN Ingest(replay.of, idx) ELSE UNCHANGED <<cur, lastTeams>>
  BY DEF FramePlaying
<1> DEFINE base == IF NeedsRebase THEN [snap |-> RebaseAt, elapsed |-> 0]
                   ELSE [replay.base EXCEPT !.elapsed = @ + dt]
           target == base.snap + base.elapsed * replay.speed
           idx == Advance(fs, replay.idx, target)
           end == idx = Len(fs)
           here == Ms(fs[replay.idx])
<1>2. /\ replay.of # None /\ replay \in ReplayRec /\ clock.ms \in Int
      /\ (JustLoaded \/ Followed) /\ Anchored
  BY DEF FramePlaying, NothingToPlay, PageType, EngineInv
<1>3. /\ fs \in Seq(RawFrame) /\ replay.idx \in 1..Len(fs) /\ Len(fs) \in Nat \ {0}
      /\ \A k \in 1..Len(fs) : Ms(fs[k]) \in Int
  BY <1>2, LoadedFrames
<1>4. /\ replay.base.snap \in Int /\ replay.base.elapsed \in Nat
      /\ replay.speed \in Nat \ {0} /\ replay.speed \in Speeds /\ dt \in Nat
  <2>1. Step \in Nat
    BY ViewerAssumption
  <2>2. dt \in Nat
    BY <2>1
  <2>3. /\ replay.base \in [snap : Int, elapsed : Nat] /\ replay.speed \in Speeds
    BY <1>2 DEF ReplayRec
  <2> QED
    BY <2>2, <2>3, SpeedsAre
<1>5. RebaseAt \in Int /\ here <= RebaseAt /\ RebaseAt \in {clock.ms, here}
  BY <1>2, <1>3 DEF RebaseAt
<1>6. /\ base \in [snap : Int, elapsed : Nat] /\ target \in Int /\ here <= target
      /\ (Followed /\ clock.valid /\ lastIdx = replay.idx /\ here <= clock.ms) => clock.ms <= target
      /\ lastIdx' = idx /\ cur' = [rec |-> replay.of, k |-> idx]
  <2>1. CASE NeedsRebase
    <3>1. base = [snap |-> RebaseAt, elapsed |-> 0]
      BY <2>1
    <3>2. target = RebaseAt
      <4>1. base.snap = RebaseAt /\ base.elapsed = 0
        BY <3>1
      <4>2. 0 * replay.speed = 0
        BY <1>4
      <4> HIDE DEF base
      <4> QED
        BY <1>5, <4>1, <4>2
    <3>3. (Followed /\ clock.valid /\ lastIdx = replay.idx /\ here <= clock.ms)
            => clock.ms <= RebaseAt
      <4> SUFFICES ASSUME Followed, clock.valid, lastIdx = replay.idx, here <= clock.ms
                   PROVE  clock.ms <= RebaseAt
        OBVIOUS
      <4>1. Steady(fs, replay.idx, clock.ms)
        BY DEF Followed
      <4> QED
        BY <1>2, <1>3, <4>1 DEF Steady, RebaseAt, LastIdx
    <3>4. lastIdx' = idx /\ cur' = [rec |-> replay.of, k |-> idx]
      BY <1>1, <2>1 DEF Ingest
    <3> HIDE DEF target, idx, here
    <3> QED
      BY <1>5, <3>1, <3>2, <3>3, <3>4
  <2>2. CASE ~NeedsRebase
    <3>1. replay.base.snap # 0 /\ lastIdx = replay.idx
      BY <2>2 DEF NeedsRebase
    <3>2. base = [replay.base EXCEPT !.elapsed = @ + dt]
      BY <2>2
    <3>3. /\ base \in [snap : Int, elapsed : Nat]
          /\ base.snap = replay.base.snap /\ base.elapsed = replay.base.elapsed + dt
      <4>1. replay.base \in [snap : Int, elapsed : Nat]
        BY <1>2 DEF ReplayRec
      <4> QED
        BY <1>4, <3>2, <4>1
    <3> DEFINE e == replay.base.elapsed
               s == replay.speed
    <3>4. (e + dt) * s \in Int /\ e * s \in Int /\ e * s <= (e + dt) * s
      <4>1. e \in Nat /\ s \in Nat /\ dt \in Nat
        BY <1>4
      <4> HIDE DEF e, s
      <4>2. (e + dt) * s = e * s + dt * s
        BY <4>1
      <4>3. dt * s \in Nat /\ e * s \in Nat
        BY <4>1
      <4> QED
        BY <4>2, <4>3
    <3>5. /\ Followed
          /\ here <= replay.base.snap + e * s /\ clock.ms <= replay.base.snap + e * s
      BY <1>2, <3>1 DEF Anchored
    <3>6. target = replay.base.snap + (e + dt) * s
      BY <3>3
    <3>7. target \in Int /\ here <= target /\ clock.ms <= target
      <4>1. here \in Int
        BY <1>3
      <4> HIDE DEF target, here, e, s
      <4> QED
        BY <1>2, <1>4, <3>4, <3>5, <3>6, <4>1
    <3>8. lastIdx' = idx /\ cur' = [rec |-> replay.of, k |-> idx]
      <4>1. CASE idx # replay.idx \/ end
        BY <1>1, <4>1 DEF Ingest
      <4>2. CASE idx = replay.idx /\ ~end
        <5>1. lastIdx' = lastIdx /\ cur' = cur
          BY <1>1, <2>2, <4>2
        <5>2. cur = [rec |-> replay.of, k |-> lastIdx]
          BY <3>5 DEF Followed
        <5> QED
          BY <3>1, <4>2, <5>1, <5>2
      <4> QED
        BY <4>1, <4>2
    <3> HIDE DEF target, idx, here
    <3> QED
      BY <3>3, <3>7, <3>8
  <2> QED
    BY <2>1, <2>2
<1>7. idx \in 1..Len(fs)
  <2>1. idx \in replay.idx..Len(fs)
    BY <1>3, <1>6, AdvanceIs
  <2> QED
    BY <1>3, <2>1
<1>8. /\ clock' = [ms |-> Min({target, Ms(fs[Len(fs)])}), valid |-> TRUE]
      /\ replay' = [replay EXCEPT !.idx = idx, !.playing = ~end,
                                  !.base = IF end THEN NoBase ELSE base]
  BY <1>1
<1>9. /\ replay' \in ReplayRec /\ replay'.of = replay.of /\ replay'.idx = idx
      /\ replay'.id = replay.id /\ replay'.speed = replay.speed
      /\ replay'.base = IF end THEN NoBase ELSE base
  <2> DEFINE b == IF end THEN NoBase ELSE base
             p == ~end
  <2>1. b \in [snap : Int, elapsed : Nat] /\ p \in BOOLEAN /\ idx \in Nat
    BY <1>6, <1>7 DEF NoBase
  <2>2. replay' = [replay EXCEPT !.idx = idx, !.playing = p, !.base = b]
    BY <1>8
  <2>3. replay'.base = b
    <3> HIDE DEF b, p, idx
    <3> QED
      BY <1>2, <2>2 DEF ReplayRec
  <2> HIDE DEF b, p, idx
  <2>4. /\ replay' \in ReplayRec /\ replay'.of = replay.of /\ replay'.idx = idx
        /\ replay'.id = replay.id /\ replay'.speed = replay.speed
    BY <1>2, <2>1, <2>2 DEF ReplayRec
  <2> QED
    BY <2>3, <2>4 DEF b
<1>10. replay'.base.snap # 0 =>
         target = replay'.base.snap + replay'.base.elapsed * replay'.speed
  <2>1. CASE end
    BY <1>9, <2>1 DEF NoBase
  <2>2. CASE ~end
    BY <1>9, <2>2
  <2> QED
    BY <2>1, <2>2
<1> HIDE DEF target
<1> QED
  BY <1>2, <1>6, <1>8, <1>9, <1>10

Typed == PickInv /\ SomethingPicked /\ PageType

LEMMA TypedInit == Init => Typed
<1> SUFFICES ASSUME Init PROVE Typed
  OBVIOUS
<1>1. PickInv
  BY InitPick
<1>2. replay \in ReplayRec /\ OnFrame(replay)
  BY SpeedsAre DEF Init, ReplayRec, NoBase, OnFrame
<1>3. progress \in ProgressRec /\ ~progress.error
  BY DEF Init, Idle, ProgressRec
<1>4. mode \in {"home", "replay"} /\ status = "connecting" /\ shown = "connecting"
      /\ clock \in [ms : Int, valid : BOOLEAN] /\ loads = <<>>
  BY DEF Init
<1> QED
  BY <1>1, <1>2, <1>3, <1>4 DEF Typed, SomethingPicked, PageType

\* A fetch that answers or fails was of a recording.
LEMMA AnswerOf ==
  ASSUME Typed, NEW l \in DOMAIN loads
  PROVE  /\ loads[l].id \in Ids /\ replay.id # None
         /\ loads[l].cancelled \/ loads[l].id = replay.id
BY DEF Typed, SomethingPicked, PickInv

LEMMA ResponseTyped ==
  ASSUME Typed, Response
  PROVE  SomethingPicked' /\ PageType'
<1>1. PICK l \in DOMAIN loads :
        MetaArrives(l) \/ MetaFails(l) \/ Chunk(l) \/ FramesArrive(l) \/ FramesFail(l)
  BY DEF Response
<1>2. loads[l].id \in Ids /\ replay.id # None
  BY AnswerOf
<1>3. /\ replay \in ReplayRec /\ OnFrame(replay) /\ progress \in ProgressRec
      /\ loads \in Seq(LoadRec) /\ \A k \in DOMAIN loads : loads[k].id \in Ids
  BY DEF Typed, PickInv, PageType, SomethingPicked
<1>4. DOMAIN loads' = DOMAIN loads /\ \A k \in DOMAIN loads' : loads'[k].id \in Ids
  <2>1. CASE UNCHANGED loads
    BY <1>3, <2>1
  <2>2. CASE \/ loads' = [loads EXCEPT ![l].meta = "done"]
             \/ loads' = [loads EXCEPT ![l].frames = "done"]
    BY <1>3, <2>2, AnsweredStays
  <2> QED
    BY <1>1, <2>1, <2>2 DEF MetaArrives, MetaFails, Chunk, FramesArrive, FramesFail
<1>5. /\ progress' \in ProgressRec
      /\ status' \in {status, "idle", "replay"} /\ UNCHANGED <<mode, shown, clock>>
  <2>1. CASE MetaArrives(l) \/ MetaFails(l) \/ Chunk(l)
    BY <1>2, <1>3, <2>1 DEF MetaArrives, MetaFails, Chunk, ProgressRec, playing
  <2>2. CASE FramesArrive(l)
    BY <1>2, <1>3, <2>2 DEF FramesArrive, ProgressRec, playing
  <2>3. CASE FramesFail(l)
    BY <1>2, <1>3, <2>3 DEF FramesFail, ProgressRec, playing
  <2> QED
    BY <1>1, <2>1, <2>2, <2>3
<1>6. replay' \in ReplayRec /\ OnFrame(replay') /\ replay'.id = replay.id
  <2>1. CASE replay' = replay
    BY <1>3, <2>1
  <2>2. CASE /\ Playable[loads[l].id] # <<>>
             /\ replay' = [replay EXCEPT !.of = loads[l].id, !.idx = 1, !.playing = FALSE, !.base = NoBase]
    <3>1. Playable[loads[l].id] \in Seq(RawFrame)
      BY <1>2, PlayableIs
    <3>2. 1 \in 1..Len(Playable[loads[l].id])
      BY <2>2, <3>1
    <3>3. /\ replay' \in ReplayRec /\ replay'.id = replay.id
          /\ replay'.of = loads[l].id /\ replay'.idx = 1
      <4>1. NoBase \in [snap : Int, elapsed : Nat]
        BY DEF NoBase
      <4> QED
        BY <1>2, <1>3, <2>2, <4>1 DEF ReplayRec
    <3> QED
      BY <1>2, <3>2, <3>3, NoneIsNoId DEF OnFrame
  <2> QED
    BY <1>1, <2>1, <2>2 DEF MetaArrives, MetaFails, Chunk, FramesArrive, FramesFail
<1>7. SomethingPicked'
  BY <1>2, <1>4, <1>6 DEF SomethingPicked
<1> QED
  BY <1>5, <1>6, <1>7 DEF PageType, Typed

LEMMA TypedNext ==
  ASSUME Typed, EngineInv, [Next]_vars
  PROVE  Typed'
<1>1. PickInv'
  BY NextPick DEF Typed
<1>2. /\ replay \in ReplayRec /\ OnFrame(replay) /\ progress \in ProgressRec
      /\ loads \in Seq(LoadRec) /\ SomethingPicked /\ PageType
  BY DEF Typed, PickInv, PageType
<1> SUFFICES SomethingPicked' /\ PageType'
  BY <1>1 DEF Typed
<1>3. ASSUME NEW i \in Ids, Pick(i)
      PROVE  SomethingPicked' /\ PageType'
  <2>1. replay' \in ReplayRec /\ OnFrame(replay') /\ replay'.id = i
    <3>1. /\ replay' = [replay EXCEPT !.id = i, !.of = None, !.idx = 1,
                                      !.playing = FALSE, !.speed = 1, !.base = NoBase]
          /\ NoBase \in [snap : Int, elapsed : Nat] /\ 1 \in Speeds
      BY <1>3, SpeedsAre DEF Pick, NoBase
    <3>2. /\ replay' \in ReplayRec /\ replay'.id = i
          /\ replay'.of = None /\ replay'.idx = 1
      BY <1>2, <3>1 DEF ReplayRec
    <3> QED
      BY <3>2 DEF OnFrame
  <2>2. /\ mode' = "replay" /\ UNCHANGED <<clock, shown>>
    BY <1>3 DEF Pick, playing
  <2>3. /\ \A l \in DOMAIN loads' : loads'[l].id \in Ids
        /\ progress' \in ProgressRec /\ status' \in {"connecting", status}
    BY <1>2, <1>3, StartedIds DEF Pick, SomethingPicked
  <2> QED
    BY <1>2, <2>1, <2>2, <2>3, NoneIsNoId DEF SomethingPicked, PageType
<1>4. CASE Retry
  <2>1. replay.id \in Ids /\ StartLoad(replay.id)
    BY <1>2, <1>4 DEF Retry, SomethingPicked, ReplayRec
  <2>2. replay' \in ReplayRec /\ OnFrame(replay') /\ replay'.id = replay.id
    <3> DEFINE n == replay.nonce + 1
    <3>1. replay' = [replay EXCEPT !.of = None, !.idx = 1, !.playing = FALSE, !.nonce = n]
      BY <1>4 DEF Retry
    <3>2. n \in Nat
      BY <1>2 DEF ReplayRec
    <3> HIDE DEF n
    <3>3. /\ replay' \in ReplayRec /\ replay'.id = replay.id
          /\ replay'.of = None /\ replay'.idx = 1
      BY <1>2, <3>1, <3>2 DEF ReplayRec
    <3> QED
      BY <3>3 DEF OnFrame
  <2>3. UNCHANGED <<mode, clock, shown>>
    BY <1>4 DEF Retry, playing
  <2> QED
    BY <1>2, <2>1, <2>2, <2>3, StartedIds, NoneIsNoId DEF SomethingPicked, PageType
<1>5. CASE \/ TogglePlay
           \/ \E d \in Deltas : SeekDelta(d)
           \/ Scrub
           \/ \E s \in Speeds : SetSpeed(s)
  BY <1>2, <1>5, SteeringIs DEF SomethingPicked, PageType
<1>6. CASE Response
  BY <1>6, ResponseTyped
<1>7. CASE FramePlaying
  <2>1. /\ UNCHANGED <<mode, status, progress, loads, shown>>
    BY <1>7 DEF FramePlaying
  <2>2. PICK target \in Int :
           LET fs  == Frames(replay)
               idx == Advance(fs, replay.idx, target) IN
           /\ replay.of # None
           /\ clock' = [ms |-> Min({target, Ms(fs[Len(fs)])}), valid |-> TRUE]
           /\ replay' \in ReplayRec /\ replay'.of = replay.of /\ replay'.idx = idx
           /\ replay'.id = replay.id
    BY <1>2, <1>7, PlayingIs
  <2>3. replay'.idx \in 1..Len(Playable[replay.of])
    <3>1. replay'.idx \in replay.idx..Len(Frames(replay))
      BY <1>2, <2>2, LoadedFrames, AdvanceIs
    <3> QED
      BY <1>2, <2>2, <3>1, LoadedFrames
  <2>4. clock' \in [ms : Int, valid : BOOLEAN]
    <3>1. Ms(Frames(replay)[Len(Frames(replay))]) \in Int
      BY <1>2, <2>2, LoadedFrames
    <3>2. Min({target, Ms(Frames(replay)[Len(Frames(replay))])}) \in Int
      BY <2>2, <3>1, MinOfTwo
    <3> QED
      BY <2>2, <3>2
  <2> QED
    BY <1>2, <2>1, <2>2, <2>3, <2>4 DEF SomethingPicked, PageType, OnFrame
<1>8. CASE FrameIdle
  BY <1>2, <1>8 DEF FrameIdle, view, SomethingPicked, PageType
<1>9. CASE FramePaused
  <2>1. UNCHANGED <<mode, status, replay, progress, loads, shown>>
    BY <1>9 DEF FramePaused
  <2>2. Ms(Frames(replay)[replay.idx]) \in Int /\ clock.ms \in Int
    BY <1>2, <1>9, LoadedFrames DEF FramePaused, NothingToPlay, PageType
  <2>3. clock' \in [ms : Int, valid : BOOLEAN]
    <3> DEFINE here == Ms(Frames(replay)[replay.idx])
    <3>1. PICK ms \in {clock.ms, here} : clock' = [ms |-> ms, valid |-> TRUE]
      BY <1>9 DEF FramePaused
    <3>2. ms \in Int
      BY <2>2, <3>1
    <3> QED
      BY <3>1, <3>2
  <2> QED
    BY <1>2, <2>1, <2>3 DEF SomethingPicked, PageType
<1>10. CASE Poll
  BY <1>2, <1>10 DEF Poll, Phase, playing, view, SomethingPicked, PageType
<1>11. CASE UNCHANGED vars
  BY <1>2, <1>11 DEF vars, SomethingPicked, PageType
<1> QED
  BY <1>1, <1>3, <1>4, <1>5, <1>6, <1>7, <1>8, <1>9, <1>10, <1>11
     DEF Next, User, AnimationFrame, Typed

-----------------------------------------------------------------------------
(* The kill feed *)

\* The feed hook ends with the rows of the timeline it was given: what it
\* leaves as it was is right when it remembers the number of those rows.
LEMMA RepaintIs ==
  ASSUME NEW tl \in Ids \cup {None}, NEW idx, NEW old, NEW replaced \in BOOLEAN,
         Repaint(old, replaced, tl, idx),
         replaced \/ \E c : lastCount \in {-1, c} /\ old = FeedAt(KillTimeline[tl], c)
  PROVE  /\ feed' = FeedAt(KillTimeline[tl], Count(tl, idx))
         /\ lastCount' = Count(tl, idx)
<1> DEFINE count == ShownCount(KillTimeline[tl], idx)
           seen  == IF replaced THEN -1 ELSE lastCount
<1>1. count \in Nat /\ count = Count(tl, idx)
  BY CountIsNat DEF Count
<1>2. /\ feed' = IF count = seen THEN old ELSE FeedAt(KillTimeline[tl], count)
      /\ lastCount' = count
  BY DEF Repaint
<1>3. count = seen => old = FeedAt(KillTimeline[tl], count)
  BY <1>1
<1> QED
  BY <1>1, <1>2, <1>3

LEMMA FeedInit == Init => FeedInv
<1> SUFFICES ASSUME Init PROVE FeedInv
  OBVIOUS
<1>1. timeline = None /\ feed = <<>> /\ lastCount = -1 /\ replay.idx = 1
  BY DEF Init
<1>2. KillTimeline[None] = <<>>
  BY DEF KillTimeline
<1>3. Count(None, 1) = 0
  <2>1. {n \in 1..Len(<<>>) : <<>>[n].frameIdx <= 1} = {}
    OBVIOUS
  <2> QED
    BY <1>2, <2>1, FS_EmptySet DEF Count, ShownCount
<1>4. FeedAt(<<>>, 0) = <<>>
  <2>1. FeedMax \in Nat \ {0}
    BY ViewerAssumption
  <2>2. SubSeq(<<>>, 1, 0) = <<>> /\ Reverse(<<>>) = <<>>
    BY DEF Reverse
  <2>3. 1 + (IF 0 > FeedMax THEN 0 - FeedMax ELSE 0) = 1
    BY <2>1
  <2>4. FeedAt(<<>>, 0) = Reverse(SubSeq(<<>>, 1, 0))
    BY <2>3 DEF FeedAt
  <2> QED
    BY <2>2, <2>4
<1> QED
  BY <1>1, <1>2, <1>3, <1>4 DEF FeedInv

LEMMA FeedNext ==
  ASSUME Typed, FeedInv, EngineInv, [Next]_vars
  PROVE  FeedInv'
<1> SUFFICES ASSUME mode' = "replay"
             PROVE  /\ feed' = FeedAt(KillTimeline[timeline'], Count(timeline', replay'.idx))
                    /\ lastCount' \in {-1, Count(timeline', replay'.idx)}
  BY DEF FeedInv
<1>1. timeline \in Ids \cup {None} /\ replay \in ReplayRec
  BY DEF Typed, PickInv, ShowsPicked, PageType
<1>2. ASSUME mode' = mode, UNCHANGED view, replay'.idx = replay.idx
      PROVE  /\ feed' = FeedAt(KillTimeline[timeline'], Count(timeline', replay'.idx))
             /\ lastCount' \in {-1, Count(timeline', replay'.idx)}
  BY <1>2 DEF FeedInv, view
<1>3. ASSUME mode' = mode, Feed
      PROVE  /\ feed' = FeedAt(KillTimeline[timeline'], Count(timeline', replay'.idx))
             /\ lastCount' \in {-1, Count(timeline', replay'.idx)}
  <2>1. /\ feed = FeedAt(KillTimeline[timeline], Count(timeline, replay.idx))
        /\ lastCount \in {-1, Count(timeline, replay.idx)}
    BY <1>3 DEF FeedInv
  <2>2. Repaint(feed, FALSE, timeline, replay'.idx) /\ timeline' = timeline
    BY <1>3 DEF Feed
  <2>3. \E c : lastCount \in {-1, c} /\ feed = FeedAt(KillTimeline[timeline], c)
    BY <2>1
  <2>4. /\ feed' = FeedAt(KillTimeline[timeline], Count(timeline, replay'.idx))
        /\ lastCount' = Count(timeline, replay'.idx)
    BY <1>1, <2>2, <2>3, RepaintIs
  <2> QED
    BY <2>2, <2>4
<1>4. ASSUME NEW i \in Ids, Pick(i)
      PROVE  /\ feed' = FeedAt(KillTimeline[timeline'], Count(timeline', replay'.idx))
             /\ lastCount' \in {-1, Count(timeline', replay'.idx)}
  <2>1. /\ Repaint(<<>>, TRUE, None, 1) /\ timeline' = None /\ replay'.idx = 1
    BY <1>1, <1>4 DEF Pick, ReplayRec
  <2> QED
    BY <2>1, RepaintIs
<1>5. CASE Retry \/ TogglePlay \/ FramePlaying
  BY <1>3, <1>5 DEF Retry, TogglePlay, FramePlaying
<1>6. CASE \/ \E d \in Deltas : SeekDelta(d)
           \/ Scrub
  BY <1>3, <1>6 DEF SeekDelta, Scrub, SeekTo
<1>7. CASE \E s \in Speeds : SetSpeed(s)
  BY <1>1, <1>2, <1>7 DEF SetSpeed, ReplayRec
<1>8. CASE Response
  <2>1. PICK l \in DOMAIN loads :
          MetaArrives(l) \/ MetaFails(l) \/ Chunk(l) \/ FramesArrive(l) \/ FramesFail(l)
    BY <1>8 DEF Response
  <2>2. CASE MetaArrives(l) \/ MetaFails(l) \/ Chunk(l) \/ FramesFail(l)
    BY <1>2, <2>2 DEF MetaArrives, MetaFails, Chunk, FramesFail
  <2>3. CASE FramesArrive(l)
    <3>1. CASE UNCHANGED <<replay, view>>
      BY <1>2, <2>3, <3>1 DEF FramesArrive
    <3>2. CASE /\ Repaint(feed, TRUE, loads[l].id, 1) /\ timeline' = loads[l].id
               /\ replay'.idx = 1
      BY <3>2, AnswerOf, RepaintIs
    <3> QED
      BY <1>1, <2>3, <3>1, <3>2 DEF FramesArrive, ReplayRec
  <2> QED
    BY <2>1, <2>2, <2>3
<1>9. CASE FrameIdle \/ FramePaused \/ Poll \/ UNCHANGED vars
  BY <1>2, <1>9 DEF FrameIdle, FramePaused, Poll, vars, view
<1> QED
  BY <1>4, <1>5, <1>6, <1>7, <1>8, <1>9 DEF Next, User, AnimationFrame

-----------------------------------------------------------------------------
(* The playback engine *)

\* What is neither the recording nor the engine's own leaves it in step.
LEMMA EngineRests ==
  ASSUME EngineInv, replay'.of = replay.of, clock'.ms = clock.ms, UNCHANGED <<lastIdx, cur>>,
         \/ replay'.base.snap = 0
         \/ /\ replay'.base = replay.base /\ replay'.idx = replay.idx
            /\ replay'.speed = replay.speed
  PROVE  EngineInv'
<1>1. Frames(replay)' = Frames(replay) /\ LastIdx(replay)' = LastIdx(replay)
  BY DEF Frames, LastIdx
<1>2. JustLoaded' = JustLoaded
  BY <1>1 DEF JustLoaded
<1>3. Followed' = Followed
  BY <1>1 DEF Followed
<1>4. ASSUME replay.of # None PROVE Anchored'
  BY <1>1, <1>3, <1>4 DEF Anchored, EngineInv
<1> QED
  BY <1>2, <1>3, <1>4 DEF EngineInv

LEMMA PausedEngine ==
  ASSUME PageType, EngineInv, FramePaused
  PROVE  EngineInv'
<1> DEFINE fs == Frames(replay)
           here == Ms(fs[replay.idx])
<1>1. /\ replay.of # None /\ replay' = replay /\ clock.ms \in Int
      /\ (JustLoaded \/ Followed) /\ Anchored
  BY DEF FramePaused, NothingToPlay, EngineInv, PageType
<1>2. /\ fs \in Seq(RawFrame) /\ replay.idx \in 1..Len(fs) /\ here \in Int
      /\ LastIdx(replay) = Len(fs)
  BY <1>1, LoadedFrames DEF LastIdx
<1>3. /\ JustLoaded' =
           (/\ cur' = [rec |-> replay.of, k |-> 1]
            /\ \/ lastIdx' # 1
               \/ Len(fs) > 1 /\ clock'.ms > Ms(fs[1]) /\ clock'.ms >= Ms(fs[2]))
      /\ Followed' =
           (/\ cur' = [rec |-> replay.of, k |-> lastIdx']
            /\ lastIdx' \in 1..Len(fs)
            /\ Steady(fs, lastIdx', clock'.ms))
  BY <1>1, <1>2 DEF JustLoaded, Followed
<1>4. CASE lastIdx # replay.idx
  <2>1. /\ clock'.ms = here /\ lastIdx' = replay.idx
        /\ cur' = [rec |-> replay.of, k |-> replay.idx]
    BY <1>4 DEF FramePaused, Ingest
  <2>2. Followed'
    BY <1>2, <1>3, <2>1 DEF Steady
  <2>3. Anchored'
    BY <1>1, <1>4 DEF Anchored
  <2> QED
    BY <2>2, <2>3 DEF EngineInv
<1>5. CASE lastIdx = replay.idx /\ clock.valid
  <2>1. clock'.ms = clock.ms /\ UNCHANGED <<lastIdx, cur>>
    BY <1>5 DEF FramePaused
  <2> QED
    BY <1>1, <2>1, EngineRests
<1>6. CASE lastIdx = replay.idx /\ ~clock.valid
  <2>1. clock'.ms = here /\ UNCHANGED <<lastIdx, cur>>
    BY <1>6 DEF FramePaused
  <2>2. Steady(fs, lastIdx', clock'.ms) /\ lastIdx' \in 1..Len(fs)
    BY <1>2, <1>6, <2>1 DEF Steady
  <2>3. cur = [rec |-> replay.of, k |-> lastIdx] => Followed'
    BY <1>3, <2>1, <2>2
  <2>4. JustLoaded' \/ Followed'
    <3>1. CASE Followed
      BY <2>3, <3>1 DEF Followed
    <3>2. CASE JustLoaded
      BY <1>3, <2>1, <2>3, <3>2 DEF JustLoaded
    <3> QED
      BY <1>1, <3>1, <3>2
  <2>5. Anchored'
    <3> SUFFICES ASSUME replay.base.snap # 0
                 PROVE  LET target == replay.base.snap + replay.base.elapsed * replay.speed
                        IN /\ Followed' /\ lastIdx' = replay.idx
                           /\ here <= target /\ clock'.ms <= target
      BY <1>1 DEF Anchored
    <3>1. LET target == replay.base.snap + replay.base.elapsed * replay.speed
          IN Followed /\ here <= target
      BY <1>1 DEF Anchored
    <3> QED
      BY <1>6, <2>1, <2>3, <3>1 DEF Followed
  <2> QED
    BY <2>4, <2>5 DEF EngineInv
<1> QED
  BY <1>4, <1>5, <1>6

\* Where a playing frame leaves the clock and the playhead.
LEMMA PlayingEngine ==
  ASSUME PageType, EngineInv, FramePlaying
  PROVE  /\ EngineInv'
         /\ replay'.of = replay.of /\ Followed' /\ lastIdx' = replay'.idx
         /\ replay'.idx < LastIdx(replay) => clock'.ms < Ms(Frames(replay)[replay'.idx + 1])
<1> DEFINE fs == Frames(replay)
           last == Ms(fs[Len(fs)])
<1>1. PICK target \in Int :
       LET idx == Advance(fs, replay.idx, target) IN
           /\ replay.of # None
           /\ Ms(fs[replay.idx]) <= target
           /\ clock' = [ms |-> Min({target, Ms(fs[Len(fs)])}), valid |-> TRUE]
           /\ replay'.of = replay.of /\ replay'.idx = idx
           /\ lastIdx' = idx /\ cur' = [rec |-> replay.of, k |-> idx]
           /\ replay'.base.snap # 0 =>
                target = replay'.base.snap + replay'.base.elapsed * replay'.speed
  BY PlayingIs
<1>2. /\ fs \in Seq(RawFrame) /\ replay.idx \in 1..Len(fs) /\ last \in Int
      /\ LastIdx(replay) = Len(fs) /\ Frames(replay)' = fs /\ LastIdx(replay)' = Len(fs)
      /\ Len(fs) \in Nat /\ \A k \in 1..Len(fs) : Ms(fs[k]) \in Int
  BY <1>1, LoadedFrames DEF LastIdx, Frames
<1> DEFINE idx == Advance(fs, replay.idx, target)
<1>3. /\ idx \in replay.idx..Len(fs)
      /\ idx # replay.idx => Ms(fs[idx]) <= target
      /\ idx < Len(fs) => target < Ms(fs[idx + 1])
  BY <1>2, AdvanceIs
<1>4. clock'.ms = IF target <= last THEN target ELSE last
  BY <1>1, <1>2, MinOfTwo
<1>5. idx \in 1..Len(fs) /\ replay'.idx = idx /\ lastIdx' = idx
      /\ cur' = [rec |-> replay.of, k |-> idx] /\ replay'.of = replay.of
  BY <1>1, <1>2, <1>3
<1> HIDE DEF idx
<1>6. idx < Len(fs) => clock'.ms < Ms(fs[idx + 1])
  <2> SUFFICES ASSUME idx < Len(fs) PROVE clock'.ms < Ms(fs[idx + 1])
    OBVIOUS
  <2>1. Ms(fs[idx + 1]) \in Int
    BY <1>2, <1>5
  <2> HIDE DEF last
  <2> QED
    BY <1>2, <1>3, <1>4, <2>1
<1>7. Followed'
  BY <1>2, <1>5, <1>6 DEF Followed, Steady
<1>8. Anchored'
  <2> SUFFICES ASSUME replay'.base.snap # 0
               PROVE  Ms(fs[idx]) <= target /\ clock'.ms <= target
    BY <1>1, <1>2, <1>5, <1>7 DEF Anchored
  <2>1. Ms(fs[idx]) <= target
    BY <1>1, <1>3
  <2> HIDE DEF last
  <2> QED
    BY <1>2, <1>4, <2>1
<1> QED
  BY <1>2, <1>5, <1>6, <1>7, <1>8 DEF EngineInv

\* A load puts its first frame on the panels; clock and mirror stay as the
\* recording shown before left them.
LEMMA ArrivedEngine ==
  ASSUME Typed, Typed', EngineInv, Response
  PROVE  EngineInv'
<1>1. PICK l \in DOMAIN loads :
        MetaArrives(l) \/ MetaFails(l) \/ Chunk(l) \/ FramesArrive(l) \/ FramesFail(l)
  BY DEF Response
<1>2. UNCHANGED <<clock, lastIdx>>
  BY <1>1 DEF MetaArrives, MetaFails, Chunk, FramesArrive, FramesFail, playing
<1>3. CASE UNCHANGED <<replay, cur>>
  BY <1>2, <1>3, EngineRests
<1>4. CASE replay' = [replay EXCEPT !.of = loads[l].id, !.idx = 1, !.playing = FALSE, !.base = NoBase]
           /\ cur' = [rec |-> loads[l].id, k |-> 1]
  <2> DEFINE fs == Frames(replay)'
  <2>1. replay'.of = loads[l].id /\ replay'.base.snap = 0
    BY <1>4 DEF Typed, PageType, ReplayRec, NoBase
  <2>2. Anchored'
    BY <2>1 DEF Anchored
  <2>3. replay'.of # None /\ PageType' /\ clock.ms \in Int
    BY <2>1, AnswerOf, NoneIsNoId DEF Typed, PageType
  <2>4. LastIdx(replay)' = Len(fs) /\ Len(fs) \in Nat \ {0} /\ \A k \in 1..Len(fs) : Ms(fs[k]) \in Int
    <3>1. /\ replay'.of \in Ids /\ fs = Playable[replay'.of]
          /\ replay'.idx \in 1..Len(Playable[replay'.of])
      BY <2>3 DEF PageType, ReplayRec, Frames, OnFrame
    <3>2. fs \in Seq(RawFrame)
      BY <3>1, PlayableIs
    <3>3. Len(fs) \in Nat \ {0}
      BY <3>1, <3>2
    <3>4. \A k \in 1..Len(fs) : fs[k] \in RawFrame
      BY <3>2
    <3> QED
      BY <3>3, <3>4, MsIsInt DEF LastIdx
  <2>5. JustLoaded' \/ Followed'
    <3>1. CASE lastIdx # 1
      BY <1>2, <1>4, <2>1, <2>3, <3>1 DEF JustLoaded
    <3>2. CASE lastIdx = 1 /\ Steady(fs, 1, clock.ms)
      BY <1>2, <1>4, <2>1, <2>4, <3>2 DEF Followed
    <3>3. CASE lastIdx = 1 /\ ~Steady(fs, 1, clock.ms)
      <4>1. Len(fs) > 1 /\ clock.ms > Ms(fs[1]) /\ clock.ms >= Ms(fs[2])
        BY <2>3, <2>4, <3>3 DEF Steady
      <4> QED
        BY <1>2, <1>4, <2>1, <2>3, <4>1 DEF JustLoaded
    <3> QED
      BY <3>1, <3>2, <3>3
  <2> QED
    BY <2>2, <2>5 DEF EngineInv
<1> QED
  BY <1>1, <1>3, <1>4
     DEF MetaArrives, MetaFails, Chunk, FramesArrive, FramesFail, Ingest

LEMMA EngineNext ==
  ASSUME Typed, Typed', EngineInv, [Next]_vars
  PROVE  EngineInv'
<1>1. PageType /\ replay \in ReplayRec /\ clock \in [ms : Int, valid : BOOLEAN]
  BY DEF Typed, PageType
<1>2. CASE (\E i \in Ids : Pick(i)) \/ Retry
  <2>1. replay'.of = None
    BY <1>1, <1>2 DEF Pick, Retry, ReplayRec
  <2> QED
    BY <2>1 DEF EngineInv
<1>3. CASE \/ TogglePlay
           \/ \E d \in Deltas : SeekDelta(d)
           \/ Scrub
           \/ \E s \in Speeds : SetSpeed(s)
  <2>1. /\ replay'.of = replay.of /\ replay'.base = NoBase
        /\ UNCHANGED <<clock, lastIdx, cur>>
    BY <1>1, <1>3, SteeringIs
  <2>2. replay'.base.snap = 0
    BY <2>1 DEF NoBase
  <2> QED
    BY <2>1, <2>2, EngineRests
<1>4. CASE Response
  BY <1>4, ArrivedEngine
<1>5. CASE FramePaused
  BY <1>1, <1>5, PausedEngine
<1>6. CASE FramePlaying
  BY <1>1, <1>6, PlayingEngine
<1>7. CASE FrameIdle \/ Poll \/ UNCHANGED vars
  <2>1. clock'.ms = clock.ms /\ UNCHANGED <<replay, lastIdx, cur>>
    BY <1>1, <1>7 DEF FrameIdle, Poll, vars, playing
  <2> QED
    BY <2>1, EngineRests
<1> QED
  BY <1>2, <1>3, <1>4, <1>5, <1>6, <1>7 DEF Next, User, AnimationFrame

LEMMA PageInitially == Init => PageInv
<1> SUFFICES ASSUME Init PROVE PageInv
  OBVIOUS
<1>1. EngineInv
  BY DEF Init, EngineInv
<1> QED
  BY <1>1, TypedInit, FeedInit DEF PageInv, Typed

LEMMA PageNext == PageInv /\ [Next]_vars => PageInv'
BY TypedNext, FeedNext, EngineNext DEF PageInv, Typed

LEMMA PageInvariant == Spec => []PageInv
BY PageInitially, PageNext, PTL DEF Spec

\* Across picks, seeks, reloads and late answers the playhead is on a frame
\* of what is loaded, and the feed holds exactly the kills up to it.
THEOREM FeedFollows == Spec => []FeedMatchesPlayhead
<1>1. ASSUME PageInv PROVE FeedMatchesPlayhead
  <2>1. replay.idx \in 1..Max({1, LastIdx(replay)})
    <3>1. CASE replay.of = None
      <4>1. LastIdx(replay) = 0 /\ replay.idx = 1
        BY <1>1, <3>1 DEF PageInv, PageType, OnFrame, LastIdx, Frames
      <4>2. Max({1, LastIdx(replay)}) = 1
        BY <4>1, MaxOfTwo
      <4> QED
        BY <4>1, <4>2
    <3>2. CASE replay.of # None
      <4>1. /\ LastIdx(replay) \in Nat \ {0} /\ replay.idx \in 1..LastIdx(replay)
        BY <1>1, <3>2, LoadedFrames DEF PageInv, LastIdx
      <4>2. Max({1, LastIdx(replay)}) = LastIdx(replay)
        BY <4>1, MaxOfTwo
      <4> QED
        BY <4>1, <4>2
    <3> QED
      BY <3>1, <3>2
  <2>2. TypeOK
    BY <1>1, <2>1 DEF PageInv, PageType, ReplayRec, ProgressRec, TypeOK
  <2> QED
    BY <1>1, <2>2 DEF PageInv, FeedInv, Count, FeedMatchesPlayhead
<1> QED
  BY <1>1, PageInvariant, PTL

\* Whatever was clicked in between, an animation frame leaves on the panels
\* the frame the playhead is on.
THEOREM PanelsFollow == Spec => PanelsFollowPlayhead
<1>1. PageInv /\ [Next]_vars =>
        [FramePaused \/ FramePlaying =>
           \/ cur' = [rec |-> replay'.of, k |-> replay'.idx]
           \/ FramePaused /\ JustLoaded /\ lastIdx = replay.idx]_vars
  <2> SUFFICES ASSUME PageInv, FramePaused \/ FramePlaying
               PROVE  \/ cur' = [rec |-> replay'.of, k |-> replay'.idx]
                      \/ FramePaused /\ JustLoaded /\ lastIdx = replay.idx
    OBVIOUS
  <2>1. CASE FramePlaying
    BY <2>1, PlayingEngine DEF PageInv, Followed
  <2>2. CASE FramePaused
    <3>1. replay' = replay /\ (JustLoaded \/ Followed)
      BY <2>2 DEF FramePaused, NothingToPlay, PageInv, EngineInv
    <3>2. CASE lastIdx # replay.idx
      BY <2>2, <3>1, <3>2 DEF FramePaused, Ingest
    <3>3. CASE lastIdx = replay.idx
      <4>1. cur' = cur
        BY <2>2, <3>3 DEF FramePaused
      <4> QED
        BY <2>2, <3>1, <3>3, <4>1 DEF Followed
    <3> QED
      BY <3>2, <3>3
  <2> QED
    BY <2>1, <2>2
<1> QED
  BY <1>1, PageInvariant, PTL DEF Spec, PanelsFollowPlayhead

LEMMA Brackets ==
  ASSUME PageInv, FramePlaying
  PROVE  LET fs == Frames(replay) IN
         \/ \A f \in Range(fs) : f.t = NoTime
         \/ /\ Ms(fs[replay'.idx]) <= clock'.ms
            /\ replay'.idx < Len(fs) => clock'.ms < Ms(fs[replay'.idx + 1])
<1> DEFINE fs == Frames(replay)
           last == Ms(fs[Len(fs)])
<1>1. PageType /\ EngineInv /\ replay.of # None
  BY DEF PageInv, FramePlaying, NothingToPlay
<1>2. /\ fs \in Seq(RawFrame) /\ Len(fs) \in Nat \ {0} /\ LastIdx(replay) = Len(fs)
      /\ \A k \in 1..Len(fs) : Ms(fs[k]) \in Int
      /\ AllTimeless(fs) \/ Ascending(fs)
      /\ replay.idx \in 1..Len(fs)
  BY <1>1, LoadedFrames, PlayableIs DEF LastIdx
<1>3. CASE AllTimeless(fs)
  BY <1>2, <1>3 DEF AllTimeless, Range
<1>4. CASE Ascending(fs)
  <2>1. PICK target \in Int :
         LET idx == Advance(fs, replay.idx, target) IN
             /\ Ms(fs[replay.idx]) <= target
             /\ clock' = [ms |-> Min({target, Ms(fs[Len(fs)])}), valid |-> TRUE]
             /\ replay'.idx = idx
    BY <1>1, PlayingIs
  <2> DEFINE idx == Advance(fs, replay.idx, target)
  <2>2. /\ idx \in replay.idx..Len(fs) /\ (idx # replay.idx => Ms(fs[idx]) <= target)
    BY <1>2, AdvanceIs
  <2>3. idx \in 1..Len(fs) /\ Ms(fs[idx]) <= target
    <3> HIDE DEF idx
    <3> QED
      BY <1>2, <2>1, <2>2
  <2>4. clock'.ms = IF target <= last THEN target ELSE last
    BY <1>2, <2>1, MinOfTwo
  <2> HIDE DEF idx
  <2>5. Ms(fs[idx]) <= last
    <3>1. Len(fs) \in 1..Len(fs)
      BY <1>2
    <3> QED
      BY <1>2, <1>4, <2>3, <3>1 DEF Ascending, Ms
  <2>6. Ms(fs[idx]) <= clock'.ms
    BY <2>3, <2>4, <2>5
  <2>7. replay'.idx < Len(fs) => clock'.ms < Ms(fs[replay'.idx + 1])
    BY <1>1, <1>2, PlayingEngine
  <2> QED
    BY <2>1, <2>6, <2>7 DEF idx
<1> QED
  BY <1>2, <1>3, <1>4

LEMMA KeepsWatched ==
  ASSUME PageInv, AnimationFrame, clock.valid, cur # None, cur.rec = replay.of, ~JustLoaded,
         lastIdx = replay.idx, clock.ms <= Ms(Frames(replay)[LastIdx(replay)]),
         clock.ms >= Ms(Frames(replay)[replay.idx]), clock'.valid
  PROVE  clock'.ms >= clock.ms
<1> DEFINE fs == Frames(replay)
<1>1. PageType /\ EngineInv /\ clock \in [ms : Int, valid : BOOLEAN]
  BY DEF PageInv, PageType
<1>2. CASE FrameIdle
  BY <1>1, <1>2 DEF FrameIdle
<1>3. CASE FramePaused
  BY <1>1, <1>3 DEF FramePaused
<1>4. CASE FramePlaying
  <2>1. replay.of # None /\ Followed
    BY <1>1, <1>4 DEF FramePlaying, NothingToPlay, EngineInv
  <2>2. /\ LastIdx(replay) = Len(fs) /\ replay.idx \in 1..Len(fs) /\ Len(fs) \in Nat \ {0}
        /\ \A k \in 1..Len(fs) : Ms(fs[k]) \in Int
    BY <1>1, <2>1, LoadedFrames DEF LastIdx
  <2>3. Ms(fs[replay.idx]) <= clock.ms
    BY <1>1, <2>2
  <2>4. PICK target \in Int :
          /\ clock' = [ms |-> Min({target, Ms(fs[Len(fs)])}), valid |-> TRUE]
          /\ clock.ms <= target
    BY <1>1, <1>4, <2>1, <2>3, PlayingIs
  <2>5. Ms(fs[Len(fs)]) \in Int
    BY <2>2
  <2>6. clock'.ms = IF target <= Ms(fs[Len(fs)]) THEN target ELSE Ms(fs[Len(fs)])
    BY <2>4, <2>5, MinOfTwo
  <2> QED
    BY <1>1, <2>2, <2>4, <2>5, <2>6
<1> QED
  BY <1>2, <1>3, <1>4 DEF AnimationFrame

\* For every recording, speed and spacing of animation frames, the clock lies
\* between the frame it shows and the next, and goes back only on a seek.
THEOREM KeepsTime == Spec => PlayheadKeepsTime
<1>1. PageInv /\ [Next]_vars =>
        [FramePlaying =>
           LET fs == Frames(replay) IN
           \/ \A f \in Range(fs) : f.t = NoTime
           \/ /\ Ms(fs[replay'.idx]) <= clock'.ms
              /\ replay'.idx < Len(fs) => clock'.ms < Ms(fs[replay'.idx + 1])]_vars
  BY Brackets
<1>2. PageInv /\ [Next]_vars =>
        [(AnimationFrame /\ clock.valid /\ cur # None /\ cur.rec = replay.of /\ ~JustLoaded
            /\ lastIdx = replay.idx /\ clock.ms <= Ms(Frames(replay)[LastIdx(replay)])
            /\ clock.ms >= Ms(Frames(replay)[replay.idx]) /\ clock'.valid)
           => clock'.ms >= clock.ms]_vars
  BY KeepsWatched
<1>3. Spec => BracketsPlayhead
  BY <1>1, PageInvariant, PTL DEF Spec, BracketsPlayhead
<1>4. Spec => NeverRewinds
  BY <1>2, PageInvariant, PTL DEF Spec, NeverRewinds
<1> QED
  BY <1>3, <1>4 DEF PlayheadKeepsTime
=============================================================================
