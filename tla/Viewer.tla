------------------------------- MODULE Viewer -------------------------------
(***************************************************************************)
(* The browser page that plays a recording: the viewer store's replay      *)
(* slice, the loader effect that fetches a recording when the pair         *)
(* (mode, id) or the retry nonce changes, the playback engine that moves   *)
(* the playhead on every animation frame, the kill feed shown up to the    *)
(* playhead and the overlay that says what the page is waiting for.        *)
(*                                                                         *)
(* JavaScript runs one callback at a time, so a callback is one action;    *)
(* what interleaves are the user's clicks, the responses of fetches in     *)
(* flight (also of loads since cancelled), the animation frames and the    *)
(* overlay's timer.  A frame is named by its recording and its place among *)
(* the playable frames; its data is looked up in the constant Streams.     *)
(***************************************************************************)
EXTENDS Integers, Sequences, FiniteSets, SequencesExt, FiniteSetsExt

CONSTANTS
  Ids,        \* recordings the picker lists
  Streams,    \* [Ids -> sequence of frames as the server sends them]
  NoTime,     \* a timestamp Date.parse rejects
  None,       \* null
  Speeds,     \* playback speeds of the timeline bar
  Deltas,     \* jumps of its two seek buttons, in time units
  Step,       \* longest time between two animation frames, in time units
  FeedMax,    \* KILL_FEED_MAX
  MaxInputs   \* bound: user inputs in a behaviour

\* What the model knows of a frame: its timestamp in milliseconds, the phase
\* of the match, and the rows the kill diff makes of it.
RawFrame == [t : Int \cup {NoTime}, phase : STRING, kills : Nat]

ASSUME ViewerAssumption ==
  /\ None \notin Ids
  /\ \A i \in Ids : Streams[i] \in Seq(RawFrame)
  /\ Speeds \subseteq Nat \ {0} /\ 1 \in Speeds
  /\ Deltas \subseteq Int
  /\ Step \in Nat \ {0}
  /\ FeedMax \in Nat \ {0}
  /\ MaxInputs \in Nat

VARIABLES
  mode,       \* "home" or "replay"
  status,     \* the connection status of the store
  replay,     \* [id, of, idx, playing, speed, base, nonce]
  progress,   \* replayLoad: [active, loaded, total, error]
  loads,      \* the loads started so far: [id, cancelled, meta, frames]
  clock,      \* replayClock: [ms, valid]
  lastIdx,    \* the playback engine's mirror of currentIdx
  cur,        \* curSnap
  lastTeams,  \* lastInProgressTeams: the frame it was taken from
  timeline,   \* the recording replayKillTimeline was computed from
  feed,       \* killFeed, newest first
  lastCount,  \* the feed hook's memory of how many entries it showed
  shown,      \* the phase the overlay last rendered
  inputs      \* user inputs so far

vars == <<mode, status, replay, progress, loads, clock, lastIdx, cur,
          lastTeams, timeline, feed, lastCount, shown, inputs>>
playing == <<clock, lastIdx>>
view == <<timeline, feed, lastCount>>

-----------------------------------------------------------------------------
(* The frames of a recording *)

\* Frames with a usable timestamp, in time order (a stable sort: the n-th is
\* the one not after which there are n); the stream as it came when no
\* timestamp parses.
Usable(stream) == {k \in DOMAIN stream : stream[k].t # NoTime}
UpTo(stream, k) == {j \in Usable(stream) :
                      \/ stream[j].t < stream[k].t
                      \/ stream[j].t = stream[k].t /\ j <= k}
Nth(stream, n) == CHOOSE k \in Usable(stream) : Cardinality(UpTo(stream, k)) = n
InOrder(stream) ==
  IF Usable(stream) = {} THEN stream
  ELSE [n \in 1..Cardinality(Usable(stream)) |-> stream[Nth(stream, n)]]
Playable == [i \in Ids |-> InOrder(Streams[i])]

Frames(r) == IF r.of = None THEN <<>> ELSE Playable[r.of]
LastIdx(r) == Len(Frames(r))

\* snapMs: an unusable timestamp reads as 0.
Ms(f) == IF f.t = NoTime THEN 0 ELSE f.t

\* The binary search of the timeline bar: the first frame not before target.
SeekIndex(fs, target) ==
  Min({k \in 1..Len(fs) : Ms(fs[k]) >= target} \cup {Len(fs)})

\* The kill timeline: one entry per kill, tagged with the frame it fired on.
KillTimeline ==
  LET killsOf(i, k) == [n \in 1..Playable[i][k].kills |-> [rec |-> i, frameIdx |-> k]]
  IN [i \in Ids \cup {None} |->
        IF i = None THEN <<>>
        ELSE FlattenSeq([k \in DOMAIN Playable[i] |-> killsOf(i, k)])]

\* What the feed hook computes: entries up to the playhead, newest first.
ShownCount(tl, idx) == Cardinality({n \in 1..Len(tl) : tl[n].frameIdx <= idx})
FeedAt(tl, count) ==
  Reverse(SubSeq(tl, 1 + (IF count > FeedMax THEN count - FeedMax ELSE 0), count))

-----------------------------------------------------------------------------
NoBase == [snap |-> 0, elapsed |-> 0]     \* baseWallMs = baseSnapMs = 0
Idle == [active |-> FALSE, loaded |-> None, total |-> None, error |-> FALSE]

\* The address bar may open the page in replay mode without a recording.
Init ==
  /\ mode \in {"home", "replay"}
  /\ status = "connecting"
  /\ replay = [id |-> None, of |-> None, idx |-> 1, playing |-> FALSE,
               speed |-> 1, base |-> NoBase, nonce |-> 0]
  /\ progress = Idle
  /\ loads = <<>>
  /\ clock = [ms |-> 0, valid |-> FALSE]
  /\ lastIdx = 0
  /\ cur = None
  /\ lastTeams = None
  /\ timeline = None
  /\ feed = <<>>
  /\ lastCount = -1
  /\ shown = "connecting"
  /\ inputs = 0

Input == /\ inputs < MaxInputs
         /\ inputs' = inputs + 1

\* Mutant: the feed is written only when it grows, as the live one is.
RepaintGrowing(old, replaced, tl, idx) ==
  LET seen  == IF replaced THEN -1 ELSE lastCount
      count == ShownCount(KillTimeline[tl], idx)
  IN /\ feed' = IF count <= seen THEN old ELSE FeedAt(KillTimeline[tl], count)
     /\ lastCount' = count

\* The feed hook, run on every change of the store: a replaced timeline
\* forgets the count, an unchanged count writes nothing.
Repaint(old, replaced, tl, idx) ==
  LET seen  == IF replaced THEN -1 ELSE lastCount
      count == ShownCount(KillTimeline[tl], idx)
  IN /\ feed' = IF count = seen THEN old ELSE FeedAt(KillTimeline[tl], count)
     /\ lastCount' = count

Feed == Repaint(feed, FALSE, timeline, replay'.idx) /\ UNCHANGED timeline

\* Mutant: the effect has no cleanup, an earlier load goes on.
StartLoadBeside(i) ==
  /\ loads' = Append(loads, [id |-> i, cancelled |-> FALSE, meta |-> "wait", frames |-> "wait"])
  /\ progress' = [Idle EXCEPT !.active = TRUE]
  /\ status' = "connecting"

\* The loader effect: every earlier load is cancelled, and in replay mode
\* with an id a new one starts.
StartLoad(i) ==
  /\ loads' = Append([l \in 1..Len(loads) |-> [loads[l] EXCEPT !.cancelled = TRUE]],
                     [id |-> i, cancelled |-> FALSE, meta |-> "wait", frames |-> "wait"])
  /\ progress' = [Idle EXCEPT !.active = TRUE]
  /\ status' = "connecting"

-----------------------------------------------------------------------------
(* User inputs *)

\* Picking a row of the dialog (or of the home page): the id is set, the
\* frames are dropped, setMode clears the feed; the loader effect runs when
\* the id or the mode really changed.
Pick(i) ==
  /\ Input
  /\ replay' = [replay EXCEPT !.id = i, !.of = None, !.idx = 1,
                              !.playing = FALSE, !.speed = 1, !.base = NoBase]
  /\ mode' = "replay"
  /\ timeline' = None
  /\ Repaint(<<>>, TRUE, None, 1)
  /\ IF mode = "replay" /\ replay.id = i
     THEN UNCHANGED <<loads, progress, status>>
     ELSE StartLoad(i)
  /\ UNCHANGED <<playing, cur, lastTeams, shown>>

\* "Try again" on the card of a failed load.
Retry ==
  /\ Input
  /\ shown = "replayerror"
  /\ replay' = [replay EXCEPT !.of = None, !.idx = 1, !.playing = FALSE,
                              !.nonce = @ + 1]
  /\ StartLoad(replay.id)
  /\ Feed
  /\ UNCHANGED <<mode, playing, cur, lastTeams, shown>>

\* The play button and the space bar; at the end, playing starts over.
TogglePlay ==
  /\ Input
  /\ replay.of # None
  /\ replay' = [replay EXCEPT !.playing = ~@, !.base = NoBase,
                              !.idx = IF @ >= LastIdx(replay) THEN 1 ELSE @]
  /\ Feed
  /\ UNCHANGED <<mode, status, progress, loads, playing, cur, lastTeams, shown>>

SeekTo(k) ==
  /\ Input
  /\ replay' = [replay EXCEPT !.idx = k, !.base = NoBase]
  /\ Feed
  /\ UNCHANGED <<mode, status, progress, loads, playing, cur, lastTeams, shown>>

\* The 30 s buttons, along the timestamps.
SeekDelta(d) ==
  /\ replay.of # None
  /\ SeekTo(SeekIndex(Frames(replay), Ms(Frames(replay)[replay.idx]) + d))

\* The slider: a target between the first and the last timestamp.
Scrub ==
  /\ replay.of # None
  /\ LET fs == Frames(replay)
     IN \E target \in Ms(fs[1])..Max({Ms(fs[1]), Ms(fs[Len(fs)])}) :
          SeekTo(SeekIndex(fs, target))

SetSpeed(s) ==
  /\ Input
  /\ replay.of # None
  /\ replay' = [replay EXCEPT !.speed = s, !.base = NoBase]
  /\ UNCHANGED <<mode, status, progress, loads, playing, cur, lastTeams, view, shown>>

-----------------------------------------------------------------------------
(* Responses *)

MetaArrives(l) ==
  /\ loads[l].meta = "wait"
  /\ loads' = [loads EXCEPT ![l].meta = "done"]
  /\ progress' = IF loads[l].cancelled THEN progress
                 ELSE [progress EXCEPT !.total = loads[l].id]
  /\ UNCHANGED <<mode, status, replay, playing, cur, lastTeams, view, shown, inputs>>

MetaFails(l) ==
  /\ loads[l].meta = "wait"
  /\ loads' = [loads EXCEPT ![l].meta = "done"]
  /\ UNCHANGED <<mode, status, replay, progress, playing, cur, lastTeams, view,
                 shown, inputs>>

\* Chunks of the stream: the callback does not know it was cancelled.
Chunk(l) ==
  /\ loads[l].frames = "wait"
  /\ progress' = [progress EXCEPT !.loaded = loads[l].id]
  /\ UNCHANGED <<mode, status, replay, loads, playing, cur, lastTeams, view,
                 shown, inputs>>

\* Mutant: a frame older than the one shown is dropped, as a late tick would be.
IngestNewer(i, k) ==
  /\ cur' = IF cur # None /\ cur = [rec |-> i, k |-> k + 1] THEN cur ELSE [rec |-> i, k |-> k]
  /\ lastTeams' = IF Playable[i][k].phase = "InProgress"
                  THEN [rec |-> i, k |-> k] ELSE lastTeams

\* ingestLive in replay mode: the frame passes untouched, and the teams are
\* remembered while the match is in progress.
Ingest(i, k) ==
  /\ cur' = [rec |-> i, k |-> k]
  /\ lastTeams' = IF Playable[i][k].phase = "InProgress"
                  THEN [rec |-> i, k |-> k] ELSE lastTeams

\* The stream ended.  The flags are written before the cancelled check.
FramesArrive(l) ==
  LET i == loads[l].id IN
  /\ loads[l].frames = "wait"
  /\ loads' = [loads EXCEPT ![l].frames = "done"]
  /\ \/ /\ loads[l].cancelled
        /\ progress' = [progress EXCEPT !.active = FALSE]
        /\ UNCHANGED <<status, replay, cur, lastTeams, view>>
     \/ /\ ~loads[l].cancelled
        /\ Playable[i] = <<>>
        /\ progress' = [progress EXCEPT !.active = FALSE, !.error = TRUE]
        /\ status' = "idle"
        /\ UNCHANGED <<replay, cur, lastTeams, view>>
     \/ /\ ~loads[l].cancelled
        /\ Playable[i] # <<>>
        /\ progress' = [progress EXCEPT !.active = FALSE]
        /\ status' = "replay"
        /\ replay' = [replay EXCEPT !.of = i, !.idx = 1, !.playing = FALSE,
                                    !.base = NoBase]
        /\ timeline' = i
        /\ Repaint(feed, TRUE, i, 1)
        /\ Ingest(i, 1)
  /\ UNCHANGED <<mode, playing, shown, inputs>>

\* Mutant: a failure shows its card and leaves the load marked active.
FramesFailActive(l) ==
  /\ loads[l].frames = "wait"
  /\ loads' = [loads EXCEPT ![l].frames = "done"]
  /\ progress' = [progress EXCEPT !.error = TRUE]
  /\ status' = IF loads[l].cancelled THEN status ELSE "idle"
  /\ UNCHANGED <<mode, replay, playing, cur, lastTeams, view, shown, inputs>>

\* The fetch failed, or the connection dropped half way.
FramesFail(l) ==
  /\ loads[l].frames = "wait"
  /\ loads' = [loads EXCEPT ![l].frames = "done"]
  /\ progress' = [progress EXCEPT !.active = FALSE, !.error = TRUE]
  /\ status' = IF loads[l].cancelled THEN status ELSE "idle"
  /\ UNCHANGED <<mode, replay, playing, cur, lastTeams, view, shown, inputs>>

-----------------------------------------------------------------------------
(* Animation frames *)

NothingToPlay == mode # "replay" \/ replay.of = None

FrameIdle ==
  /\ NothingToPlay
  /\ clock' = [clock EXCEPT !.valid = FALSE]
  /\ UNCHANGED <<mode, status, replay, progress, loads, lastIdx, cur, lastTeams,
                 view, shown, inputs>>

\* Paused: the playhead stays where it stopped unless the user moved it.
FramePaused ==
  /\ ~NothingToPlay
  /\ ~replay.playing
  /\ LET here == Ms(Frames(replay)[replay.idx]) IN
     IF lastIdx # replay.idx
     THEN /\ clock' = [ms |-> here, valid |-> TRUE]
          /\ lastIdx' = replay.idx
          /\ Ingest(replay.of, replay.idx)
     ELSE /\ clock' = [ms |-> IF clock.valid THEN clock.ms ELSE here, valid |-> TRUE]
          /\ UNCHANGED <<lastIdx, cur, lastTeams>>
  /\ UNCHANGED <<mode, status, replay, progress, loads, view, shown, inputs>>

\* Mutant: the anchors are set anew on every animation frame.
NeedsRebaseAlways == replay.base.snap = 0 \/ clock.valid

NeedsRebase == replay.base.snap = 0 \/ lastIdx # replay.idx

\* Where the anchors are set: the frozen playhead while it lies within the
\* current pair of frames, the current frame otherwise.
RebaseAt ==
  LET fs == Frames(replay)
      fa == Ms(fs[replay.idx])
  IN IF /\ clock.valid
        /\ clock.ms >= fa
        /\ replay.idx < LastIdx(replay) => clock.ms < Ms(fs[replay.idx + 1])
     THEN clock.ms ELSE fa

\* Mutant: a frame due this very moment waits for the next one.
AdvanceLate(fs, from, target) ==
  Max({k \in from..Len(fs) : \A j \in from + 1..k : Ms(fs[j]) < target})

\* The largest frame reached by advancing while the next one is due.
Advance(fs, from, target) ==
  Max({k \in from..Len(fs) : \A j \in from + 1..k : Ms(fs[j]) <= target})

FramePlaying ==
  /\ ~NothingToPlay
  /\ replay.playing
  /\ \E dt \in 0..Step :
       LET fs   == Frames(replay)
           base == IF NeedsRebase THEN [snap |-> RebaseAt, elapsed |-> 0]
                   ELSE [replay.base EXCEPT !.elapsed = @ + dt]
           target == base.snap + base.elapsed * replay.speed
           idx == Advance(fs, replay.idx, target)
           end == idx = Len(fs)
       IN /\ NeedsRebase => dt = 0
          /\ clock' = [ms |-> Min({target, Ms(fs[Len(fs)])}), valid |-> TRUE]
          /\ replay' = [replay EXCEPT !.idx = idx, !.playing = ~end,
                                      !.base = IF end THEN NoBase ELSE base]
          /\ lastIdx' = IF NeedsRebase \/ idx # replay.idx \/ end THEN idx ELSE lastIdx
          /\ IF NeedsRebase \/ idx # replay.idx \/ end
             THEN Ingest(replay.of, idx) ELSE UNCHANGED <<cur, lastTeams>>
  /\ Feed
  /\ UNCHANGED <<mode, status, progress, loads, shown, inputs>>

-----------------------------------------------------------------------------
(* The overlay, polled every 100 ms *)

Phase ==
  CASE mode # "replay"    -> "connecting"
    [] progress.active    -> "replayload"
    [] progress.error     -> "replayerror"
    [] OTHER              -> "live"

Poll ==
  /\ shown # Phase
  /\ shown' = Phase
  /\ UNCHANGED <<mode, status, replay, progress, loads, playing, cur, lastTeams,
                 view, inputs>>

-----------------------------------------------------------------------------
User ==
  \/ \E i \in Ids : Pick(i)
  \/ Retry
  \/ TogglePlay
  \/ \E d \in Deltas : SeekDelta(d)
  \/ Scrub
  \/ \E s \in Speeds : SetSpeed(s)

Response ==
  \E l \in DOMAIN loads :
    MetaArrives(l) \/ MetaFails(l) \/ Chunk(l) \/ FramesArrive(l) \/ FramesFail(l)

AnimationFrame == FrameIdle \/ FramePaused \/ FramePlaying

Next == User \/ Response \/ AnimationFrame \/ Poll

Spec == Init /\ [][Next]_vars

\* The browser answers or fails every fetch, and keeps calling back the
\* animation frame with time passing.
Answered(l) == l \in DOMAIN loads /\ (FramesArrive(l) \/ FramesFail(l))
Progressing == FramePlaying /\ clock'.ms # clock.ms
FairSpec ==
  /\ Spec
  /\ \A l \in 1..MaxInputs : WF_vars(Answered(l))
  /\ WF_vars(FramePlaying)
  /\ SF_vars(Progressing)
  /\ WF_vars(Poll)

-----------------------------------------------------------------------------
(* Properties *)

TypeOK ==
  /\ mode \in {"home", "replay"}
  /\ status \in {"connecting", "replay", "idle"}
  /\ replay.id \in Ids \cup {None}
  /\ replay.of \in Ids \cup {None}
  /\ replay.idx \in 1..Max({1, LastIdx(replay)})
  /\ replay.playing \in BOOLEAN
  /\ replay.speed \in Speeds
  /\ progress.loaded \in Ids \cup {None}
  /\ progress.total \in Ids \cup {None}
  /\ shown \in {"connecting", "replayload", "replayerror", "live"}

\* The frames on screen, and the kill timeline computed from them, are those
\* of the recording the user picked last, whatever loads were still in
\* flight when they were picked and in whatever order these end.
ShowsPicked ==
  /\ replay.of \in {None, replay.id}
  /\ timeline \in {None, replay.id}
  /\ progress.total \in {None, replay.id}

\* The playhead is on a frame of what is loaded (TypeOK), and the feed shows
\* exactly the kills up to it, newest first, across seeks, switches and reloads.
FeedMatchesPlayhead ==
  /\ TypeOK
  /\ mode = "replay" =>
       feed = FeedAt(KillTimeline[timeline], ShownCount(KillTimeline[timeline], replay.idx))

\* After an animation frame of a playing recording, currentIdx is the last
\* frame not later than the published playhead, which the canvas relies on
\* to bracket it.
BracketsPlayhead ==
  [][FramePlaying =>
       LET fs == Frames(replay) IN
       \/ \A f \in Range(fs) : f.t = NoTime
       \/ /\ Ms(fs[replay'.idx]) <= clock'.ms
          /\ replay'.idx < Len(fs) => clock'.ms < Ms(fs[replay'.idx + 1])]_vars

\* A load puts the first frame on the panels and leaves the engine's mirror
\* of the index and its clock as the recording shown before left them, until
\* an animation frame corrects them.
JustLoaded ==
  /\ replay.of # None /\ cur = [rec |-> replay.of, k |-> 1]
  /\ \/ lastIdx # 1
     \/ LET fs == Frames(replay) IN
        Len(fs) > 1 /\ clock.ms > Ms(fs[1]) /\ clock.ms >= Ms(fs[2])

\* Pausing, resuming and changing the speed never take the playhead back
\* over what was already watched: a frame moves it back only after a seek,
\* or when it is the first one after a load.
NeverRewinds ==
  [][(AnimationFrame /\ clock.valid /\ cur # None /\ cur.rec = replay.of /\ ~JustLoaded
        /\ lastIdx = replay.idx /\ clock.ms <= Ms(Frames(replay)[LastIdx(replay)])
        /\ clock.ms >= Ms(Frames(replay)[replay.idx]) /\ clock'.valid)
       => clock'.ms >= clock.ms]_vars

\* What the panels read (curSnap) catches up with the playhead within one
\* animation frame, paused or playing; only a seek made before the first
\* frame after a load, to the very place the recording before was left at,
\* is not seen while paused.
PanelsFollowPlayhead ==
  [][FramePaused \/ FramePlaying =>
       \/ cur' = [rec |-> replay'.of, k |-> replay'.idx]
       \/ FramePaused /\ JustLoaded /\ lastIdx = replay.idx]_vars

\* A load ends: the loading card does not stay for ever.
LoadingEnds == progress.active ~> ~progress.active

\* Played without interruption, a recording reaches its end and stops there.
PlaybackEnds ==
  (replay.playing /\ inputs = MaxInputs) ~> ~replay.playing

\* The playhead keeps time: it brackets its frames while playing, and goes
\* back only on a seek.
PlayheadKeepsTime == BracketsPlayhead /\ NeverRewinds
=============================================================================
