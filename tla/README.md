# Verification of squadreader

squadreader is an agent that runs beside a Squad game server, reads the
server's memory some times a second, records every match to a file, keeps
player statistics in SQLite and pushes finished matches to a central server. A
browser viewer plays the recordings back. This directory holds TLA+ models of
two halves of it: on the agent, the parts that decide *which match is being
played and when it is over*; in the viewer, the way *from the lines of a
recording to what is on the screen*, under whatever the user does and however
late a fetch is answered. With them come the TLC configurations that check the
models, and TLAPS proofs of the properties that matter most. Paths below are
relative to the repository's root, `src/`.

What makes the agent's decision hard: the reader copies memory of another
process while that process writes it. A frame can claim a state or a match id
that is torn, frames are lost, disks fill up, and the agent is killed at any
moment. A wrong decision publishes a match that is still being played (which
gives away player positions), mixes two matches in one recording, or loses one.

What makes the viewer hard: nothing in it waits. Fetches, animation frames,
timers, clicks and fingers call back in any order over shared refs and stores;
the same fact (who leads a squad, what is drawn, which frame the playhead is in)
is worked out in several places from the same frame; and the recording has
differences, position frames, gaps and unreadable values in it.

## Inventory

| Component | State | Operations | Speaks to | Status |
|---|---|---|---|---|
| game reader: `sqreader/squad/snapshot.py`, `ue/`, `mem.py`, `scanner.py` | caches of classes and names | `build_snapshot`, `partial_invalidate`, `reset` | game memory; gives a frame to the serve loop | what a frame can claim of match state and id: `GameReader` |
| recorder: `sqreader/recorder.py`, `recording_lifecycle.py` | the state box of `_handle_snap` (writer, `pending_match_buffer`, `filename_buffer`, counters), recordings and sidecars on disk | `_handle_snap`, `write_position_frame`, `finalize_recording` | called by the serve loop; its files are read by the HTTP gate and the push | `Recorder`, `RecordingArchive`, `RecorderOpening` |
| statistics store: `sqreader/stats.py`, `elo.py` | the `matches` table, ratings, `_open_match_id`, `_inactive_ticks` | `record_tick`, `finalize_open_match`, the startup sweep, `stats-elo-recalc` | called by the serve loop; calls the push queue through `on_finalize` | `StatsStore` |
| push queue: `sqreader/ingest_client.py` | a marker file per match, `.push.seq` | `enqueue`, `flush_backlog` | statistics from the store, replay from the recordings; central server over HTTP | `PushBacklog` |
| serve loop: `sqreader/cli.py` | the last frame, the last consumed generation | `_consume_full`, the two loops, the `finally` clause | all of the above | the steps that feed recorder, store and queue |
| build worker: `sqreader/squad/buildworker.py` | latest-wins slot, generation, failures in a row | spawn, ingest, back off, stop | frames to the serve loop over a pipe | skipped and renumbered frames |
| position sampler: `sqreader/squad/possample.py` | the actors of the last full frame | `sample_positions` | frames to the recorder | which match's actors it follows |
| viewer state: `frontend/src/state`, `api`, `App.tsx` | the zustand store, playhead, unpacker, ticket analysis | pick, load, cancel, retry, unpack, seek, play | recordings over HTTP; feeds canvas and panels | `Viewer`, `ReplayLoad`, `ReplayWire`, `TicketTimeline`; the live mode left out |
| kill feed: `frontend/src/killfeed` | baseline of deaths, attack buffer, seen attacks | `diffSnapshot`, repaint up to the playhead | frames | `KillFeed`, `Viewer`; the live hook left out |
| viewer map: `frontend/src/canvas` | view, gesture refs, ruler, round tracker, fitted rectangle | mouse, touch, wheel, paint, hit test, interpolate | viewer state | `MapView`, `Painting`, `Icons`, `Captures`, `Rounds`, `Motion`, `Fit` |
| viewer panels and pages: `frontend/src/ui` | highlight of the search, the dashboard's state, the clip's recorders | panels, scoreboard, ticket graph, result card, dashboard, clips | viewer state, statistics over HTTP | `VehiclePanel`, `RosterPanels`, `HudPanels`, `Pages`, `Loading` |
| viewer catalogues: `frontend/src/data` | tables filled at load time, chunks imported on demand | look up a loadout, a picture, a weapon | panels and icons | `VehicleLoadouts` (one class of each family), `Icons`, `Loading` |
| HTTP recording gate: `sqreader/httpsrv.py` | `_MetaCache` | `get`, self-heal | sidecars the recorder replaces meanwhile | not modelled |
| updater: `sqreader/updater.py` | marker, binary, rollback copy | stage, swap, boot attempts, confirm, roll back | serve loop's restart gate, service manager | not modelled |
| offset packs: `sqreader/offset_client.py`, `cli.py` `_selfheal` | committed pack, offset tables | apply, verify, commit, revert | central server, reader | not modelled |
| synthetic match ids: `sqreader/synth_match.py` | the held match, the one being confirmed, a state file | `apply`, persist | rewrites a frame's id before the recorder sees it | not modelled |
| delta walk: `sqreader/squad/walkdelta.py` | previous columns, ledger | `walk`, `adopt` | reader | not modelled |
| log tailer: `sqreader/squad/logtail.py` | pending hits, wounds, event buffer | `feed`, `drain`, rotation | the game's log; events into frames | not modelled |
| SQRX container: `sqreader/sqrx.py` | bytes of a file | `write_line`, `lines` | recorder, gate, viewer | not modelled |
| fleet check-in, credentials, envelope | restart counter | check-in | central server | not modelled: I/O and cryptography |
| plugins | detector state, queue of alerts | `on_snapshot`, notify | frames, store | not modelled: heuristics |
| configuration, packaging, scripts | none | | | not modelled |

The calls of one full frame, in `_consume_full`: synthetic id, log events, tee,
recorder (`_handle_snap`), statistics (`record_tick`), plugins. Each is
contained: an exception in one does not keep the next from running, which is
why recorder and store can come to different conclusions about a match.

The way of a recording in the viewer: the picker sets the id; the loader effect
fetches metadata and frames; each line is unpacked, folded into a snapshot and
kept; when the last has come, the kill feed and the ticket analysis are computed
over all of them. The playback engine moves the playhead, which hands the frame
under it to the store; canvas and panels read the store.

Hard behaviours, by kind (`PROJECT.json` lists each at its line):

- *order and confirmation*: an end, or another match, must be seen in
  `MATCH_TRANSITION_CONFIRM_TICKS` frames in a row; frames can be missing
  between them;
- *crashes*: a writer, a transaction, a queue marker or a binary is left between
  two steps; the next start must make sense of it;
- *partial failure*: a buffer flushed half-way, a sidecar that cannot be written
  after its recording was closed, a rollback; in the viewer a catalogue that does
  not come, a turret that was not read;
- *retries*: the central server's answer is lost and the request repeated;
- *two processes*: maintenance commands and the HTTP gate work on the files of a
  running recorder and store;
- *late answers*: a fetch of a recording, a board or a profile is answered when
  something else has been picked;
- *stale refs*: wall-clock anchors of playback, gesture refs, tracks of rounds and
  the row count of the feed outlive the frame they were taken from;
- *agreement*: picture and cursor, board and panel, pause and play, feed and
  graph each work out the same thing.

What makes each modelled component correct:

- recorder: a recording holds one match; it is finalized only if the match is
  over; frames are in order; a recording closed with a verdict is not touched
  again; a live match gets onto disk in time;
- store: a verdict `finalized` is true and is never withdrawn; exactly the
  running store's current match has an open row; a match counts once in the
  ratings and only if its end was seen; no live match is published;
- push queue: an announced match's verdict, and its replay when replays are
  sent, reach the central server in the end;
- loading: what comes out of the decoder is what the agent saw; a death is one
  row, credited to somebody who did hit the victim, and no ticket loss is billed
  twice;
- viewer state: the page shows the recording picked last; feed and panels agree
  with the playhead; loads and playback end;
- map: the camera follows only what has its panel; gestures end with the buttons
  and fingers; the picture does not jump;
- panels and pages: nothing that was read is lost or told twice, and two places
  that tell the same thing agree.

## Modules

    GameReader            the game, and what a torn frame can claim of it
      Recorder            recorder.py, both serving modes, process lifetime
        RecorderOpening   plus a history, to say when a match must be on disk
        RecorderProofs    proofs: types, one match per file, finalized only
                          when over, implements the archive, closed stays
                          closed, frames in order, a live match is on disk
                          in time
      StatsStore          stats.py and elo.py's control, maintenance commands
        PushBacklog       plus the queue behind on_finalize, central server
        StatsStoreProofs  proofs: types, open row, ratings, finalized when
                          over, verdicts stand, ratings are verified
    RecordingArchive      abstract specification that Recorder implements

    ReplayBasics          helpers of the viewer's modules
      ReplayWire          encoder of the server, unpacker and reconstructor
      KillFeed            killfeed/diff.ts
      TicketTimeline      state/ticketTimeline.ts, ticketCosts.ts
        ReplayLoad        the three composed, over a match and its sampling
          ReplayLoadProofs    proof: what is decoded is what was seen; losses; rows; credits
      VehicleLoadouts     data/vehicleLoadouts.ts
        VehiclePanel      ui/VehiclePanel.tsx
      Icons               canvas/icons.ts, markerGeometry.ts, assetProviders.ts
        Painting          canvas/draw.ts, hitTest.ts, mapFallback.ts, ruler.ts
      RosterPanels HudPanels Captures Rounds Motion Fit Pages Loading
        Screen            the ten parts side by side
          ScreenProofs    proofs: motion, loading, dashboard, strips, rounds
            PanelProofs   proofs: the vehicle's panel and its catalogue, the
                          rosters, the fitted rectangle, the painted scene
    Viewer                picking, loading, playback, feed, overlay
      ViewerProofs        proofs: the page shows what was picked, feed, panels
                          and clock follow the playhead
    MapView               camera, gestures, panels
      MapViewProofs       proofs: the camera's panel, the end of gestures, the
                          picture and the measurement stay
    DataLemmas            lemmas: least counterexample, least and greatest
                          members, flattened sequences
    MC*                   instances for TLC

### GameReader

`live` is the match the server plays, `seen` those it has played. A reading is
the truth, or one of the ambiguous kinds (`NoId`: InProgress without an id;
`Unreadable`), which prove nothing and are always possible, or torn: another
state, or another id. A torn id is garbage, or that of an earlier match if
`StaleIds`; it is never that of a match that has not been played. `tornRun`
counts torn readings in a row.

*The assumption on the environment* is `TornAssumption`: fewer than `Confirm`
readings in a row are torn. The confirmation count in the code is a bet on just
this, so a finality property without it would be false of any program of this
design.

### Recorder

State: `current`, `last_tick`, `inactive_ticks`, `pending`, `filename_buffer`
and `preopen_idle_ticks` are the entries of `state_box`; `files` is the
recordings directory, where a file is reduced to its frames' ids and ticks, the
matches its position frames follow, whether its writer is closed, and its
sidecar's state. `HandleSnap` is the whole of `_handle_snap`: the tick-sequence
check first, then one operator per branch (`OnAmbiguous`, `OnIdle`,
`OnInactive`, `OnSameMatch`, `NothingOpen`, `OnOtherMatch`). `OpenOrBuffer` is
the (re)open with its three ways to fail: the file cannot be created, the
sidecar cannot be written, a frame of the buffer cannot be written. `named` says
whether the layer name is known.

`Spec` is single-tier serving: `cmd_serve` numbers the frames, so a gap is
always visible. `TwoTierSpec` adds position frames and a build worker which,
when it is respawned, numbers its frames from 1 while the recorder goes on.
`SkippedFrame` is a frame that was built and never consumed. `Shutdown` is
serve's `finally` clause, `Crash` a kill.

`RecordingArchive` is what a reader of the recordings directory is promised, in
five actions without buffers or counters; `KeepsArchive` says that `Recorder`
implements it, under the refinement mapping at the end of `Recorder`.

`RecorderOpening` runs the recorder with a history variable `run`, the latest
frames in a row that name one match, and says that a match with enough of them
is being recorded. It leaves process stops out: the history forgets them.

### StatsStore

State: `rows` (status and end state of each match's row), `rated`, and the
attributes `open` and `inactive_ticks`. `record_tick` is `RecordTick`, one
operator per branch; every branch that writes is one transaction, which commits
(`Commits`), rolls back (`RollsBack`), or commits and is followed by a kill
before the hook runs. `fired` is the set of ids the hook was called with in the
last step. `rateable` stands for "large and long enough".

`SteadySpec` lets every frame that is built reach the store; `Spec` adds skipped
frames.

### PushBacklog

Composes `StatsStore` with the queue: each step of the store enqueues what it
announced. A flush is one request at a time; its answer may be lost after the
central server has accepted it; the agent may be killed between writing a marker
and unlinking it. `replays` stands for the recorder: a recording becomes
sendable once its match is over, before or after its statistics are announced.
Central's row is remembered as the verdict it carried.

### ReplayLoad: ReplayWire, KillFeed, TicketTimeline

`ReplayLoad` begins outside the viewer. `world` is a match in which players are
hit, die, bleed out, are revived, respawn, reconnect under another id, change
squad and mount a vehicle; `Sample` is what the agent sees of it and `enc` the
server's encoder of format 2, both external, modelled from what the decoder
takes for granted. One step is one line of the recording: `FullLine`,
`PositionLine`, or `OtherLine`, a line the reader has to skip.

`ReplayWire` is the two layers of decoding. `Unpack` is `ReplayUnpacker.push`:
the tables of keyed entities, the order of a full list, the difference against
the last full frame, `Patch` for a field that has gone. `Reconstruct` folds a
position frame into the snapshot before it. `PushLine` is `pushLine` of
`recordings.ts`. `KillFeed` is `diffSnapshot` as a function of its state: the
counters of deaths, the buffer of attacks with its time to live and limit, the
memory of attacks already seen, the crediting of a death. `TicketTimeline` is one
step of `computeTicketAnalysis`.

The variables `hits`, `shown`, `credited`, `missed`, `lost`, `killed` and `timed` are
history: what the match did, kept to be compared with what feed and analysis say.
`timed` is the game time up to which the feed has dropped old attacks: a frame without
a game time, or of a broken match (`Broken`), does not age the buffer, so an attack
may still be credited after more than `AttackTtl` seconds.
`missed` counts the deaths the code rightly does not show: of somebody who was
not in the frame before, whose name is not known, or between two rounds.

`source` says where the damage events of this server come from, and never changes:
as a rule from the game's log (`squad/logtail.py:278-298`, `cli.py:1085-1088`), which
names the victim without his id, and where no log is found from the game's memory
(`squad/snapshot.py`), which gives the id too. With the log a victim is whoever has
his name (`SameVictim`).

### Viewer

JavaScript runs one callback at a time, so a callback is one action and its
effects are part of it: an input that changes the picked recording cancels the
loads before it and starts one (`StartLoad`, the effect of `useReplayLoader`),
and every step that moves the playhead ends with the feed's effect (`Feed`).
`loads` holds every load that was ever started, since a fetch that was cancelled
still answers: `MetaArrives`, `Chunk`, `FramesArrive`, `FramesFail` for each.
`FrameIdle`, `FramePaused` and `FramePlaying` are the three paths of `tick` in
`playback.ts`; `replay.base` is its wall-clock anchor and `NeedsRebase` its three
tests. `Poll` is the overlay's timer. A frame is named by its recording and its
place; its time, phase and kills are looked up in the constant `Streams`.

### MapView

The map is a line, since both axes are handled alike. `Draw` is an action of its
own: clicks hit the frame that was drawn last and the view it was drawn with
(`shown`), not the newest ones. `drag`, `down`, `measuring` and `gesture` are the
refs of `MapCanvas.tsx`, `buttons` and `fingers` what the user really holds.
`WithVehicle`, `WithPlayer` and `WithInfo` are the three setters of the store,
`Closed` and `Clicked` the `onClick` of `App.tsx`; search, kill feed, scoreboard
and panels open and follow through them, each in its own way.

### Screen and its ten parts

Each part draws or answers for itself: it reads the frame on display and its own
state and writes nothing another reads. `Screen` therefore puts them side by side:
a behaviour is one of a single part, the others being off the page (`...Off`), and
one run checks them all. The actions of a part are what the next frame, the user
or the browser can bring; its operators are the functions of the source.

| Module | Source | A step is |
|---|---|---|
| `VehiclePanel`, `VehicleLoadouts` | `ui/VehiclePanel.tsx`, `data/vehicleLoadouts.ts` | the next frame brings other turrets, seats, men, parts; the catalogue is what the file's statements leave behind |
| `RosterPanels` | `ui/Scoreboard.tsx`, `PlayerPanel.tsx`, `PlayerSearch.tsx`, `entityInfo.ts`, pins and order lines of `canvas/draw.ts` | a man joins, leaves, is promoted, hit, scores; the user types, goes through the list by keys or mouse, picks, clears |
| `HudPanels` | `ui/MatchOverlay.tsx`, `TicketTimeline.tsx`, `KillFeed.tsx` | the playhead goes on, or a click on the graph |
| `Captures` | `canvas/capVisibility.ts`, `drawLane`, `drawCaps`, `drawLaneNodeCaps` | the lane is rolled, a zone is unlocked, taken, left half taken, captured, locked again, not read |
| `Rounds` | `canvas/projectiles.ts` | a paint, or the next frame's rounds under kept or new ids |
| `Motion` | `canvas/interpolation.ts`, the replay branch of the paint loop | somebody goes, boards, respawns, a vehicle and its turret turn, a round flies, a flag is worked at; the playhead moves |
| `Fit` | `autoFit`, `refitAspect` of `canvas/worldToScreen.ts` | a resize |
| `Painting`, `Icons` | `canvas/draw.ts`, `icons.ts`, `hitTest.ts`, `ruler.ts`, `mapFallback.ts`, `data/assetProviders.ts` | a picture arrives, a layer is switched, somebody is followed, the next scene |
| `Pages` | `ui/PlayerStats.tsx` | a click, an answer in any order, a failure |
| `Loading` | `data/staticCatalogs.ts`, `ui/ClipRecorder.tsx` | a panel mounts, a chunk comes or fails, the recorder's events |

Their properties are conjunctions of named parts, so that one name stands for
what a part of the screen promises:

| Property | Conjuncts |
|---|---|
| `VehicleAccounted` | `EveryGunOnce`, `GunAtItsSeat`, `EveryManOnce`, `PartsShown` |
| `RosterAgrees` | `EveryoneHasRow`, `LeadersOnTop`, `DownedAgrees`, `LinesNamePlacer`, `PicksFromList` |
| `HudAgrees` | `LinesJoinReadings`, `ClickHitsMoment`, `CauseToldOnce`, `ResultStands` |
| `ZonesAgree` | `FogLifts`, `ContestReads`, `LaneThreadsFlags`, `MarksAreHit` |
| `RoundsAgree` | `RingsDontStack`, `TrackerBounded`, `LostOnesBurst` |
| `MotionAgrees` | `NoSliding`, `RidersGlide`, `TurnsShortWay`, `EndsMeet` |
| `SceneAgrees` | `UnderAndOver`, `NothingVanishes`, `ClickableIsDrawn`, `ChoiceKept` |
| `MarksTell` | `SpotlightOnSquad`, `OneNumberEach`, `TurretOnItsHull`, `LeadersLookIt`, `RulerReads` |
| `PagesSettle` | `SpinnersEnd`, `HeatmapSettles`, `ProfileAsClicked` |
| `LoadsWhole` | `CatalogsRetried`, `ClipIsOneRecording` |

`OverItsMap` of `Painting`, which map is under the picture, is checked by itself.

In the same way `CreditIsDue` is `TypeOK`, `KillerDidHit` and `CreditedOnce`;
`LossesExplained` is `LossesAddUp` and `CausesBounded`; `PlayheadKeepsTime` is
`BracketsPlayhead` and `NeverRewinds`; `PictureHolds` is `PressKeepsPicture` and
`ZoomKeepsPoint`; `CameraHasPanel` is `FollowHasPanel` and `InfoStandsAlone`;
`CentralCatchesUp` is `VerdictReachesCentral` and `ReplayReachesCentral`.
`FeedMatchesPlayhead` and `GesturesEnd` include the `TypeOK` of their module.

Some operators are named for a slip (`BufferedMixed`, `BootUnswept`,
`StartLoadBeside`, `PatchKeeping`): they are mutated forms of the definition
after them. Substituted for it, they must make a property fail, which shows that
the property depends on that piece of code.

## Runs

| Run | Configuration | Question | Result |
|---|---|---|---|
| `recorder` | single-tier, torn ids of earlier matches, a failing write, a restart | Do recordings stay unmixed, in order, truly finalized, and does the recorder implement `RecordingArchive`? | holds |
| `recorder_two_tier` | position frames, respawned worker, a restart | Types, and no write to a closed recording, in two-tier mode | holds |
| `recorder_opening` | `Confirm` = 3 as in the code, skipped and torn frames | Is a live match on disk in time? | holds |
| `stats` | `Confirm` = 3, a rollback, two restarts, every frame consumed | Types, the open row, true and lasting verdicts, ratings only of verified matches | holds |
| `stats_stale` | skipped frames and torn ids of earlier matches | Is no match rated twice? | holds |
| `stats_torn_id` | one torn id | Is only a match that is over published? | violated |
| `push` | replays or not, lost answers, a kill | Do verdict and replay reach the central server in the end? | holds |
| `replay_load` | full, position and unreadable lines of a match with every kind of death and loss | Is the decoded frame the sampled one, each death one row, each credit due, each loss explained? | holds |
| `replay_stale` | the same, events from memory | Did a named killer hit the victim in the life that ended? | violated |
| `viewer` | four recordings, three inputs | Does the page show what was picked, do feed, panels and playhead agree, do loads and playback end? | holds |
| `map_view` | two buttons, two fingers, wheel, keys, picks | Has the camera its panel, do gestures end, does the picture hold, does the measurement stay? | holds |
| `screen` | the ten parts, each in turn | Do the parts of the screen tell all there is, once, and the same? | holds |

`OneMatchPerFile` and `FinalizedIsOver` hold in two-tier mode and single-tier mode
respectively by proof, `OpenRowIsCurrent` with stale ids too; runs that only
repeated them are not kept.

### Bounds

- *Matches*: two, so that one can follow another, be superseded by it, and
  be claimed by a torn id while the other is played; `Garbage` adds an id that no
  match ever has (`recorder`, the largest run of the recorder, does without).
  Matches are interchangeable until the game plays them, so symmetry over them is
  sound for the invariants and action properties it is used with. The liveness run
  has one match, one garbage id and no symmetry.
- *Confirm* is 3 in the code and in the runs where the count itself matters
  (opening, store). `recorder`, `recorder_two_tier` and `push` use 2, the least
  value for which a confirmation has a first and a last frame that differ, because
  their state is large; `NameLimit` is `Confirm` + 1 rather than 10 for the same
  reason: what matters is that it lies beyond `Confirm`.
- *MaxTorn* is `Confirm` - 1: the most the assumption allows.
- *MaxTick*, *MaxFaults*, *MaxRestarts* bound the frames of one producer, failing
  writes or rollbacks, and stops. A recording is opened, interrupted and closed
  within four to six frames; one fault at every possible place and one or two
  restarts at every possible place cover the hand-offs between them. They are
  guards of the actions that count, so TLC sees no cut-off transition; and the
  proofs below do not depend on them.
- *viewer*: an ordinary recording, one whose stream is out of order and holds an
  unusable timestamp, an empty one, and one with no usable timestamp at all.
  `MaxInputs` = 3 lets a pick be superseded by a second pick or a retry and the
  result be played or sought. `Step` = 2 jumps over a frame, or not; `FeedMax` = 1
  makes the feed overflow; speeds 1 and 2, jumps of 3 either way.
- *replay_load*: five players, one without a stable id, two of one name on
  opposite teams and one whose name is not known; events of the log and of memory.
  Four full lines, one or two hits between two of them, and up to two position lines
  in a row before the first full line and after the second (`PosAfter`, `MaxPos`):
  enough for an attack to age beyond `AttackTtl` = 1, with frames in between that do
  not age the buffer, and for `BufferMax` = 2 and `SeenMax` = 3 to be reached and
  trimmed. *replay_stale* has five full lines and keeps an attack for longer, as
  there is a life between it and the death.
- *map_view*: two players, a vehicle and an object over two frames, in the second
  of which somebody has moved, somebody has no position and the object is gone.
  `MaxInputs` = 4 presses, keys and picks: two buttons pressed and released in any
  order, or a panel opened, followed and closed. `MaxPan` bounds only how far
  pinching to and fro drifts the camera. About 1.7 million states.
- *screen*: seven vehicle classes (one of each family of the catalogue, an alias,
  one it does not have), two rosters of four men, of whom three fit what is typed and the
  list shows two (`MaxResults`; 14 in the code), recordings of four frames with gaps, equal
  times and an end, a lane of three depths with a branching node, three rounds,
  three scenes. `MaxScore` = 1 puts a man before another of his fire team. A zone is
  matched to a flag one place away (`MatchReach`), and the cursor is zoomed in so far
  that the zone is out of its reach, or out so far that it is not (`Hovers`). Frames
  follow each other at once or after two units (`Ticks`): then `FootFloor` and
  `RideFloor` decide what is a jump, or the speeds do; three states of turret, round and
  flag (`Rests`) hold a turn over 180 degrees and each thing missing. At `Zoom` = 2 a
  drag of 3 is shorter than both `FenceMin` and `ArrowMin`, one of 10 is long enough for
  the frontline only, one of 30 for both. Sides
  of what is fitted are multiples of 512 (`Pad`, `Grain`), so that no refit leaves a
  remainder. `MaxZoneEvents` = 4, `MaxPaints` = 5, `MaxResizes` = 3, `MaxClicks`
  = 2, `MaxAsks` = 3, `MaxMounts` = 3, `MaxClips` = 3. Within them every branch of
  the parts is taken and every pair of answers comes in either order.
- Deadlock is not checked where a system may stop: the game may end for good, a
  recording may be read to its end, a user may stop clicking. `map_view` checks it:
  there the next frame can always come.

### Fairness

`FairPushSpec`: `WF(BootsPushing)`, since the unit is `Restart=always`.
`SF(StatsAccepted(i))` and `SF(ReplayAccepted(i))`: the serve loop flushes every
30 seconds for as long as a marker is there and tries every marker in each
pass, so a central server that is reachable again and again accepts each one in
the end. Nothing is assumed of the game, of the frames or of the end of a
recording: the properties start from an announced match, and the one about the
replay from a recording that has been finalized.

`FairSpec` of `Viewer`: each fetch of a load is answered or fails (`WF`; the
browser settles every promise of `fetch`), the overlay's timer fires (`WF(Poll)`),
animation frames are delivered while the recording plays (`WF(FramePlaying)`), and
again and again with time having passed since the last (`SF(Progressing)`: the
timestamps of `requestAnimationFrame` increase; single frames may carry the same
one). Nothing is assumed of the user, who may stop or go on clicking; `PlaybackEnds`
starts when he has stopped.

## What is proved

For every set of matches, players and recordings and every value of the bounds,
with TLAPS:

| Theorem | Module | States |
|---|---|---|
| `RecorderTyped` | `RecorderProofs` | `TwoTierSpec => []TypeOK` |
| `RecordingsUnmixed` | `RecorderProofs` | `TwoTierSpec => []OneMatchPerFile` |
| `FinalizedOnlyWhenOver` | `RecorderProofs` | `Spec => []FinalizedIsOver` (recorder) |
| `ClosedForGood` | `RecorderProofs` | `TwoTierSpec => ClosedStaysClosed` |
| `RecorderKeepsArchive` | `RecorderProofs` | `Spec => KeepsArchive`, the refinement |
| `RecordedInOrder` | `RecorderProofs` | `Spec => []FramesInOrder` |
| `MatchesOpenInTime` | `RecorderProofs` | `OpeningSpec => []OpensInTime` |
| `StoreTyped` | `StatsStoreProofs` | `Spec => []TypeOK` |
| `OneOpenRow` | `StatsStoreProofs` | `Spec => []OpenRowIsCurrent` |
| `RatedAtMostOnce` | `StatsStoreProofs` | `Spec => []RatedOnce` |
| `StoreFinalizesWhenOver` | `StatsStoreProofs` | `SteadySpec => []FinalizedIsOver` (store) |
| `RatingsAreVerified` | `StatsStoreProofs` | `SteadySpec => []RatedIsVerified`, if `~StaleIds` |
| `VerdictsStand` | `StatsStoreProofs` | `SteadySpec => VerdictStands`, if `~StaleIds` |
| `DecodesToSeen` | `ReplayLoadProofs` | `Spec => []DecodedIsSeen` |
| `LossesHaveCauses` | `ReplayLoadProofs` | `Spec => []LossesExplained` |
| `EveryDeathIsOneRow` | `ReplayLoadProofs` | `Spec => []OneRowPerDeath` |
| `CreditGoesToHits` | `ReplayLoadProofs` | `Spec => []CreditIsDue` |
| `PickedIsShown` | `ViewerProofs` | `Spec => []ShowsPicked` |
| `FeedFollows` | `ViewerProofs` | `Spec => []FeedMatchesPlayhead` |
| `PanelsFollow` | `ViewerProofs` | `Spec => PanelsFollowPlayhead` |
| `KeepsTime` | `ViewerProofs` | `Spec => PlayheadKeepsTime` |
| `CameraKeepsPanel` | `MapViewProofs` | `Spec => []CameraHasPanel` |
| `HandsLetGo` | `MapViewProofs` | `Spec => []GesturesEnd` |
| `PictureStays` | `MapViewProofs` | `Spec => PictureHolds` |
| `MeasurementHolds` | `MapViewProofs` | `Spec => MeasurementStays` |
| `PlacesGlide` | `ScreenProofs` | `ScreenSpec => []MotionAgrees` |
| `PiecesMakeWhole` | `ScreenProofs` | `ScreenSpec => []LoadsWhole` |
| `DashboardSettles` | `ScreenProofs` | `ScreenSpec => []PagesSettle` |
| `StripsAgree` | `ScreenProofs` | `ScreenSpec => HudAgrees` |
| `RoundsBurstOnce` | `ScreenProofs` | `ScreenSpec => RoundsAgree` |
| `ZonesHold` | `ScreenProofs` | `ScreenSpec => []ZonesAgree` |
| `PanelAccounts` | `PanelProofs` | `ScreenSpec => []VehicleAccounted` |
| `RostersAgree` | `PanelProofs` | `ScreenSpec => RosterAgrees` |
| `FitKeepsAll` | `PanelProofs` | `ScreenSpec => []FitHoldsAll` |
| `ScenePainted` | `PanelProofs` | `ScreenSpec => []SceneAgrees` |
| `MarksSpeakTrue` | `PanelProofs` | `ScreenSpec => []MarksTell` |

They rest on `TornAssumption` and the assumptions on the constants, which TLC
evaluates in the runs: `ReaderAssumption`, `StoreAssumption`,
`ConstantsAssumption` (thresholds), `ViewerAssumption` (a recording is any
sequence of frames, with or without a usable time), `MapViewAssumption` and
`NoneAssumption`, `MotionAssumption` (places, speeds, floors and times are integers, and a
vehicle's speed and floor are no less than a man's),
`OffersAssumption` (each server offers a sequence of layers), `ReplayAssumption` (the
roster is a sequence with the player who reconnects on it, null is no number, the
teams start with a whole number of tickets and the car has a cost), `RosterAssumption`
(nobody is on the roster twice; two players are never known by the same id, a name
standing in for a missing one, and two of one name are on different teams; whoever
hits, falls or mounts is on the roster, and the gunner is not the one who reconnects),
`CreditAssumption` (of two who share a name both have a stable id, which matters where
the events give one, two who hit the
same player do not share a name, whoever hits has one, and the time to live and the
bounds of the buffers are natural numbers), `RoundsAssumption` (rounds are numbered as
they are fired, and a ring is over before its hit is forgotten, `IMPACT_MS <= STALE_MS`),
`VehicleAssumption` (finitely many men, null is neither a man, a class, a number nor a
station of the catalogue, the parts of a class are a sequence and their numbers integers),
`LanesAssumption` (the graph of the lane hangs together and its nodes have places; on one lane
an objective has a place of its own, no zone is further from its flag than the reader matches
them (`squad/capzones.py`) and two zones are more than twice as far apart, and the objectives are
fewer than a cloud needs; the
objectives of all lanes are a cloud, and still are when as many are taken as `MaxZoneEvents`
lets be taken, four events to take one and lock it again),
`RostersAssumption` (a match starts with a sequence of players of whom a fire team has one
head at most, null is no number and none of the states of a man),
`FitAssumption` (things and layers have integer places, some extent and, of the first, at least
one; the unit of length is so fine that neither the fit nor any of the `MaxResizes` refits
leaves a remainder, where the code divides numbers with fractions), `PaintAssumption` (scenes
and what is in them are sequences; no two players or vehicles have one address, nor a player
that of a thing, and no two seats of a vehicle one index, which is the place the reader found
them at, `squad/snapshot.py:2107`; the legs that are measured have whole lengths, which the code
takes from `Math.hypot`),
`RecordingsAssumption`
(the strip gets recordings that are not empty and ascend in time, which the loader
has seen to: `api/replay.ts:56-83`, `ticketTimeline.ts:95`).

*Unmixed recordings.* `OneMatchPerFile` is not inductive: a flush copies a
buffer into a file. `MixInv` adds that the pre-open buffer and the pending
buffer each name one match. It does not need the reader to be right about
anything. A lemma for each directory operation says what it does to `MixInv`.

*Finalized only when over (recorder).* `FinalityInv` adds that every recording
is of a match that was played or of a garbage id, that `last_tick` is a tick
that was built, and `TrustRuns`, the heart of it: if the open recording is of the
live match and the last consumed frame is the last one built, then both
confirmation counts are at most `tornRun`. Frames that count toward an end or
toward another match are torn while the match is live; if one in between
was skipped, the tick check resets the counts. With `TornAssumption` neither
count reaches `Confirm`. The step that fails for `TwoTierSpec` is the respawn:
`last_tick` can then exceed `tick` (Observations, 1).

*Closed stays closed, and the archive.* Every branch of `_handle_snap`, a
shutdown and a crash does one of six things to the directory (`Effect`: it rests,
a frame is written, the writer is left off, the recording is concluded, one is
opened, or one is concluded and the next opened). `ArchiveInv` says that the
current recording has no verdict yet, which makes each of the six leave closed
recordings alone. For the refinement each effect is mapped to the action of
`RecordingArchive` it implements; that a conclusion with `finalized` is allowed
there needs `FinalityInv`.

*Frames in order.* `OrderInv`: what may still be written to the open recording,
the two buffers included, is in order and up to `tick`; the frame at hand is
`tick` + 1. A respawned worker numbers its frames from 1, so `TwoTierSpec` does not
have the property.

*A live match is on disk in time.* The history `run` knows nothing of the
buffers. `OpeningInv` adds that, while no write failed, every frame it counts is
in one of them: in the pre-open buffer when nothing is open, in the pending one
when another match is; that neither reaches its limit between two steps; and that
the idle frames the pre-open buffer outlived are no more than those the history did.

*Finalized only when over (store).* `EndInv` has the same shape, with
`inactive_ticks <= tornRun` while the open match is the live one. `record_tick`
does not look at ticks, so this holds only when no frame is skipped:
`SteadySpec`. With skipped frames TLC finds a live match finalized, its
confirmations being spread over frames that are not consecutive.

*One open row* follows from what each SQL statement does to the set of open rows
(`SweptTable`, `OpenedTable`, `ClosedTable`) and from `open` being advanced only
with the commit. *Rated at most once* needs only the guard of
`apply_match_elo` and that a recalculation starts from nothing.

*Verdicts stand, ratings are verified.* `VerdictInv`: a row with the verdict is
closed, so it is not the open one; its match is over, so no frame names it again
unless a torn id is that of an earlier match. `~StaleIds` is therefore a hypothesis
of both theorems; without it a late id re-opens the row and the next close
overwrites the verdict.

*What is decoded is what was seen.* `LoadInv` says that encoder and decoder have the
same last full frame and the same tables (`Synced`), that a position line reaches
neither, and what is always so of a sampled frame: a player has a place exactly when he
is alive (`FrameFacts`), the car has the health and a team the deaths that would be
sampled now (`Tallies`).
Then one full frame is followed there and back (`FrameComesBack`). Each entity with an
id has an index of its own: new ids get the next free numbers, so the index stays a
numbering of the ids it knows without gaps (`Coded`, `IndexedIs`). An update is a
difference against what the table has at that index, and a patch with the difference
gives the new object (`PatchOfChanges`), so both tables move together (`TablesAgree`).
The entries sent verbatim are taken in the order of their places, the n-th by the n-th
-1 (`NthOfRank`), so the array comes back in its order, doubled and missing ids
included (`ArraysAgree`). Every size of roster, frame and table is covered. Frames
are lossless only because the encoder of the model is; it is external.

*Losses have causes.* `LossOk` says of every team that what was billed is whole numbers
that add up, and it is inductive only on top of `LoadInv`: the analysis compares
snapshots, and what it takes for a destroyed vehicle or a death is one because the
snapshots' tallies are the match's. A drop is split without rest (`SplitIs`, from what
the vehicles are billed, `BillsAre`). A vehicle is charged only on the frame after which
the car that ran is a wreck (`CostsAre`), deaths only as far as the team's counter grew,
which is a sum over the roster that no happening takes back (`HappeningsKeep`,
`SumGrows`). So each line adds one drop, at most one car and no more deaths than were
counted (`StepAddsUp`), and a position line, whose tallies are those of the full frame
it is spliced onto, adds nothing.

*Every death is one row.* `FeedOk`, on top of `LoadInv`, says that once there was a full
frame the feed's counters are the match's counters of those on the server, each under an
id of his own (`Counted`). What a frame makes the feed list as dead is then exactly who
died since the last one and was in it, each once (`DeathsAre`, `Named`): a happening
raises the counter of those it kills by one and no other, and of these the feed looks at
those with a name. Crediting adds one row per
entry of that list, whatever is in the buffer (`CreditDeathsAre`), and a row carries
name and team, which tell two players apart (`RowsAre`). The feed suppresses the rows
just when the match is broken, which is what `missed` counts (`TransitionIs`), and a
position line, whose counters are those of the frame it is spliced onto, makes nobody die.

*Credit is due.* `CreditOk` relates the buffer of attacks to the hits there were. Every
entry is a hit at its time, by and on those it names, no older than the time to live on
the feed's clock (`BufferOk`); those of one frame have different attackers, so time and
attacker tell the entries apart (`Attempts`). Of the hits of a pair, as far as the events
tell, no more are credited than have left the buffer
(`Settled`), which is what makes "no attack pays twice" inductive: an entry that is
used is dropped in the same step. One snapshot is followed through its parts: its events
join the buffer (`EventsJoin`), each row that names a killer consumes an entry that
names him and the victim (`CreditDeathsOwe`), what stays was not consumed and has not
run out (`PassIs`, `AgedIs`). Then a row's killer is somebody who hit that victim
(`RowDeserved`; where the events give the id it tells namesakes apart, `VictimTold`) and
the settled hits grow by one with each credit (`SettledGrows`, `CreditStays`). `FrameTimed` says the last full frame has
the match's time or none; a position line repeats it and moves no clock.

*The page shows what was picked.* A response checks only that its own load was not
cancelled. `PickInv` adds why this is enough: a load that is not cancelled is of the
recording now picked, because whatever changes the pick cancels the rest
(`StartedAlone`).

*Feed, panels and clock.* `PageInv` strengthens `PickInv`. The feed is repainted
only when the number of rows changes, so `FeedInv` says which count is remembered:
that of the timeline and the playhead on the page, or none. Equal counts then mean
equal rows. The engine's own memory outlives a load, which resets neither its
mirror of the index nor its clock: `EngineInv` says that it agrees with the panels
(`Followed`) unless a first frame was put there since (`JustLoaded`), and that
wall-clock anchors, while there are any, are of the frame on the panels and not
behind the clock (`Anchored`). That the playable frames ascend is not assumed: it
is proved of the loader's sort. The n-th frame is the one up to which there are n;
such a frame exists because the ranks of the k usable frames are k different numbers
between 1 and k.

*The camera and the hands.* `Sound` says which combinations of selection and follow
the three setters may leave behind, each of them touching only some of the fields;
each setter keeps it, hence every caller. `MapInv` adds for the gestures that a
drag and a measurement coexist only while both buttons are held, so that the
last release ends them both, and that the mode of a touch gesture fits the number
of fingers.

*The picture and the measurement stay.* Both are consequences of `MapInv` for one
step. For a zoom `HandInv` adds where the hand can be: the cursor and every finger are
on the screen, and fingers are there only on a touch device; then the point under
the hand before and after is computed from the same view.

*Places glide.* `MotionInv` relates the two frames on display: whoever rides was and
is where his vehicle was and is, and a man aboard in both keeps his address. The rest
is arithmetic on `LerpAngle`, where `%` keeps the sign as in JavaScript, and on the two
reaches, the floor or the speed times the time, whichever is more (`Reaches`); at the
end of the way each thing is where the next frame has it, whether it glided or was
snapped (`ManArrives`, `ShellArrives`, `FlagArrives`, `TurretTurns`).

*Pieces make a whole.* `CatalogInv`: once the loading has started, each catalogue is
there or under way, so when nothing is, and one is missing, the flag has been
taken back. `ClipInv` follows the chunks of every recorder to the file they are
saved in.

*The dashboard settles.* Each kind of request has its rule: a spinner turns only while
its request is under way; at most one profile is asked for, of the player clicked
last; the layers under way are those of the server chosen. An answer is taken into a
state that is between two renders, so the invariant has two forms: `Touched` before the
effects of a render have run, `PageOK` after, and `Commit` leads from one to the other.

*Strips agree.* `HudInv` is small; the work is in the operators. `FrameAtMs` is a
binary search, a recursive function of the pair (lo, hi). That it ends, and at the
first frame not before the time, is shown by the least counterexample: among the
widths of the pairs for which it fails there would be a least one, and a step of
the search narrows the pair.

*Rounds burst once.* `RoundInv` says why rings cannot stack: a ring that is on the map
stands for a hit that is still remembered under its round's id, or its round is no longer
in the frame and, ids being given in the order of firing, never will be again (`Stands`). It
holds after each round of a paint (`FollowKeeps`), the tracks that are lost and the
memory that is dropped included (`Joined`, `PaintKeeps`). A hit is forgotten later
than its ring is over; without that assumption a second ring would join the first.

*The vehicle's panel.* `VehicleInv` says of the frame that no two men share a seat and that
each turret of a known class has a seat of its class to itself (`SeatedBy`); that the
catalogue offers such seats is proved of every statement of it (`StatementsFit`,
`LoadoutFits`). The rows are a function of the frame. A seat claims the turret that has,
among those of its class, the place the seat has among the seats of the class
(`ClaimsAre`), so no two claims meet (`ClaimTells`) and no known gun is left over
(`KnownIsClaimed`). The guns that are left take the vacant weapon seats by rank and then
rows of their own (`LiveIs`, `TurnTells`, `TurnsTaken`): each is in one row
(`GunsShown`). For the parts, the slots divide the indices, and the sort of the wheels is the
rank in the order by number and then by index, an injection of a finite set into as many
numbers (`PlacesIn`, `ByIdxCovers`). The proof also corrected the property: the order by
number holds of wheels, and not of tracks, which the code does not sort
(`VehiclePanel.tsx:371-375`).

*The objectives.* `CapInv` says that before the roll all zones are there or none, and after
it only those of a lane; that who is at a zone, and how far, fits whose it is (`Sound`: a
capture that was left may stay half done, also behind a lock); and
that the events so far pay for what was done to the objectives (`Worked`, `Effort`): an event
brings one objective one step further at most. The cursor on a badge is at the zone's static
anchor and the zone within `MatchReach` of it, so every other zone is further away than both
that and the zone itself (`OthersAreFurther`). So what is still dormant when
everything is locked is a cloud (`CloudStands`), and what a lane leaves is none
(`CloudLifts`). That the lines thread the flags is a matter of the frame. The walk through the
flags of a depth joins each once (`ChainIs`: what is joined and what is left are together
always the same flags), so a set the lines do not lead out of has all of them or none
(`DepthJoined`), and the two ends of an edge or neither (`LinesAre`); the graph of the
nodes being connected, it has everything (`LaneHangs`). That as many steps as there are lines reach
such a set is a count of the lines taken in (`SpreadCloses`).

*The rosters.* `RosterInv` says of the frame that a fire team has one head (`OneHead`), which
promoting a man, joining and leaving keep (`PromotedFits`, `PostedIs`). The rest is a function
of the frame. A comparator is a weak order (`WeakOrder`: proved of each, `RanksWeak`), and
what stands at place k of a sorted list is the one with k elements up to it (`PlaceBy`,
`SortedPlaces`), so a sorted list holds each element of the set once (`SortedCovers`), and
who is before another in the order stands before him. Lists that each hold a squad once
hold, one after the other, a team once (`FlattenCovers`, `RowsForEveryone`). The totals are
sums over these lists, in whatever order (`CoverTotals`, `UnionTotals`, by the recursive
function behind a sum). The leader's rank is below all others of the squad (`LeadRank`), and
the ranks of one fire team lie together, its head's first (`HeadRank`): `LeadersLead`. What
the search picks is an element of a sorted list cut short (`MatchesAre`), wherever the
highlight was left by frames before.

*The fitted rectangle.* Within a refit the short side grows by half the lack at either end
(`RefitIs`), so what was held is held still, and the sides come out in the ratio of the
canvas if the division is exact. It is while the sides are multiples of `Unit`: each
refit divides them by one side of a canvas, hence `FitInv` says of what they are multiples
with so many refits to come. In the code the division is that of floating point, and the
ratio is exact up to its rounding.

*The painted scene.* `renderScene` makes fourteen calls (`Pieces`), of each of which a lemma
says which layers and parts its marks have, that they stand for something that can be
clicked, and whom they stand for at least (`VehiclesPaint`, `MarkersPaint`, `PlayersPaint`
...). Their marks follow each other in the paint (`PaintIsPieces`), so a paint
can be cut (`Cut`): what lies on the ground comes before the cut, and the pins after it
(`GroundCut`); the same between the pins of a kind and its numbers (`NumberCut`), which are
two passes of one call, and before the ruler. That everything shown is drawn and
everything drawn can be clicked follows call by call; the converse, for men, needs that
nobody has the address of a thing. `PaintInv` adds for the layers that a switched one is
stored as it was left (`Remembered`), which a reload finds.

*What the marks say.* The marks of a call are known one by one (`PlayerMarksAre`,
`PaintedMen`), so who is ringed, faint or numbered is a matter of the men of the frame
(`MenAre`); as no two men have one key, the man followed has one squad (`KeysTell`), and
who is of it is what the code asks of each man (`HighlightIs`). A pin has one number since the
marks that are numbers stand for different things, in each pass (`PlayerNumbersApart`) and over
both (`NumbersAre`). A vehicle's number is the driver's squad for the sort by seat
index puts him first (`DriverFirst`). A vehicle's icon is looked up by that of its turret before any other,
and up the ladder of roles every rung to a leader's name has a leader's icon (`ClimbIs`).
Rounded to the metre, every leg is off by half a metre at most, so the sum of
the rounded legs is off by half a metre for each of them (`RoundedSums`, by the least leg
where it would not be), and the total by half of one more.

*Data.* The library's induction theorems take an operator as parameter, which cannot
be instantiated here. `DataLemmas` therefore proves that a set of naturals has a least
element from the well-foundedness of finite sets under inclusion (`LeastNat`), and
with it that `Max` and `Min` of a bounded set are its bounds, for sets of any size, and
that the recursive function behind a sum exists (`SumExists`).

Only model-checked:

- `OverItsMap` of `screen`: that the map under the picture is the one it was played on is true of
  the table of maps and the names the instance gives, and of no others;
- liveness, of the push queue (`CentralCatchesUp`) and of the viewer
  (`LoadingEnds`, `PlaybackEnds`): fairness and ENABLED are beyond the prover.

## Findings

Each is a run in which TLC finds the property violated.

1. `stats_torn_id`: the store's header says it uses the recorder's policy, but
   its supersede branch acts on a single frame: one torn id closes and publishes
   the match being played.
2. `replay_stale`: the kill feed promises "Never a guessed killer"
   (`killfeed/diff.ts:351`). A death that no event explains is credited to the most
   recent unused attack on the victim, which may be of an earlier life: an attack
   survived by a respawn that no event reported.

## Observations

What reading the code, or TLC on the way, showed besides; no run is kept for
these, and the properties above are stated so that they do not depend on them.

1. The tick check of `recorder.py:382` is meant to notice lost frames, but a
   respawned build worker counts from 1 again (`buildworker.py:156`). If the frame
   taken from the slot happens to carry `last_tick + 1`, confirmations before and
   after the gap add up and a recording of the live match is finalized.
2. `write_position_frame` (`recorder.py:618`) appends to whatever recording is open.
   When a match follows another directly, the position frames sampled while the new
   id is being confirmed follow the new match's actors and end up in the old file.
3. The startup sweep (`stats.py:603`) makes the row of the match being played final,
   so public reads show it until the first frame re-opens it (compare
   `stats.py:1193`).
4. A `stats-backfill` beside the live writer turns a finalized row into an
   unverified one without a winner (`cli.py:1417`).
5. With replays, a premature announcement whose statistics were sent leaves a marker
   that makes `enqueue` ignore the true end (`ingest_client.py:239`).
6. *Loading.* Picking the recording that is already picked does not load it again;
   a failure of a load since cancelled shows its error card over a recording that is
   loaded (`api/replay.ts:118-120` sets the flags before it looks at `cancelled`).
   `lastInProgressTeams` is of the last frame in progress that was on display: after a
   seek from mid-round to behind its end the card of the finished match shows the
   tickets, and the winner, of that frame as the result (`viewerStore.ts:335`), where
   the store promises "the last live values" (`:139-140`), and nothing resets it when
   another recording is loaded. A load resets neither the engine's mirror of the index nor its clock (`api/playback.ts:33`, `:52`;
   `api/replay.ts:91-99`): the first paused animation frame of the new recording may
   start from the place the old one was left at, and a seek to just there, before that
   frame, is not seen until the playhead moves again (`JustLoaded` in `Viewer`).
7. *Vehicle panel.* Of a helicopter's parts the grid drops ammunition, turret,
   wheels and tracks although the list below it is there to prevent "silent data
   loss" (`VehiclePanel.tsx:402`). `BP_MATV_USMC_TOW_C` is assigned from
   `BP_MATV_TOW_C` (`vehicleLoadouts.ts:6118`) 1500 lines before that entry exists,
   so it stays undefined; the entry of `BP_M1151_C` at 6566 is replaced by an alias
   at 7267.
8. *Map.* A round that lies on the ground for longer than `STALE_MS` after its
   impact gets a second ring (`projectiles.ts:144`, `:188`). Entities of hidden
   layers can be clicked. A direction arrow too short to draw leaves no mark. A
   provider's picture of a whole vehicle still gets the turret of the game's own.
   A badge is drawn at the flag's static anchor and found by the cursor at the place
   read from memory (`draw.ts:422`, `hitTest.ts:54`): zoomed in far enough, the cursor
   on the badge finds nothing; it never finds the flag next to it (`MarksAreHit`).
   What attackers left behind is drawn as an arc in nobody's colour (`draw.ts:455-462`).
   Carriers on tracks (M113, FV432, MT-LB) are matched by the turret ladder's
   heavy-IFV rule first.
9. *Catalogues.* `loadAssetProviders` keeps a failed request for good
   (`assetProviders.ts:88`), unlike `ensureCatalogs`, which tries again.
10. *Dashboard.* Answers of boards, of the search and of a match are taken whatever
    is on display by then (`PlayerStats.tsx:177-192`, `218-226`): the board of an
    earlier period may come last, a search answer after the field was cleared;
    choosing a server while a profile loads shows the old server's numbers; of two
    matches clicked quickly the first may be shown; an error outlives a later
    success.
11. A player picked in `PlayerSearch.tsx:46-51` while a vehicle panel is open leaves
    that open too; the store says only one detail panel is ever open
    (`viewerStore.ts:180-183`), which the map's click handler sees to and the setters
    do not. `InfoStandsAlone` is the part of it that holds.

12. *Kill feed.* An attack is matched to a victim "by stable id, else name"
    (`killfeed/diff.ts:348-349`), and two of one name are told apart only if both the
    row and the event have an id (`killfeed/diff.ts:359`). The events of the game's
    log, which every server with a log uses (`cli.py:1085-1088`), never have one of the
    victim (`squad/logtail.py:282`): there the death of one is credited to whoever hit
    the other, and TLC finds it in the instance of `replay_load` as soon as
    `KillerDidHit` asks for the team under the log too. Those of memory have the id of
    the player: there `CreditIsDue` fails on a roster where only one of two namesakes
    has one, which is why `CreditAssumption` asks for both.

## Abstractions to know about

- A frame is its match state, id and tick. What else is in it cannot influence
  when a recording or a row is opened or closed, except the layer name, which is
  the Boolean `named`.
- A file's bytes are abstracted: a half-written frame is a frame not written.
- A recalculation of all ratings is one step; in the code it is one transaction
  per match.
- The final flush of a shutdown may take several requests, and a kill may end it.
- Torn runs are counted over frames that are built, consumed or not, because that
  is what the memory of the game does.
- The store's rows do not hold players; ratings are a count of how often a
  match was added.
- Class, role and marker names are the set of the patterns they match, since the
  ladders of the viewer compare them with nothing else; a picture is named for its
  file; a paint is the sequence of its marks.
- In the models of the screen the map is a line and headings whole degrees; only
  `Fit` and the ruler, where the second axis matters, are in the plane. A man's
  heading is left out of `Motion`: it turns by `LerpAngle` as a vehicle's does.
- A seat or turret class is named for its place on its vehicle, and of a weapon
  list only the length is kept.

## Not modelled

- The live mode of the viewer: `canLive` is hard-wired false
  (`state/viewerStore.ts:246`), so `useKillFeed`, `carryOver`, the live branches of
  the paint loop and of the store cannot be reached in what is shipped.
- What has no state and no rule beyond wording or strokes: tooltips, `TopBar`,
  `TeamBar`, `InfoPanel`, the list of `RecordingPicker`, `Home`, `SettingsMenu`, the
  colours of `HeatmapCanvas`, the outlines of `drawCapGeometry`, faction flags, the
  resource bars of `VehiclePanel`.
- Data: the other rows of the vehicle catalogue, display names, photos, the types of
  `state/types.ts`.
- `stats-backfill`: it replays old recordings through the same `record_tick`; beside
  a live writer it does what observation 4 says.
- On the agent: the HTTP gate, updater, offset packs, synthetic ids, delta walk, log
  tailer and SQRX container have rules worth modelling and are left to the plan
  below; fleet check-in, credentials, plugins, configuration and packaging are I/O,
  cryptography and heuristics.

## Plan

Done: both halves as above. In this order, what is left:

1. `HttpGate`: `_MetaCache.get` step by step against the recorder's writes of
   recording and sidecar and against its own self-heal; composed with `Recorder`
   over the recordings directory.
2. `Updater` with the restart gate and the service manager: swap, kill between
   swap and `mark_applied`, boot attempts, rollback.
3. `SynthMatch` as the producer of ids for `Recorder`, over restarts; `OffsetHeal`,
   the committed pack against the table in force.
4. `BuildWorker`: reader thread, slot, respawn, backoff, stop.
5. `DamageLog`, the correlation of hits, wounds and deaths, as the producer of the
   events of `ReplayLoad`; `DeltaWalk` against the reference walk.
6. Proofs: the safety half of `PushBacklog`.
