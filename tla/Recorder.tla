------------------------------ MODULE Recorder ------------------------------
(***************************************************************************)
(* The match recorder of `sqreader serve` (src/sqreader/recorder.py): one  *)
(* step function, _handle_snap, is given every full frame the reader       *)
(* builds and decides when a recording is opened, appended to and closed.  *)
(* The reader's view of the game may be torn for a few frames, frames may  *)
(* be skipped, disk writes may fail and the process may stop at any point. *)
(*                                                                         *)
(* A frame is abstracted to the match id it claims and its tick number; a  *)
(* recording to the frames in it, the matches whose actors its position    *)
(* frames sampled, whether its writer is closed and what its sidecar says. *)
(***************************************************************************)
EXTENDS GameReader, Sequences

CONSTANTS
  NoTick,       \* a frame without an integer tick id
  NameLimit,    \* _FILENAME_BUFFER_LIMIT (10)
  MaxTick,      \* bound: frames one producer builds
  MaxFaults,    \* bound: failing disk writes
  MaxRestarts   \* bound: restarts of the agent or of its build worker

Tick == 1..MaxTick
Frame == [id : Id, tick : Tick \cup {NoTick}]

ASSUME ConstantsAssumption ==
  /\ NoTick \notin Nat
  /\ NameLimit \in Nat /\ NameLimit >= Confirm
  /\ MaxTick \in Nat /\ MaxFaults \in Nat /\ MaxRestarts \in Nat

VARIABLES
  tick,            \* frames the current producer has built
  entities,        \* match whose actors the position sampler follows
  current,         \* index in files of the open recording, 0 for None
  last_tick,
  inactive_ticks,
  pending,         \* pending_match_buffer; its frames carry pending_match_id
  filename_buffer,
  preopen_idle_ticks,
  files,           \* the recordings directory, in the order of creation
  faults,          \* disk writes that failed so far
  restarts         \* restarts so far

readerVars   == <<tick, tornRun, entities>>
stateBox     == <<current, last_tick, inactive_ticks, pending,
                  filename_buffer, preopen_idle_ticks>>
vars == <<gameVars, readerVars, stateBox, files, faults, restarts>>

SidecarState == {"missing", "active", "finalized", "unverified"}

File == [id : Id, frames : Seq(Frame), sampled : SUBSET Match,
         closed : BOOLEAN, sidecar : SidecarState]

-----------------------------------------------------------------------------
MatchStarts(m) ==
  Starts(m) /\ UNCHANGED <<readerVars, stateBox, files, faults, restarts>>

MatchEnds ==
  Ends /\ UNCHANGED <<readerVars, stateBox, files, faults, restarts>>

\* The producer builds one more frame, which reads r.
Builds(r) ==
  /\ tick < MaxTick
  /\ tick' = tick + 1
  /\ Reads(r)

-----------------------------------------------------------------------------
(***************************************************************************)
(* Disk faults.  Every write that may fail takes one of these two.         *)
(***************************************************************************)
NoFault == UNCHANGED faults
Fault   == faults < MaxFaults /\ faults' = faults + 1

(***************************************************************************)
(* finalize_recording: the writer is closed whatever happens; a sidecar    *)
(* that cannot be written raises out of the step with `current` still set. *)
(***************************************************************************)
Sealed(fs, f, state) == [fs EXCEPT ![f].closed = TRUE, ![f].sidecar = state]
CloseFailed(fs, f)   == [fs EXCEPT ![f].closed = TRUE]

NewFile(i, frames, state) ==
  [id |-> i, frames |-> frames, sampled |-> {}, closed |-> FALSE,
   sidecar |-> state]

\* Here and below, operators named for a slip (frames mixed, a check dropped)
\* are mutated forms of the one after them, for mutation testing of the model.
ReadyToOpen(buf, named) ==
  /\ Len(buf) >= Confirm
  /\ named \/ Len(buf) >= NameLimit

BufferedMixed(buf, fr) == Append(buf, fr)

\* Buffered frames of a superseded match are discarded before fr joins them.
Buffered(buf, fr) ==
  Append(IF buf # <<>> /\ Head(buf).id # fr.id THEN <<>> ELSE buf, fr)

(***************************************************************************)
(* "Need to (re)open writer": buffer the frame until the id is stable and  *)
(* the name known, then create the file and flush the buffer into it.      *)
(* fs is the directory so far, which an earlier finalize may have changed. *)
(***************************************************************************)
OpenOrBuffer(fs, buf0, fr, named) ==
  LET buf == Buffered(buf0, fr) IN
  \/ \* keep buffering; or SqrxWriter raises and the buffer is retried
     /\ IF ReadyToOpen(buf, named) THEN Fault ELSE NoFault
     /\ files' = fs /\ current' = 0 /\ filename_buffer' = buf
  \/ \* the whole buffer is flushed; only the active sidecar may be missing
     /\ ReadyToOpen(buf, named)
     /\ \E state \in {"active", "missing"} :
          /\ IF state = "missing" THEN Fault ELSE NoFault
          /\ files' = Append(fs, NewFile(fr.id, buf, state))
     /\ current' = Len(fs) + 1 /\ filename_buffer' = <<>>
  \/ \* a frame cannot be written: the flush stops with the buffer kept
     /\ ReadyToOpen(buf, named)
     /\ Fault
     /\ \E k \in 0..(Len(buf) - 1) :
          files' = Append(fs, NewFile(fr.id, SubSeq(buf, 1, k), "active"))
     /\ current' = Len(fs) + 1 /\ filename_buffer' = buf

-----------------------------------------------------------------------------
(***************************************************************************)
(* The branches of _handle_snap.  ia and pend are the confirmations that   *)
(* survived the tick-sequence check.                                       *)
(***************************************************************************)
OnAmbiguous ==
  /\ inactive_ticks' = 0 /\ pending' = <<>>
  /\ filename_buffer' = IF current = 0 THEN <<>> ELSE filename_buffer
  /\ UNCHANGED <<current, preopen_idle_ticks, files, faults>>

OnIdleAtOnce(ia) ==
  /\ current = 0
  /\ pending' = <<>> /\ filename_buffer' = <<>>
  /\ inactive_ticks' = 0 /\ preopen_idle_ticks' = 0
  /\ UNCHANGED <<current, files, faults>>

\* Inactive with nothing open: a buffer waiting to open outlives a few ticks.
OnIdle(ia) ==
  /\ current = 0
  /\ pending' = <<>>
  /\ IF filename_buffer # <<>> /\ preopen_idle_ticks + 1 < Confirm
     THEN /\ preopen_idle_ticks' = preopen_idle_ticks + 1
          /\ inactive_ticks' = ia
          /\ UNCHANGED filename_buffer
     ELSE /\ preopen_idle_ticks' = 0 /\ inactive_ticks' = 0
          /\ filename_buffer' = <<>>
  /\ UNCHANGED <<current, files, faults>>

OnInactiveKeepsWriter(ia) ==
  /\ current # 0
  /\ pending' = <<>> /\ inactive_ticks' = (ia + 1) % Confirm
  /\ files' = IF ia + 1 < Confirm THEN files
              ELSE Sealed(files, current, "finalized")
  /\ UNCHANGED <<current, filename_buffer, preopen_idle_ticks, faults>>

\* Inactive with a recording open: the Confirm-th tick in a row closes it.
OnInactive(ia) ==
  /\ current # 0
  /\ pending' = <<>>
  /\ UNCHANGED preopen_idle_ticks
  /\ IF ia + 1 < Confirm
     THEN /\ inactive_ticks' = ia + 1
          /\ UNCHANGED <<current, filename_buffer, files, faults>>
     ELSE /\ inactive_ticks' = 0
          /\ \/ /\ NoFault
                /\ files' = Sealed(files, current, "finalized")
                /\ current' = 0 /\ filename_buffer' = <<>>
             \/ /\ Fault
                /\ files' = CloseFailed(files, current)
                /\ UNCHANGED <<current, filename_buffer>>

ClearIdle == inactive_ticks' = 0 /\ preopen_idle_ticks' = 0

\* Steady state: append; a write to a closed writer raises.
OnSameMatch(fr) ==
  /\ ClearIdle /\ pending' = <<>>
  /\ \/ /\ ~files[current].closed /\ NoFault
        /\ files' = [files EXCEPT ![current].frames = Append(@, fr)]
     \/ /\ IF files[current].closed THEN NoFault ELSE Fault
        /\ UNCHANGED files
  /\ UNCHANGED <<current, filename_buffer>>

NothingOpen(fr, named) ==
  /\ ClearIdle /\ pending' = <<>>
  /\ OpenOrBuffer(files, filename_buffer, fr, named)

SeedAll(p) == p

\* The confirmed frames, without the one that is buffered next.
Seed(p) == SubSeq(p, 1, Len(p) - 1)

\* Another id while a recording is open: it must last Confirm ticks.
OnOtherMatch(pend, fr, named) ==
  LET p == IF pend # <<>> /\ Head(pend).id = fr.id
           THEN Append(pend, fr) ELSE <<fr>>
  IN /\ ClearIdle
     /\ \/ /\ Len(p) < Confirm
           /\ pending' = p
           /\ UNCHANGED <<current, filename_buffer, files, faults>>
        \/ /\ Len(p) >= Confirm /\ Fault
           /\ files' = CloseFailed(files, current)
           /\ pending' = p
           /\ UNCHANGED <<current, filename_buffer>>
        \/ /\ Len(p) >= Confirm
           /\ pending' = <<>>
           /\ OpenOrBuffer(Sealed(files, current, "finalized"),
                           Seed(p), fr, named)

(***************************************************************************)
(* A frame whose tick does not follow the last one breaks every running    *)
(* confirmation, but leaves the buffer of a recording waiting to open.     *)
(***************************************************************************)
UnbrokenAlways(t) == TRUE
Unbroken(t) == last_tick = NoTick \/ t = last_tick + 1

HandleSnap(r, named, t) ==
  LET ia   == IF Unbroken(t) THEN inactive_ticks ELSE 0
      pend == IF Unbroken(t) THEN pending ELSE <<>>
      fr   == [id |-> r.id, tick |-> t]
  IN /\ last_tick' = t
     /\ \/ r \in Ambiguous /\ OnAmbiguous
        \/ r.kind = "inactive" /\ (OnIdle(ia) \/ OnInactive(ia))
        \/ /\ r.kind = "active"
           /\ \/ current = 0 /\ NothingOpen(fr, named)
              \/ /\ current # 0 /\ files[current].id = r.id
                 /\ OnSameMatch(fr)
              \/ /\ current # 0 /\ files[current].id # r.id
                 /\ OnOtherMatch(pend, fr, named)

\* One full frame is built and consumed (cmd_serve's _consume_full).
FullFrame(r, named) ==
  /\ Builds(r)
  /\ HandleSnap(r, named, tick + 1)
  /\ entities' = live
  /\ UNCHANGED <<gameVars, restarts>>

\* One is built and never consumed: the build raised, or a newer one replaced
\* it in the worker's single slot.
SkippedFrame(r) ==
  /\ Builds(r)
  /\ UNCHANGED <<gameVars, entities, stateBox, files, faults, restarts>>

\* A frame without an integer tick: ignored, and the sequence starts afresh.
UntickedFrame ==
  /\ last_tick # NoTick
  /\ last_tick' = NoTick
  /\ inactive_ticks' = 0 /\ pending' = <<>>
  /\ UNCHANGED <<gameVars, readerVars, current, filename_buffer,
                 preopen_idle_ticks, files, faults, restarts>>

\* write_position_frame: append to whatever is open, of whichever actors.
PositionFrame ==
  /\ entities # NoMatch
  /\ current # 0 /\ ~files[current].closed
  /\ files' = [files EXCEPT ![current].sampled = @ \cup {entities}]
  /\ UNCHANGED <<gameVars, readerVars, stateBox, faults, restarts>>

-----------------------------------------------------------------------------
(***************************************************************************)
(* Process lifetime.  A new process has an empty state_box and a producer  *)
(* that counts from 1; what is on disk stays.                              *)
(***************************************************************************)
Reboots ==
  /\ restarts < MaxRestarts /\ restarts' = restarts + 1
  /\ tick' = 0 /\ tornRun' = 0 /\ entities' = NoMatch
  /\ current' = 0 /\ last_tick' = NoTick
  /\ inactive_ticks' = 0 /\ pending' = <<>>
  /\ filename_buffer' = <<>> /\ preopen_idle_ticks' = 0
  /\ UNCHANGED gameVars

ShutdownVerdictFinal   == "finalized"
ShutdownVerdictUnknown == "closed"
ShutdownVerdict == "unverified"

\* SIGTERM, or the game is gone: the writer is closed as unverified.
Shutdown ==
  /\ Reboots
  /\ \/ current = 0 /\ NoFault /\ UNCHANGED files
     \/ current # 0 /\ NoFault /\ files' = Sealed(files, current, ShutdownVerdict)
     \/ current # 0 /\ Fault /\ files' = CloseFailed(files, current)

\* SIGKILL or power loss: the file ends where it is, the sidecar stays.
Crash ==
  /\ Reboots
  /\ files' = IF current = 0 THEN files ELSE CloseFailed(files, current)
  /\ NoFault

\* The build worker dies and is respawned: it counts from 1 again.
WorkerRespawn ==
  /\ restarts < MaxRestarts /\ restarts' = restarts + 1
  /\ tick' = 0
  /\ UNCHANGED <<gameVars, tornRun, entities, stateBox, files, faults>>

-----------------------------------------------------------------------------
Init ==
  /\ GameInit
  /\ tick = 0 /\ entities = NoMatch
  /\ current = 0 /\ last_tick = NoTick
  /\ inactive_ticks = 0 /\ pending = <<>>
  /\ filename_buffer = <<>> /\ preopen_idle_ticks = 0
  /\ files = <<>> /\ faults = 0 /\ restarts = 0

Game == MatchEnds \/ \E m \in Match : MatchStarts(m)

Reader ==
  \/ \E r \in Readings, named \in BOOLEAN : FullFrame(r, named)
  \/ \E r \in Readings : SkippedFrame(r)
  \/ UntickedFrame

Process == Shutdown \/ Crash

Next == Game \/ Reader \/ Process

\* Single-tier serving: cmd_serve itself numbers the frames.
Spec == Init /\ [][Next]_vars

\* Two-tier serving: a worker that may respawn numbers the full frames, and
\* position frames are recorded between them.
TwoTierNext == Next \/ PositionFrame \/ WorkerRespawn
TwoTierSpec == Init /\ [][TwoTierNext]_vars

-----------------------------------------------------------------------------
(***************************************************************************)
(* Types: the state box of _handle_snap and the recordings directory.      *)
(***************************************************************************)
TypeOK ==
  /\ live \in Match \cup {NoMatch} /\ seen \in SUBSET Match
  /\ tick \in Nat /\ tornRun \in Nat
  /\ entities \in Match \cup {NoMatch}
  /\ files \in Seq(File)
  /\ current \in 0..Len(files)
  /\ last_tick \in Nat \cup {NoTick}
  /\ inactive_ticks \in Nat /\ preopen_idle_ticks \in Nat
  /\ pending \in Seq(Frame) /\ filename_buffer \in Seq(Frame)
  /\ faults \in Nat /\ restarts \in Nat

(***************************************************************************)
(* "one `.sqrx` file per match": every full frame in a recording is of the *)
(* match the recording is filed under, across torn ids, buffering before   *)
(* the open, pending switches, failed writes and restarts.                 *)
(***************************************************************************)
OneMatchPerFile ==
  \A f \in 1..Len(files) :
    \A i \in 1..Len(files[f].frames) : files[f].frames[i].id = files[f].id

(***************************************************************************)
(* Only a match that has really ended is ever marked finalized, the mark   *)
(* the HTTP gate and the push to central trust.                            *)
(***************************************************************************)
FinalizedIsOver ==
  \A f \in 1..Len(files) :
    files[f].sidecar = "finalized" => files[f].id # live

(***************************************************************************)
(* Frames are recorded in the order they were built and none twice, also   *)
(* when a pending run or a pre-open buffer is flushed.                     *)
(***************************************************************************)
FramesInOrder ==
  \A f \in 1..Len(files) :
    \A i \in 1..(Len(files[f].frames) - 1) :
      files[f].frames[i].tick < files[f].frames[i + 1].tick

(***************************************************************************)
(* A recording other than the current one is never written again, and a    *)
(* sidecar that says how the recording closed is the last word on it.      *)
(***************************************************************************)
ClosedStaysClosed ==
  [][\A f \in 1..Len(files) :
       \/ files'[f] = files[f]
       \/ f = current /\ files[f].sidecar \in {"active", "missing"}]_vars

(***************************************************************************)
(* The recorder keeps the promises of RecordingArchive.                    *)
(***************************************************************************)
Verdict(f) ==
  IF files[f].sidecar \in {"finalized", "unverified"}
  THEN files[f].sidecar ELSE "none"

Archive == INSTANCE RecordingArchive WITH
  writer <- current,
  recs   <- [f \in 1..Len(files) |->
              [id |-> files[f].id, frames |-> Len(files[f].frames),
               verdict |-> Verdict(f)]]

KeepsArchive == Archive!Spec

=============================================================================
