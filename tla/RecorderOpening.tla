-------------------------- MODULE RecorderOpening ---------------------------
(***************************************************************************)
(* Recorder with a history of the frames that came through, to say when a  *)
(* match must be on disk.  The history knows nothing of the buffers.       *)
(***************************************************************************)
EXTENDS Recorder

VARIABLE run   \* the latest frames in a row that name one match
               \* (id), how many (n), idle frames since the last of them

NoRun == [id |-> NoMatch, n |-> 0, idle |-> 0]

\* Frames of one id count as a row across skipped frames, and across fewer
\* than Confirm idle ones, as long as nothing is being recorded.
Counts(r, t) ==
  LET recording == current # 0
      broken    == recording /\ ~Unbroken(t)
  IN run' =
       IF r.kind = "active"
       THEN IF run.id = r.id /\ ~broken
            THEN [id |-> r.id, n |-> run.n + 1, idle |-> 0]
            ELSE [id |-> r.id, n |-> 1, idle |-> 0]
       ELSE IF r.kind = "inactive" /\ ~recording /\ run.idle + 1 < Confirm
            THEN [run EXCEPT !.idle = @ + 1]
            ELSE NoRun

OpeningInit == Init /\ run = NoRun

\* Within one run of the agent: a restart forgets the history anyway.
OpeningNext ==
  \/ \E r \in Readings, named \in BOOLEAN :
       FullFrame(r, named) /\ Counts(r, tick + 1)
  \/ \E r \in Readings : SkippedFrame(r) /\ UNCHANGED run
  \/ Game /\ UNCHANGED run
  \/ UntickedFrame /\ run' = IF current = 0 THEN run ELSE NoRun

OpeningSpec == OpeningInit /\ [][OpeningNext]_<<vars, run>>

(***************************************************************************)
(* A match is being recorded once NameLimit of its frames came through:    *)
(* neither tick gaps nor a flicker of the match state nor a recording of   *)
(* another match that is still open can leave a live match unrecorded,     *)
(* which is how three matches were lost (recorder.py, the pre-open buffer).*)
(***************************************************************************)
OpensInTime ==
  faults = 0 /\ run.n >= NameLimit => current # 0 /\ files[current].id = run.id
=============================================================================
