-------------------------- MODULE RecordingArchive --------------------------
(***************************************************************************)
(* What the recorder promises about the recordings directory, whatever the *)
(* reader misreads and wherever the process stops: one writer at a time, a *)
(* recording is of one match, only the recording being written grows, the  *)
(* verdict on how it closed is given once, and "finalized" is given only   *)
(* to a match that is over.                                                *)
(***************************************************************************)
EXTENDS Naturals, Sequences

CONSTANTS Match, NoMatch

VARIABLES
  live,    \* the match being played
  seen,    \* the matches played so far
  recs,    \* the recordings, in the order of creation
  writer   \* index of the recording being written, or 0

vars == <<live, seen, recs, writer>>

Verdict == {"none", "finalized", "unverified"}

Judged(v) == [recs EXCEPT ![writer].verdict = v]

\* One recording without a verdict joins rs, and is the one being written.
Joins(rs) ==
  /\ Len(recs') = Len(rs) + 1 /\ SubSeq(recs', 1, Len(rs)) = rs
  /\ recs'[Len(recs')].verdict = "none"
  /\ writer' = Len(recs')

Plays ==
  \/ \E m \in Match \ seen : live' = m /\ seen' = seen \cup {m}
  \/ live' = NoMatch /\ UNCHANGED seen

Open == writer = 0 /\ Joins(recs)

Record ==
  /\ writer # 0
  /\ recs' = [recs EXCEPT ![writer].frames = @ + 1]
  /\ UNCHANGED writer

\* The match of the open recording is over.
Finalize ==
  /\ writer # 0 /\ recs[writer].id # live
  /\ recs' = Judged("finalized")
  /\ writer' = 0

\* It is over because another one is being recorded.
Rotate ==
  /\ writer # 0 /\ recs[writer].id # live
  /\ Joins(Judged("finalized"))
  /\ recs'[writer'].id # recs[writer].id

\* The process stops, and may still say so.
Stop ==
  /\ writer # 0
  /\ recs' \in {recs, Judged("unverified")}
  /\ writer' = 0

Writes == (Open \/ Record \/ Finalize \/ Rotate \/ Stop) /\ UNCHANGED <<live, seen>>

Init == live = NoMatch /\ seen = {} /\ recs = <<>> /\ writer = 0
Next == (Plays /\ UNCHANGED <<recs, writer>>) \/ Writes
Spec == Init /\ [][Next]_vars
=============================================================================
