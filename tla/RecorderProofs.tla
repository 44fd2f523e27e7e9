--------------------------- MODULE RecorderProofs ---------------------------
(***************************************************************************)
(* The recorder's type invariant, its safety invariants and what a         *)
(* finalized verdict stands for, and what a step of it can do to the       *)
(* recordings directory, for every value of the constants: the recordings  *)
(* that are closed stay as they are, every step is one that                *)
(* RecordingArchive allows, the frames of a recording are in order, and a  *)
(* match whose frames keep coming is on disk after NameLimit of them.      *)
(***************************************************************************)
EXTENDS RecorderOpening, SequenceTheorems, TLAPS

-----------------------------------------------------------------------------
(***************************************************************************)
(* Every frame of a recording, of the pre-open buffer and of the pending   *)
(* buffer names one match: the invariant behind OneMatchPerFile.  The      *)
(* buffers matter because a flush copies them into a file.                 *)
(***************************************************************************)
Uniform(s)  == \A i \in 1..Len(s) : s[i].id = s[1].id
MixFree(fs) == \A f \in 1..Len(fs) :
                 \A i \in 1..Len(fs[f].frames) : fs[f].frames[i].id = fs[f].id

MixInv ==
  /\ TypeOK
  /\ MixFree(files)
  /\ Uniform(filename_buffer)
  /\ Uniform(pending)

\* A frame of the same match joins a uniform sequence.
LEMMA UniformAppend ==
  ASSUME NEW s \in Seq(Frame), Uniform(s), NEW fr \in Frame,
         s # <<>> => Head(s).id = fr.id
  PROVE  /\ Append(s, fr) \in Seq(Frame)
         /\ Uniform(Append(s, fr))
         /\ Append(s, fr)[1].id = fr.id
         /\ Len(Append(s, fr)) = Len(s) + 1
BY DEF Uniform

\* Buffered yields a uniform buffer of the frame's match.
LEMMA BufferedUniform ==
  ASSUME NEW buf \in Seq(Frame), Uniform(buf), NEW fr \in Frame
  PROVE  /\ Buffered(buf, fr) \in Seq(Frame)
         /\ Uniform(Buffered(buf, fr))
         /\ Len(Buffered(buf, fr)) >= 1
         /\ Buffered(buf, fr)[1].id = fr.id
<1> DEFINE kept == IF buf # <<>> /\ Head(buf).id # fr.id THEN <<>> ELSE buf
<1>1. kept \in Seq(Frame) /\ Uniform(kept)
  BY DEF Uniform
<1>2. kept # <<>> => Head(kept).id = fr.id
  OBVIOUS
<1>3. Len(kept) \in Nat
  BY <1>1
<1> HIDE DEF kept
<1>4. /\ Append(kept, fr) \in Seq(Frame)
      /\ Uniform(Append(kept, fr))
      /\ Append(kept, fr)[1].id = fr.id
      /\ Len(Append(kept, fr)) >= 1
  BY <1>1, <1>2, <1>3, UniformAppend
<1> QED
  BY <1>4 DEF Buffered, kept

\* A prefix of a uniform sequence is uniform.
LEMMA UniformPrefix ==
  ASSUME NEW s \in Seq(Frame), Uniform(s), NEW k \in 0..Len(s)
  PROVE  /\ SubSeq(s, 1, k) \in Seq(Frame)
         /\ Uniform(SubSeq(s, 1, k))
         /\ \A i \in 1..Len(SubSeq(s, 1, k)) : SubSeq(s, 1, k)[i].id = s[1].id
BY DEF Uniform

\* A new recording of uniform frames keeps the directory free of mixes.
LEMMA NewFileKeeps ==
  ASSUME NEW fs \in Seq(File), MixFree(fs), NEW i \in Id,
         NEW frames \in Seq(Frame), NEW state \in SidecarState,
         \A k \in 1..Len(frames) : frames[k].id = i
  PROVE  /\ Append(fs, NewFile(i, frames, state)) \in Seq(File)
         /\ MixFree(Append(fs, NewFile(i, frames, state)))
         /\ Len(Append(fs, NewFile(i, frames, state))) = Len(fs) + 1
<1> DEFINE new == NewFile(i, frames, state)
<1>1. new \in File
  BY DEF NewFile, File
<1>2. new.id = i /\ new.frames = frames
  BY DEF NewFile
<1> HIDE DEF new
<1> QED
  BY <1>1, <1>2 DEF MixFree, new

\* Replacing a recording by one with the same id and uniform frames.
LEMMA ReplaceKeeps ==
  ASSUME NEW fs \in Seq(File), MixFree(fs), NEW f \in 1..Len(fs),
         NEW r \in File, r.id = fs[f].id,
         \A i \in 1..Len(r.frames) : r.frames[i].id = r.id
  PROVE  /\ [fs EXCEPT ![f] = r] \in Seq(File)
         /\ MixFree([fs EXCEPT ![f] = r])
         /\ Len([fs EXCEPT ![f] = r]) = Len(fs)
<1> DEFINE gs == [fs EXCEPT ![f] = r]
<1>1. gs \in Seq(File) /\ Len(gs) = Len(fs)
  OBVIOUS
<1>2. \A g \in 1..Len(fs) : gs[g] = IF g = f THEN r ELSE fs[g]
  OBVIOUS
<1> HIDE DEF gs
<1>3. MixFree(gs)
  BY <1>1, <1>2 DEF MixFree
<1> QED
  BY <1>1, <1>3 DEF gs

\* Closing a writer, with or without a verdict, changes no frame.
LEMMA CloseKeeps ==
  ASSUME NEW fs \in Seq(File), MixFree(fs), NEW f \in 1..Len(fs),
         NEW state \in SidecarState
  PROVE  /\ Sealed(fs, f, state) \in Seq(File)
         /\ MixFree(Sealed(fs, f, state))
         /\ Len(Sealed(fs, f, state)) = Len(fs)
         /\ CloseFailed(fs, f) \in Seq(File)
         /\ MixFree(CloseFailed(fs, f))
         /\ Len(CloseFailed(fs, f)) = Len(fs)
<1> DEFINE r == [fs[f] EXCEPT !.closed = TRUE, !.sidecar = state]
           q == [fs[f] EXCEPT !.closed = TRUE]
<1>0. fs[f] \in File
  OBVIOUS
<1>1. r \in File /\ r.id = fs[f].id /\ r.frames = fs[f].frames
  BY <1>0 DEF File
<1>2. q \in File /\ q.id = fs[f].id /\ q.frames = fs[f].frames
  BY <1>0 DEF File
<1>3. \A i \in 1..Len(fs[f].frames) : fs[f].frames[i].id = fs[f].id
  BY DEF MixFree
<1>4. Sealed(fs, f, state) = [fs EXCEPT ![f] = r]
  BY <1>0 DEF Sealed, File
<1>5. CloseFailed(fs, f) = [fs EXCEPT ![f] = q]
  BY DEF CloseFailed
<1> HIDE DEF r, q
<1>6. /\ [fs EXCEPT ![f] = r] \in Seq(File) /\ MixFree([fs EXCEPT ![f] = r])
      /\ Len([fs EXCEPT ![f] = r]) = Len(fs)
  BY <1>1, <1>3, ReplaceKeeps
<1>7. /\ [fs EXCEPT ![f] = q] \in Seq(File) /\ MixFree([fs EXCEPT ![f] = q])
      /\ Len([fs EXCEPT ![f] = q]) = Len(fs)
  BY <1>2, <1>3, ReplaceKeeps
<1> QED
  BY <1>4, <1>5, <1>6, <1>7

\* The open path keeps the invariant, whatever fails in it.
LEMMA OpenOrBufferKeeps ==
  ASSUME NEW fs \in Seq(File), MixFree(fs),
         NEW buf0 \in Seq(Frame), Uniform(buf0),
         NEW fr \in Frame, fr.id \in Id, NEW named \in BOOLEAN,
         OpenOrBuffer(fs, buf0, fr, named)
  PROVE  /\ files' \in Seq(File) /\ MixFree(files')
         /\ current' \in 0..Len(files')
         /\ filename_buffer' \in Seq(Frame) /\ Uniform(filename_buffer')
         /\ faults' \in {faults, faults + 1}
<1> DEFINE buf == Buffered(buf0, fr)
<1>1. buf \in Seq(Frame) /\ Uniform(buf) /\ Len(buf) >= 1 /\ buf[1].id = fr.id
  BY BufferedUniform
<1>2. \A k \in 1..Len(buf) : buf[k].id = fr.id
  BY <1>1 DEF Uniform
<1>3. Uniform(<<>>)
  BY DEF Uniform
<1>4. CASE /\ IF ReadyToOpen(buf, named) THEN Fault ELSE NoFault
           /\ files' = fs /\ current' = 0 /\ filename_buffer' = buf
  BY <1>1, <1>4 DEF Fault, NoFault, MixFree, Uniform
<1>5. CASE /\ \E state \in {"active", "missing"} :
                /\ IF state = "missing" THEN Fault ELSE NoFault
                /\ files' = Append(fs, NewFile(fr.id, buf, state))
           /\ current' = Len(fs) + 1 /\ filename_buffer' = <<>>
  <2>1. PICK state \in {"active", "missing"} :
             /\ IF state = "missing" THEN Fault ELSE NoFault
             /\ files' = Append(fs, NewFile(fr.id, buf, state))
    BY <1>5
  <2>2. state \in SidecarState
    BY DEF SidecarState
  <2>3. files' \in Seq(File) /\ MixFree(files') /\ Len(files') = Len(fs) + 1
    BY <1>1, <1>2, <2>1, <2>2, NewFileKeeps
  <2>4. faults' \in {faults, faults + 1}
    BY <2>1 DEF Fault, NoFault
  <2> QED
    BY <1>3, <1>5, <2>3, <2>4 DEF MixFree, Uniform
<1>6. CASE /\ Fault
           /\ \E k \in 0..(Len(buf) - 1) :
                files' = Append(fs, NewFile(fr.id, SubSeq(buf, 1, k), "active"))
           /\ current' = Len(fs) + 1 /\ filename_buffer' = buf
  <2>1. PICK k \in 0..(Len(buf) - 1) :
             files' = Append(fs, NewFile(fr.id, SubSeq(buf, 1, k), "active"))
    BY <1>6
  <2>2. k \in 0..Len(buf)
    BY <1>1
  <2>3. /\ SubSeq(buf, 1, k) \in Seq(Frame)
        /\ \A i \in 1..Len(SubSeq(buf, 1, k)) : SubSeq(buf, 1, k)[i].id = fr.id
    BY <1>1, <2>2, UniformPrefix
  <2>4. "active" \in SidecarState
    BY DEF SidecarState
  <2>5. files' \in Seq(File) /\ MixFree(files') /\ Len(files') = Len(fs) + 1
    BY <2>1, <2>3, <2>4, NewFileKeeps
  <2>6. current' \in 0..Len(files')
    BY <1>6, <2>5
  <2>7. Uniform(filename_buffer') /\ filename_buffer' \in Seq(Frame)
    BY <1>1, <1>6 DEF Uniform
  <2> QED
    BY <1>6, <2>5, <2>6, <2>7 DEF MixFree, Fault
<1> QED
  BY <1>4, <1>5, <1>6 DEF OpenOrBuffer

-----------------------------------------------------------------------------
(***************************************************************************)
(* The branches of _handle_snap, one lemma each.                           *)
(***************************************************************************)
\* What a frame changes, typed and unmixed.
Kept ==
  /\ files' \in Seq(File) /\ MixFree(files')
  /\ current' \in 0..Len(files')
  /\ filename_buffer' \in Seq(Frame) /\ Uniform(filename_buffer')
  /\ pending' \in Seq(Frame) /\ Uniform(pending')
  /\ inactive_ticks' \in Nat /\ preopen_idle_ticks' \in Nat
  /\ faults' \in Nat

LEMMA FaultTyped == MixInv /\ (Fault \/ NoFault) => faults' \in Nat
BY DEF MixInv, TypeOK, Fault, NoFault

LEMMA EmptyUniform == <<>> \in Seq(Frame) /\ Uniform(<<>>)
BY DEF Uniform

LEMMA AmbiguousKeeps ==
  ASSUME MixInv, OnAmbiguous
  PROVE  Kept
BY EmptyUniform DEF MixInv, TypeOK, OnAmbiguous, Kept

LEMMA IdleKeeps ==
  ASSUME MixInv, NEW ia \in Nat, OnIdle(ia)
  PROVE  Kept
<1>1. /\ filename_buffer' \in {filename_buffer, <<>>} /\ pending' = <<>>
      /\ inactive_ticks' \in Nat /\ preopen_idle_ticks' \in Nat
      /\ UNCHANGED <<current, files, faults>>
  BY DEF MixInv, TypeOK, OnIdle
<1> QED
  BY <1>1, EmptyUniform DEF MixInv, TypeOK, Kept

LEMMA InactiveKeeps ==
  ASSUME MixInv, NEW ia \in Nat, OnInactive(ia)
  PROVE  Kept
<1> USE DEF MixInv, TypeOK
<1>1. current \in 1..Len(files) /\ "finalized" \in SidecarState
  BY DEF OnInactive, SidecarState
<1>2. /\ Sealed(files, current, "finalized") \in Seq(File)
      /\ MixFree(Sealed(files, current, "finalized"))
      /\ Len(Sealed(files, current, "finalized")) = Len(files)
      /\ CloseFailed(files, current) \in Seq(File)
      /\ MixFree(CloseFailed(files, current))
      /\ Len(CloseFailed(files, current)) = Len(files)
  BY <1>1, CloseKeeps
<1>3. /\ pending' = <<>> /\ preopen_idle_ticks' \in Nat
      /\ inactive_ticks' \in Nat
      /\ faults' \in Nat
  BY DEF OnInactive, Fault, NoFault
<1>4. /\ filename_buffer' \in {filename_buffer, <<>>}
      /\ current' \in {current, 0}
      /\ files' \in {files, Sealed(files, current, "finalized"),
                    CloseFailed(files, current)}
  BY DEF OnInactive
<1>5. Uniform(filename_buffer') /\ filename_buffer' \in Seq(Frame)
  BY <1>4, EmptyUniform
<1>6. files' \in Seq(File) /\ MixFree(files') /\ Len(files') = Len(files)
  BY <1>2, <1>4
<1> QED
  BY <1>1, <1>3, <1>4, <1>5, <1>6, EmptyUniform DEF Kept, MixFree, Uniform

LEMMA SameMatchKeeps ==
  ASSUME MixInv, NEW fr \in Frame, current # 0, files[current].id = fr.id,
         OnSameMatch(fr)
  PROVE  Kept
<1> USE DEF MixInv, TypeOK
<1>1. current \in 1..Len(files)
  OBVIOUS
<1>2. files[current] \in File
  BY <1>1
<1> DEFINE r == [files[current] EXCEPT !.frames = Append(@, fr)]
<1>4. \A i \in 1..Len(files[current].frames) :
        files[current].frames[i].id = files[current].id
  BY <1>1 DEF MixFree
<1>5. /\ files[current].frames \in Seq(Frame)
      /\ Append(files[current].frames, fr) \in Seq(Frame)
  BY <1>2 DEF File
<1>3. /\ r \in File /\ r.id = files[current].id
      /\ r.frames = Append(files[current].frames, fr)
  BY <1>2, <1>5 DEF File
<1> HIDE DEF r
<1>6. \A i \in 1..Len(r.frames) : r.frames[i].id = r.id
  <2>1. \A i \in 1..Len(Append(files[current].frames, fr)) :
          Append(files[current].frames, fr)[i].id = fr.id
    BY <1>4, <1>5
  <2> QED
    BY <1>3, <2>1
<1>7. [files EXCEPT ![current].frames = Append(@, fr)]
        = [files EXCEPT ![current] = r]
  BY DEF r
<1>8. /\ [files EXCEPT ![current] = r] \in Seq(File)
      /\ MixFree([files EXCEPT ![current] = r])
      /\ Len([files EXCEPT ![current] = r]) = Len(files)
  BY <1>1, <1>3, <1>6, ReplaceKeeps
<1>9. files' \in {files, [files EXCEPT ![current] = r]}
  BY <1>7 DEF OnSameMatch
<1>10. /\ pending' = <<>> /\ current' = current
       /\ filename_buffer' = filename_buffer
       /\ inactive_ticks' \in Nat /\ preopen_idle_ticks' \in Nat
       /\ faults' \in Nat
  BY DEF OnSameMatch, ClearIdle, Fault, NoFault
<1>11. files' \in Seq(File) /\ MixFree(files') /\ Len(files') = Len(files)
  BY <1>8, <1>9
<1> QED
  BY <1>10, <1>11, EmptyUniform DEF Kept, MixFree, Uniform

LEMMA NothingOpenKeeps ==
  ASSUME MixInv, NEW fr \in Frame, fr.id \in Id, NEW named \in BOOLEAN,
         NothingOpen(fr, named)
  PROVE  Kept
<1> USE DEF MixInv, TypeOK
<1>1. /\ files' \in Seq(File) /\ MixFree(files')
      /\ current' \in 0..Len(files')
      /\ filename_buffer' \in Seq(Frame) /\ Uniform(filename_buffer')
      /\ faults' \in {faults, faults + 1}
  BY OpenOrBufferKeeps DEF NothingOpen
<1> QED
  BY <1>1, EmptyUniform DEF Kept, NothingOpen, ClearIdle, Uniform

LEMMA OtherMatchKeeps ==
  ASSUME MixInv, NEW pend \in Seq(Frame), Uniform(pend),
         NEW fr \in Frame, fr.id \in Id, NEW named \in BOOLEAN,
         current # 0, OnOtherMatch(pend, fr, named)
  PROVE  Kept
<1> USE DEF MixInv, TypeOK
<1> DEFINE p == IF pend # <<>> /\ Head(pend).id = fr.id
                THEN Append(pend, fr) ELSE <<fr>>
<1>1. p \in Seq(Frame) /\ Uniform(p) /\ Len(p) \in Nat \ {0}
  <2>1. CASE pend # <<>> /\ Head(pend).id = fr.id
    <3>1. /\ Append(pend, fr) \in Seq(Frame) /\ Uniform(Append(pend, fr))
          /\ Len(Append(pend, fr)) = Len(pend) + 1
      BY <2>1, UniformAppend
    <3> QED
      BY <2>1, <3>1
  <2>2. CASE ~(pend # <<>> /\ Head(pend).id = fr.id)
    BY <2>2 DEF Uniform
  <2> QED
    BY <2>1, <2>2
<1>2. current \in 1..Len(files) /\ "finalized" \in SidecarState
  BY DEF SidecarState
<1>3. /\ Sealed(files, current, "finalized") \in Seq(File)
      /\ MixFree(Sealed(files, current, "finalized"))
      /\ CloseFailed(files, current) \in Seq(File)
      /\ MixFree(CloseFailed(files, current))
      /\ Len(CloseFailed(files, current)) = Len(files)
  BY <1>2, CloseKeeps
<1>4. Len(p) - 1 \in 0..Len(p)
  BY <1>1
<1>5. Seed(p) \in Seq(Frame) /\ Uniform(Seed(p))
  BY <1>1, <1>4, UniformPrefix DEF Seed
<1>6. inactive_ticks' \in Nat /\ preopen_idle_ticks' \in Nat
  BY DEF OnOtherMatch, ClearIdle
<1> HIDE DEF p
<1>7. CASE /\ pending' = p
           /\ UNCHANGED <<current, filename_buffer, files, faults>>
  BY <1>1, <1>6, <1>7 DEF Kept, MixFree, Uniform
<1>8. CASE /\ Fault /\ files' = CloseFailed(files, current)
           /\ pending' = p
           /\ UNCHANGED <<current, filename_buffer>>
  <2>1. files' \in Seq(File) /\ MixFree(files') /\ Len(files') = Len(files)
    BY <1>3, <1>8
  <2>2. faults' \in Nat
    BY <1>8 DEF Fault
  <2> QED
    BY <1>1, <1>6, <1>8, <2>1, <2>2 DEF Kept, MixFree, Uniform
<1>9. CASE /\ pending' = <<>>
           /\ OpenOrBuffer(Sealed(files, current, "finalized"), Seed(p), fr, named)
  <2>1. /\ files' \in Seq(File) /\ MixFree(files')
        /\ current' \in 0..Len(files')
        /\ filename_buffer' \in Seq(Frame) /\ Uniform(filename_buffer')
        /\ faults' \in {faults, faults + 1}
    BY <1>3, <1>5, <1>9, OpenOrBufferKeeps
  <2> QED
    BY <1>6, <1>9, <2>1, EmptyUniform DEF Kept, Uniform
<1> QED
  BY <1>7, <1>8, <1>9 DEF OnOtherMatch, p

-----------------------------------------------------------------------------
(***************************************************************************)
(* The invariant of the whole recorder, worker respawns included.          *)
(***************************************************************************)
LEMMA ReadingTyped ==
  ASSUME MixInv, NEW r \in Readings
  PROVE  /\ r.kind = "active" => r.id \in Id
         /\ tornRun' \in Nat \/ ~Builds(r)
BY DEF MixInv, TypeOK, Readings, Torn, TornId, Truth, Active, Inactive, Ambiguous, NoId, Unreadable, Reads,
       Builds, Id

LEMMA HandleSnapKeeps ==
  ASSUME MixInv, NEW r \in Readings, NEW named \in BOOLEAN,
         tick < MaxTick, HandleSnap(r, named, tick + 1)
  PROVE  Kept /\ last_tick' \in Nat
<1> DEFINE t    == tick + 1
           ia   == IF Unbroken(t) THEN inactive_ticks ELSE 0
           pend == IF Unbroken(t) THEN pending ELSE <<>>
           fr   == [id |-> r.id, tick |-> t]
<1>1. ia \in Nat
  BY DEF MixInv, TypeOK
<1>2. pend \in Seq(Frame) /\ Uniform(pend)
  BY EmptyUniform DEF MixInv, TypeOK
<1>3. t \in Tick
  BY ReaderAssumption, ConstantsAssumption DEF MixInv, TypeOK, Tick
<1>4. r.kind = "active" => fr \in Frame /\ fr.id \in Id /\ fr.id = r.id
  BY <1>3, ReadingTyped DEF Frame
<1>5. last_tick' \in Nat
  BY DEF MixInv, TypeOK, HandleSnap
<1>6. \/ OnAmbiguous \/ OnIdle(ia) \/ OnInactive(ia)
      \/ /\ r.kind = "active"
         /\ \/ NothingOpen(fr, named)
            \/ current # 0 /\ files[current].id = r.id /\ OnSameMatch(fr)
            \/ current # 0 /\ OnOtherMatch(pend, fr, named)
  BY DEF HandleSnap
<1> HIDE DEF t, ia, pend, fr
<1> QED
  BY <1>1, <1>2, <1>4, <1>5, <1>6, AmbiguousKeeps, IdleKeeps, InactiveKeeps,
     NothingOpenKeeps, SameMatchKeeps, OtherMatchKeeps

LEMMA MixInvInit == Init => MixInv
BY ReaderAssumption, ConstantsAssumption DEF Init, GameInit, MixInv, TypeOK, MixFree, Uniform

LEMMA FullFrameMix ==
  ASSUME MixInv, NEW r \in Readings, NEW named \in BOOLEAN, FullFrame(r, named)
  PROVE  MixInv'
<1>1. Kept /\ last_tick' \in Nat
  BY HandleSnapKeeps DEF FullFrame, Builds
<1>2. tornRun' \in Nat
  BY ReadingTyped DEF FullFrame
<1>3. /\ live' = live /\ seen' = seen /\ restarts' = restarts
      /\ tick' = tick + 1 /\ entities' = live
  BY DEF FullFrame, Builds, gameVars
<1>4. TypeOK'
  BY <1>1, <1>2, <1>3 DEF MixInv, TypeOK, Kept
<1> QED
  BY <1>1, <1>4 DEF MixInv, Kept, MixFree, Uniform

LEMMA PositionFrameMix ==
  ASSUME MixInv, PositionFrame
  PROVE  MixInv'
<1> USE DEF MixInv, TypeOK
<1>1. current \in 1..Len(files) /\ files[current] \in File
  BY DEF PositionFrame
<1> DEFINE r == [files[current] EXCEPT !.sampled = @ \cup {entities}]
<1>2. entities \in Match
  BY DEF PositionFrame
<1>3. /\ r \in File /\ r.id = files[current].id
      /\ r.frames = files[current].frames
  BY <1>1, <1>2 DEF File
<1>4. \A i \in 1..Len(files[current].frames) :
        files[current].frames[i].id = files[current].id
  BY <1>1 DEF MixFree
<1>5. files' = [files EXCEPT ![current] = r]
  BY DEF PositionFrame
<1>10. files \in Seq(File) /\ MixFree(files) /\ current \in 1..Len(files)
  BY <1>1
<1> HIDE DEF r, MixInv, TypeOK
<1>11. \A i \in 1..Len(r.frames) : r.frames[i].id = r.id
  BY <1>3, <1>4
<1>6. files' \in Seq(File) /\ MixFree(files') /\ Len(files') = Len(files)
  BY <1>3, <1>5, <1>10, <1>11, ReplaceKeeps
<1> USE DEF MixInv, TypeOK
<1>7. UNCHANGED <<gameVars, readerVars, stateBox, faults, restarts>>
  BY DEF PositionFrame
<1>8. TypeOK'
  BY <1>6, <1>7 DEF gameVars, readerVars, stateBox
<1>9. MixFree(files)'
  BY <1>6 DEF MixFree
<1> QED
  BY <1>7, <1>8, <1>9 DEF stateBox, Uniform

LEMMA ProcessMix ==
  ASSUME MixInv, Process
  PROVE  MixInv'
<1> USE DEF MixInv, TypeOK
<1>1. ShutdownVerdict \in SidecarState
  BY DEF ShutdownVerdict, SidecarState
<1>2. current # 0 =>
        /\ Sealed(files, current, ShutdownVerdict) \in Seq(File)
        /\ MixFree(Sealed(files, current, ShutdownVerdict))
        /\ CloseFailed(files, current) \in Seq(File)
        /\ MixFree(CloseFailed(files, current))
  BY <1>1, CloseKeeps
<1>3. /\ Reboots /\ faults' \in Nat
      /\ \/ files' = files
         \/ current # 0 /\ files' = Sealed(files, current, ShutdownVerdict)
         \/ current # 0 /\ files' = CloseFailed(files, current)
  BY DEF Process, Shutdown, Crash, Fault, NoFault
<1>4. files' \in Seq(File) /\ MixFree(files')
  BY <1>2, <1>3
<1>5. TypeOK'
  BY <1>3, <1>4, EmptyUniform, ReaderAssumption, ConstantsAssumption DEF Reboots, gameVars
<1> QED
  BY <1>3, <1>4, <1>5 DEF Reboots, MixFree, Uniform

LEMMA MixInvStep == MixInv /\ [TwoTierNext]_vars => MixInv'
<1> SUFFICES ASSUME MixInv, [TwoTierNext]_vars PROVE MixInv'
  OBVIOUS
<1>1. CASE Game
  BY <1>1 DEF Game, MatchStarts, MatchEnds, Starts, Ends, MixInv, TypeOK, MixFree, Uniform,
              readerVars, stateBox
<1>2. CASE \E r \in Readings, named \in BOOLEAN : FullFrame(r, named)
  BY <1>2, FullFrameMix
<1>3. ASSUME NEW r \in Readings, SkippedFrame(r) PROVE MixInv'
  <2>1. tornRun' \in Nat /\ tick' = tick + 1
    BY <1>3, ReadingTyped DEF SkippedFrame, Builds
  <2>2. UNCHANGED <<gameVars, entities, stateBox, files, faults, restarts>>
    BY <1>3 DEF SkippedFrame
  <2>3. TypeOK'
    BY <1>3, <2>1, <2>2 DEF MixInv, TypeOK, Builds, gameVars, stateBox
  <2> QED
    BY <2>2, <2>3 DEF MixInv, MixFree, Uniform, stateBox
<1>4. CASE UntickedFrame
  BY <1>4, EmptyUniform
     DEF UntickedFrame, MixInv, TypeOK, MixFree, Uniform, gameVars, readerVars
<1>5. CASE Process
  BY <1>5, ProcessMix
<1>6. CASE PositionFrame
  BY <1>6, PositionFrameMix
<1>7. CASE WorkerRespawn
  BY <1>7 DEF WorkerRespawn, MixInv, TypeOK, MixFree, Uniform, gameVars,
              stateBox
<1>8. CASE UNCHANGED vars
  BY <1>8 DEF vars, MixInv, TypeOK, MixFree, Uniform, gameVars, readerVars,
              stateBox
<1> QED
  BY <1>1, <1>2, <1>3, <1>4, <1>5, <1>6, <1>7, <1>8
     DEF TwoTierNext, Next, Reader

(***************************************************************************)
(* The types hold in every reachable state of the two-tier recorder.       *)
(***************************************************************************)
THEOREM RecorderTyped == TwoTierSpec => []TypeOK
<1>1. MixInv => TypeOK
  BY DEF MixInv
<1> QED
  BY MixInvInit, MixInvStep, <1>1, PTL DEF TwoTierSpec

(***************************************************************************)
(* A recording never holds a full frame of another match, whatever is      *)
(* torn, skipped, restarted or fails, in either mode of serving.           *)
(***************************************************************************)
THEOREM RecordingsUnmixed == TwoTierSpec => []OneMatchPerFile
<1>1. MixInv => OneMatchPerFile
  BY DEF MixInv, MixFree, OneMatchPerFile
<1> QED
  BY MixInvInit, MixInvStep, <1>1, PTL DEF TwoTierSpec

-----------------------------------------------------------------------------
(***************************************************************************)
(* FinalizedIsOver for every value of the constants, when the agent itself *)
(* numbers its frames (Spec).  TwoTierSpec does not have the property: a   *)
(* respawned build worker numbers its frames from 1 again.                 *)
(***************************************************************************)
(***************************************************************************)
(* The argument.  A confirmation that would close the live match counts    *)
(* only torn frames, and only torn frames of the current torn run: an      *)
(* unbroken tick sequence shows that no true frame was missed in between.  *)
(* So it is never longer than tornRun, which stays below Confirm.          *)
(***************************************************************************)
Known == seen \cup Garbage

\* The recordings fs are of known matches; the finalized ones not of m.
Settled(fs, known, m) ==
  \A f \in 1..Len(fs) :
    fs[f].id \in known /\ (fs[f].sidecar = "finalized" => fs[f].id # m)

LiveKnown  == live \in seen \cup {NoMatch}
TornBound  == tornRun <= MaxTorn
TickBound  == last_tick # NoTick => last_tick <= tick
FreshStart == last_tick = NoTick => inactive_ticks = 0 /\ pending = <<>>
TrustRuns  ==
  current # 0 /\ files[current].id = live /\ last_tick \in {tick, NoTick}
    => inactive_ticks <= tornRun /\ Len(pending) <= tornRun

FinalityInv ==
  /\ MixInv
  /\ LiveKnown /\ TornBound /\ TickBound /\ FreshStart /\ TrustRuns
  /\ Settled(files, Known, live)

-----------------------------------------------------------------------------
(***************************************************************************)
(* What the directory operations do to Settled.                            *)
(***************************************************************************)
\* Closing a recording with a verdict, which is only final if it is not m's.
LEMMA SealSettled ==
  ASSUME NEW fs \in Seq(File), NEW known, NEW m, NEW f \in 1..Len(fs),
         NEW state \in SidecarState, Settled(fs, known, m),
         state = "finalized" => fs[f].id # m
  PROVE  Settled(Sealed(fs, f, state), known, m)
<1> DEFINE r == [fs[f] EXCEPT !.closed = TRUE, !.sidecar = state]
           gs == [fs EXCEPT ![f] = r]
<1>1. fs[f] \in File
  OBVIOUS
<1>2. r.id = fs[f].id /\ r.sidecar = state
  BY <1>1 DEF File
<1>3. gs = Sealed(fs, f, state)
  BY <1>1 DEF File, Sealed
<1> HIDE DEF r
<1>4. Len(gs) = Len(fs) /\ \A g \in 1..Len(fs) : gs[g] = IF g = f THEN r ELSE fs[g]
  OBVIOUS
<1> HIDE DEF gs
<1>5. Settled(gs, known, m)
  BY <1>2, <1>4 DEF Settled
<1> QED
  BY <1>3, <1>5

\* Closing the writer without a verdict.
LEMMA CloseSettled ==
  ASSUME NEW fs \in Seq(File), NEW known, NEW m, NEW f \in 1..Len(fs),
         Settled(fs, known, m)
  PROVE  Settled(CloseFailed(fs, f), known, m)
<1> DEFINE r == [fs[f] EXCEPT !.closed = TRUE]
           gs == [fs EXCEPT ![f] = r]
<1>1. fs[f] \in File
  OBVIOUS
<1>2. r.id = fs[f].id /\ r.sidecar = fs[f].sidecar
  BY <1>1 DEF File
<1>3. gs = CloseFailed(fs, f)
  BY DEF CloseFailed
<1> HIDE DEF r
<1>4. Len(gs) = Len(fs) /\ \A g \in 1..Len(fs) : gs[g] = IF g = f THEN r ELSE fs[g]
  OBVIOUS
<1> HIDE DEF gs
<1>5. Settled(gs, known, m)
  BY <1>2, <1>4 DEF Settled
<1> QED
  BY <1>3, <1>5

\* A new recording of a known match, open.
LEMMA NewFileSettled ==
  ASSUME NEW fs \in Seq(File), NEW known, NEW m, Settled(fs, known, m),
         NEW i \in Id, i \in known, NEW frames \in Seq(Frame),
         NEW state \in {"active", "missing"}
  PROVE  Settled(Append(fs, NewFile(i, frames, state)), known, m)
<1> DEFINE new == NewFile(i, frames, state)
<1>1. new \in File
  BY DEF NewFile, File, SidecarState
<1>2. new.id = i /\ new.sidecar # "finalized"
  BY DEF NewFile
<1> HIDE DEF new
<1>3. Settled(Append(fs, new), known, m)
  BY <1>1, <1>2 DEF Settled
<1> QED
  BY <1>3 DEF new

LEMMA OpenOrBufferSettled ==
  ASSUME NEW fs \in Seq(File), NEW known, NEW m, Settled(fs, known, m),
         NEW buf0 \in Seq(Frame), Uniform(buf0),
         NEW fr \in Frame, fr.id \in Id, fr.id \in known, NEW named \in BOOLEAN,
         OpenOrBuffer(fs, buf0, fr, named)
  PROVE  Settled(files', known, m)
<1> DEFINE buf == Buffered(buf0, fr)
<1>1. buf \in Seq(Frame) /\ Uniform(buf)
  BY BufferedUniform
<1>2. \A k \in 0..(Len(buf) - 1) : SubSeq(buf, 1, k) \in Seq(Frame)
  <2> SUFFICES ASSUME NEW k \in 0..(Len(buf) - 1)
               PROVE  SubSeq(buf, 1, k) \in Seq(Frame)
    OBVIOUS
  <2>1. k \in 0..Len(buf)
    BY <1>1
  <2> QED
    BY <1>1, <2>1, UniformPrefix
<1>3. \/ files' = fs
      \/ \E state \in {"active", "missing"} :
           files' = Append(fs, NewFile(fr.id, buf, state))
      \/ \E k \in 0..(Len(buf) - 1) :
           files' = Append(fs, NewFile(fr.id, SubSeq(buf, 1, k), "active"))
  BY DEF OpenOrBuffer
<1> HIDE DEF buf
<1> QED
  BY <1>1, <1>2, <1>3, NewFileSettled

-----------------------------------------------------------------------------
(***************************************************************************)
(* A frame.  r is what it reads; it is torn unless it reads the truth.     *)
(***************************************************************************)
\* A torn frame is one more of its run, and a run stays below Confirm.
LEMMA TornRunGrows ==
  ASSUME FinalityInv, NEW r \in Readings, Builds(r)
  PROVE  /\ tornRun' \in Nat /\ tornRun' <= MaxTorn
         /\ r \in Torn => tornRun' = tornRun + 1 /\ tornRun' < Confirm
BY ReaderAssumption, ConstantsAssumption, TornAssumption
   DEF FinalityInv, MixInv, TypeOK, TornBound, Builds, Readings, Torn,
       Truth, TornId, Reads, Ambiguous, NoId, Unreadable, Active, Inactive

\* What claims that the live match is not being played is torn.
LEMMA ContraryIsTorn ==
  ASSUME FinalityInv, NEW r \in Readings, NEW i \in Id, i = live,
         r.kind = "inactive" \/ (r.kind = "active" /\ r.id # i)
  PROVE  r \in Torn
BY ReaderAssumption, ConstantsAssumption
   DEF FinalityInv, Readings, Truth, TornId, Reads, Ambiguous, NoId, Unreadable, Active, Inactive

\* An active reading names a match that has been played, or garbage.
LEMMA ActiveIsKnown ==
  ASSUME FinalityInv, NEW r \in Readings, r.kind = "active"
  PROVE  r.id \in Known /\ r.id \in Id
BY DEF FinalityInv, MixInv, TypeOK, LiveKnown, Known, Readings, Torn, Truth,
       TornId, Reads, Ambiguous, NoId, Unreadable, Active, Inactive, Id

\* What a consumed frame leaves behind.
Concluded ==
  /\ Settled(files', Known, live)
  /\ \/ current' = 0
     \/ inactive_ticks' = 0 /\ pending' = <<>>
     \/ /\ files' = files \/ files' = CloseFailed(files, current)
        /\ current' = current
        /\ files[current].id = live =>
             inactive_ticks' <= tornRun' /\ Len(pending') <= tornRun'

LEMMA InactiveConcludes ==
  ASSUME FinalityInv, NEW r \in Readings, Builds(r), r.kind = "inactive",
         NEW ia \in Nat, current # 0 /\ files[current].id = live => ia <= tornRun,
         OnInactive(ia)
  PROVE  Concluded
<1>1. /\ current \in 1..Len(files) /\ files[current] \in File
      /\ files \in Seq(File) /\ Settled(files, Known, live)
      /\ tornRun \in Nat
  BY DEF OnInactive, FinalityInv, MixInv, TypeOK
<1>2. files[current].id = live => tornRun' = tornRun + 1 /\ tornRun' < Confirm
  <2> SUFFICES ASSUME files[current].id = live
               PROVE  tornRun' = tornRun + 1 /\ tornRun' < Confirm
    OBVIOUS
  <2>1. files[current].id \in Id
    BY <1>1 DEF File
  <2> QED
    BY <2>1, ContraryIsTorn, TornRunGrows
<1>3. Confirm \in Nat /\ "finalized" \in SidecarState
  BY ReaderAssumption, ConstantsAssumption DEF SidecarState
<1>4. CASE ia + 1 < Confirm
  <2>1. /\ inactive_ticks' = ia + 1 /\ pending' = <<>> /\ files' = files
        /\ current' = current
    BY <1>4 DEF OnInactive
  <2> QED
    BY <1>1, <1>2, <2>1 DEF Concluded, OnInactive
<1>5. CASE ~(ia + 1 < Confirm)
  <2>1. inactive_ticks' = 0 /\ pending' = <<>>
    BY <1>5 DEF OnInactive
  <2>2. files[current].id # live
    BY <1>1, <1>2, <1>3, <1>5 DEF OnInactive
  <2>3. \/ files' = Sealed(files, current, "finalized")
        \/ files' = CloseFailed(files, current)
    BY <1>5 DEF OnInactive
  <2>4. Settled(files', Known, live)
    BY <1>1, <1>3, <2>2, <2>3, SealSettled, CloseSettled
  <2> QED
    BY <2>1, <2>4 DEF Concluded
<1> QED
  BY <1>4, <1>5

LEMMA SameMatchConcludes ==
  ASSUME FinalityInv, current # 0, NEW fr \in Frame, OnSameMatch(fr)
  PROVE  Concluded
<1>1. /\ current \in 1..Len(files) /\ files[current] \in File
      /\ files \in Seq(File) /\ Settled(files, Known, live)
  BY DEF FinalityInv, MixInv, TypeOK
<1>2. inactive_ticks' = 0 /\ pending' = <<>>
  BY DEF OnSameMatch, ClearIdle
<1> DEFINE r == [files[current] EXCEPT !.frames = Append(@, fr)]
<1>3. files' = files \/ files' = [files EXCEPT ![current] = r]
  BY DEF OnSameMatch
<1>4. r.id = files[current].id /\ r.sidecar = files[current].sidecar
  BY <1>1 DEF File
<1> HIDE DEF r
<1>5. Settled([files EXCEPT ![current] = r], Known, live)
  BY <1>1, <1>4 DEF Settled
<1> QED
  BY <1>1, <1>2, <1>3, <1>5 DEF Concluded

LEMMA OtherMatchConcludes ==
  ASSUME FinalityInv, NEW r \in Readings, Builds(r), r.kind = "active",
         current # 0, files[current].id # r.id,
         NEW pend \in Seq(Frame), Uniform(pend),
         files[current].id = live => Len(pend) <= tornRun,
         NEW fr \in Frame, fr.id = r.id, NEW named \in BOOLEAN,
         OnOtherMatch(pend, fr, named)
  PROVE  Concluded
<1> DEFINE p == IF pend # <<>> /\ Head(pend).id = fr.id
                THEN Append(pend, fr) ELSE <<fr>>
<1>1. /\ current \in 1..Len(files) /\ files[current] \in File
      /\ files \in Seq(File) /\ Settled(files, Known, live)
      /\ tornRun \in Nat
  BY DEF FinalityInv, MixInv, TypeOK
<1>2. p \in Seq(Frame) /\ Uniform(p) /\ Len(p) \in Nat /\ Len(p) <= Len(pend) + 1
  <2>1. CASE pend # <<>> /\ Head(pend).id = fr.id
    BY <2>1, UniformAppend
  <2>2. CASE ~(pend # <<>> /\ Head(pend).id = fr.id)
    BY <2>2 DEF Uniform
  <2> QED
    BY <2>1, <2>2
<1>3. files[current].id = live => tornRun' = tornRun + 1 /\ tornRun' < Confirm
  <2> SUFFICES ASSUME files[current].id = live
               PROVE  tornRun' = tornRun + 1 /\ tornRun' < Confirm
    OBVIOUS
  <2>1. files[current].id \in Id
    BY <1>1 DEF File
  <2> QED
    BY <2>1, ContraryIsTorn, TornRunGrows
<1>4. files[current].id = live => Len(p) <= tornRun' /\ Len(p) < Confirm
  BY <1>1, <1>2, <1>3, ReaderAssumption, ConstantsAssumption
<1>5. \/ pending' = p /\ files' = files /\ current' = current
      \/ pending' = p /\ files' = CloseFailed(files, current) /\ current' = current
      \/ /\ Len(p) >= Confirm /\ pending' = <<>>
         /\ OpenOrBuffer(Sealed(files, current, "finalized"), Seed(p), fr, named)
  BY DEF OnOtherMatch
<1>6. inactive_ticks' = 0
  BY DEF OnOtherMatch, ClearIdle
<1> HIDE DEF p
<1>7. CASE pending' = p /\ files' = files /\ current' = current
  BY <1>1, <1>3, <1>4, <1>6, <1>7 DEF Concluded
<1>8. CASE pending' = p /\ files' = CloseFailed(files, current) /\ current' = current
  BY <1>1, <1>3, <1>4, <1>6, <1>8, CloseSettled DEF Concluded
<1>9. CASE /\ Len(p) >= Confirm /\ pending' = <<>>
           /\ OpenOrBuffer(Sealed(files, current, "finalized"), Seed(p), fr, named)
  <2>1. files[current].id # live
    BY <1>2, <1>4, <1>9, ReaderAssumption, ConstantsAssumption
  <2>2. "finalized" \in SidecarState
    BY DEF SidecarState
  <2>3. /\ Sealed(files, current, "finalized") \in Seq(File)
        /\ Settled(Sealed(files, current, "finalized"), Known, live)
    BY <1>1, <2>1, <2>2, SealSettled, CloseKeeps DEF FinalityInv, MixInv
  <2>4. Len(p) - 1 \in 0..Len(p)
    BY <1>2, <1>9, ReaderAssumption, ConstantsAssumption
  <2>5. Seed(p) \in Seq(Frame) /\ Uniform(Seed(p))
    BY <1>2, <2>4, UniformPrefix DEF Seed
  <2>6. fr.id \in Known /\ fr.id \in Id
    BY ActiveIsKnown
  <2>7. Settled(files', Known, live)
    BY <1>9, <2>3, <2>5, <2>6, OpenOrBufferSettled
  <2> QED
    BY <1>6, <1>9, <2>7 DEF Concluded
<1> QED
  BY <1>5, <1>7, <1>8, <1>9

LEMMA HandleSnapConcludes ==
  ASSUME FinalityInv, NEW r \in Readings, NEW named \in BOOLEAN, Builds(r),
         HandleSnap(r, named, tick + 1)
  PROVE  Concluded
<1> DEFINE t    == tick + 1
           ia   == IF Unbroken(t) THEN inactive_ticks ELSE 0
           pend == IF Unbroken(t) THEN pending ELSE <<>>
           fr   == [id |-> r.id, tick |-> t]
<1>1. ia \in Nat /\ pend \in Seq(Frame) /\ Uniform(pend)
  BY EmptyUniform DEF FinalityInv, MixInv, TypeOK
<1>2. current # 0 /\ files[current].id = live =>
        ia <= tornRun /\ Len(pend) <= tornRun
  \* Unbroken(t): no frame yet, or the last one handled was the last one built
  BY DEF FinalityInv, MixInv, TypeOK, TrustRuns, Unbroken
<1>3. t \in Tick
  BY ReaderAssumption, ConstantsAssumption DEF FinalityInv, MixInv, TypeOK, Tick, Builds
<1>4. r.kind = "active" => fr \in Frame /\ fr.id \in Id /\ fr.id = r.id
  BY <1>3, ActiveIsKnown DEF Frame
<1>5. \/ r \in Ambiguous /\ OnAmbiguous
      \/ r.kind = "inactive" /\ (OnIdle(ia) \/ OnInactive(ia))
      \/ /\ r.kind = "active"
         /\ \/ current = 0 /\ NothingOpen(fr, named)
            \/ current # 0 /\ files[current].id = r.id /\ OnSameMatch(fr)
            \/ /\ current # 0 /\ files[current].id # r.id
               /\ OnOtherMatch(pend, fr, named)
  BY DEF HandleSnap
<1>6. Settled(files, Known, live) /\ files \in Seq(File)
  BY DEF FinalityInv, MixInv, TypeOK
<1> HIDE DEF t, ia, pend, fr
<1>7. CASE OnAmbiguous
  BY <1>6, <1>7 DEF OnAmbiguous, Concluded
<1>8. CASE OnIdle(ia)
  BY <1>6, <1>8 DEF OnIdle, Concluded
<1>9. CASE r.kind = "inactive" /\ OnInactive(ia)
  BY <1>1, <1>2, <1>9, InactiveConcludes
<1>10. CASE r.kind = "active" /\ NothingOpen(fr, named)
  <2>1. Settled(files', Known, live)
    BY <1>4, <1>6, <1>10, OpenOrBufferSettled, ActiveIsKnown
       DEF NothingOpen, FinalityInv, MixInv, TypeOK
  <2> QED
    BY <1>10, <2>1 DEF NothingOpen, ClearIdle, Concluded
<1>11. CASE r.kind = "active" /\ current # 0 /\ OnSameMatch(fr)
  BY <1>4, <1>11, SameMatchConcludes
<1>12. CASE /\ r.kind = "active" /\ current # 0 /\ files[current].id # r.id
            /\ OnOtherMatch(pend, fr, named)
  BY <1>1, <1>2, <1>4, <1>12, OtherMatchConcludes
<1> QED
  BY <1>5, <1>7, <1>8, <1>9, <1>10, <1>11, <1>12

-----------------------------------------------------------------------------
LEMMA FinalityInit == Init => FinalityInv
BY MixInvInit, ReaderAssumption, ConstantsAssumption
   DEF Init, GameInit, FinalityInv, LiveKnown, TornBound, TickBound, FreshStart,
       TrustRuns, Settled

LEMMA FullFrameFinality ==
  ASSUME FinalityInv, MixInv', NEW r \in Readings, NEW named \in BOOLEAN,
         FullFrame(r, named)
  PROVE  FinalityInv'
<1>1. Builds(r) /\ HandleSnap(r, named, tick + 1) /\ UNCHANGED gameVars
  BY DEF FullFrame
<1>2. Concluded
  BY <1>1, HandleSnapConcludes
<1>3. tick' = tick + 1 /\ last_tick' = tick + 1
  BY <1>1 DEF Builds, HandleSnap
<1>4. TickBound' /\ FreshStart' /\ LiveKnown' /\ TornBound'
  <2>1. TickBound' /\ FreshStart'
    <3>1. tick' \in Nat /\ last_tick' = tick'
      BY <1>3 DEF MixInv, TypeOK
    <3>2. last_tick' # NoTick
      BY <3>1, ConstantsAssumption
    <3> QED
      BY <3>1, <3>2 DEF TickBound, FreshStart
  <2>2. LiveKnown'
    BY <1>1 DEF FinalityInv, LiveKnown, gameVars
  <2>3. TornBound'
    BY <1>1, TornRunGrows, ReaderAssumption
       DEF FinalityInv, MixInv, TypeOK, TornBound
  <2> QED
    BY <2>1, <2>2, <2>3
<1>5. Settled(files', Known', live')
  BY <1>1, <1>2 DEF Concluded, Known, gameVars
<1>6. TrustRuns'
  <2>1. CASE current' = 0
    BY <2>1 DEF TrustRuns
  <2>2. CASE inactive_ticks' = 0 /\ pending' = <<>>
    BY <1>1, <2>2, TornRunGrows DEF TrustRuns
  <2>3. CASE /\ files' = files \/ files' = CloseFailed(files, current)
             /\ current' = current /\ current # 0
             /\ files[current].id = live =>
                  inactive_ticks' <= tornRun' /\ Len(pending') <= tornRun'
    <3>1. current \in 1..Len(files) /\ files[current] \in File
      BY <2>3 DEF FinalityInv, MixInv, TypeOK
    <3>2. files'[current].id = files[current].id
      BY <2>3, <3>1 DEF CloseFailed, File
    <3> QED
      BY <1>1, <2>3, <3>2 DEF TrustRuns, gameVars
  <2> QED
    BY <1>2, <2>1, <2>2, <2>3 DEF Concluded
<1> QED
  BY <1>4, <1>5, <1>6 DEF FinalityInv, Settled, Known

LEMMA ProcessFinality ==
  ASSUME FinalityInv, MixInv', Process
  PROVE  FinalityInv'
<1>1. ShutdownVerdict \in SidecarState /\ ShutdownVerdict # "finalized"
  BY DEF ShutdownVerdict, SidecarState
<1>2. /\ Reboots
      /\ \/ files' = files
         \/ current # 0 /\ files' = Sealed(files, current, ShutdownVerdict)
         \/ current # 0 /\ files' = CloseFailed(files, current)
  BY DEF Process, Shutdown, Crash
<1>3. files \in Seq(File) /\ Settled(files, Known, live)
      /\ (current # 0 => current \in 1..Len(files))
  BY DEF FinalityInv, MixInv, TypeOK
<1>4. Settled(files', Known, live)
  BY <1>1, <1>2, <1>3, SealSettled, CloseSettled
<1>5. LiveKnown' /\ TornBound' /\ TickBound' /\ FreshStart' /\ TrustRuns'
  BY <1>2, TornAssumption, ReaderAssumption, ConstantsAssumption
     DEF Reboots, gameVars, FinalityInv, LiveKnown, TornBound, TickBound,
         FreshStart, TrustRuns
<1> QED
  BY <1>2, <1>4, <1>5 DEF FinalityInv, Settled, Known, Reboots, gameVars

LEMMA FinalityStep == FinalityInv /\ [Next]_vars => FinalityInv'
<1> SUFFICES ASSUME FinalityInv, [Next]_vars PROVE FinalityInv'
  OBVIOUS
<1>1. MixInv'
  <2>1. MixInv /\ [TwoTierNext]_vars
    BY DEF FinalityInv, TwoTierNext
  <2> QED
    BY <2>1, MixInvStep
<1>2. ASSUME NEW m \in Match, MatchStarts(m) PROVE FinalityInv'
  <2>1. m \notin Known /\ live' = m /\ Known' = Known \cup {m}
    BY <1>2, ReaderAssumption, ConstantsAssumption DEF MatchStarts, Starts, Known
  <2>2. UNCHANGED <<readerVars, stateBox, files>>
    BY <1>2 DEF MatchStarts, Starts
  <2>3. Settled(files', Known', live')
    BY <2>1, <2>2 DEF FinalityInv, Settled
  <2>4. current' # 0 => files'[current'].id # live'
    BY <2>1, <2>2 DEF FinalityInv, Settled, MixInv, TypeOK, stateBox
  <2>5. LiveKnown' /\ TornBound' /\ TickBound' /\ FreshStart' /\ TrustRuns'
    BY <1>2, <2>2, <2>4
       DEF MatchStarts, Starts, FinalityInv, LiveKnown, TornBound, TickBound,
           FreshStart, TrustRuns, readerVars, stateBox
  <2> QED
    BY <1>1, <2>3, <2>5 DEF FinalityInv, Settled, Known
<1>3. CASE MatchEnds
  <2>1. UNCHANGED <<seen, readerVars, stateBox, files>> /\ live' = NoMatch
    BY <1>3 DEF MatchEnds, Ends
  <2>2. \A f \in 1..Len(files) : files[f].id # NoMatch
    <3>1. files \in Seq(File)
      BY DEF FinalityInv, MixInv, TypeOK
    <3>2. \A f \in 1..Len(files) : files[f] \in File
      BY <3>1
    <3> QED
      BY <3>2, ReaderAssumption, ConstantsAssumption DEF File
  <2>3. Settled(files', Known', live')
    BY <2>1, <2>2 DEF FinalityInv, Settled, Known
  <2>4. current' # 0 => files'[current'].id # live'
    BY <2>1, <2>2 DEF FinalityInv, MixInv, TypeOK, stateBox
  <2>5. LiveKnown' /\ TornBound' /\ TickBound' /\ FreshStart' /\ TrustRuns'
    BY <2>1, <2>4
       DEF FinalityInv, LiveKnown, TornBound, TickBound, FreshStart,
           TrustRuns, readerVars, stateBox
  <2> QED
    BY <1>1, <2>3, <2>5 DEF FinalityInv, Settled, Known
<1>4. ASSUME NEW r \in Readings, NEW named \in BOOLEAN, FullFrame(r, named)
      PROVE  FinalityInv'
  BY <1>1, <1>4, FullFrameFinality
<1>5. ASSUME NEW r \in Readings, SkippedFrame(r) PROVE FinalityInv'
  <2>1. /\ UNCHANGED <<gameVars, stateBox, files>>
        /\ tick' = tick + 1 /\ Builds(r)
    BY <1>5 DEF SkippedFrame, Builds
  <2>2. last_tick' \in {tick', NoTick} => last_tick' = NoTick
    BY <2>1, ReaderAssumption, ConstantsAssumption
       DEF FinalityInv, MixInv, TypeOK, TickBound, stateBox
  <2>3. TornBound' /\ tornRun' \in Nat
    BY <2>1, TornRunGrows DEF FinalityInv, TornBound
  <2>4. FreshStart' /\ LiveKnown'
    BY <2>1 DEF FinalityInv, LiveKnown, FreshStart, stateBox, gameVars
  <2>5. TickBound'
    BY <2>1 DEF FinalityInv, MixInv, TypeOK, TickBound, stateBox
  <2>6. TrustRuns'
    BY <2>2, <2>3, <2>4 DEF TrustRuns, FreshStart
  <2> QED
    BY <1>1, <2>1, <2>3, <2>4, <2>5, <2>6
       DEF FinalityInv, Settled, Known, gameVars
<1>6. CASE UntickedFrame
  <2>1. /\ UNCHANGED <<gameVars, readerVars, current, files>>
        /\ last_tick' = NoTick /\ inactive_ticks' = 0 /\ pending' = <<>>
    BY <1>6 DEF UntickedFrame
  <2>2. LiveKnown' /\ TornBound' /\ TickBound' /\ FreshStart'
    BY <2>1 DEF FinalityInv, LiveKnown, TornBound, TickBound, FreshStart,
                gameVars, readerVars
  <2>3. TrustRuns'
    BY <1>1, <2>1 DEF TrustRuns, MixInv, TypeOK
  <2> QED
    BY <1>1, <2>1, <2>2, <2>3 DEF FinalityInv, Settled, Known, gameVars
<1>7. CASE Process
  BY <1>1, <1>7, ProcessFinality
<1>8. CASE UNCHANGED vars
  BY <1>1, <1>8
     DEF vars, FinalityInv, LiveKnown, TornBound, TickBound, FreshStart,
         TrustRuns, Settled, Known, gameVars, readerVars, stateBox
<1> QED
  BY <1>2, <1>3, <1>4, <1>5, <1>6, <1>7, <1>8 DEF Next, Game, Reader

(***************************************************************************)
(* Only a match that has really ended is ever marked finalized: as long as *)
(* fewer than Confirm frames in a row are torn and one process numbers the *)
(* frames, no failed write, skipped frame, shutdown or crash changes that. *)
(***************************************************************************)
THEOREM FinalizedOnlyWhenOver == Spec => []FinalizedIsOver
<1>1. FinalityInv => FinalizedIsOver
  BY DEF FinalityInv, Settled, FinalizedIsOver
<1> QED
  BY FinalityInit, FinalityStep, <1>1, PTL DEF Spec
-----------------------------------------------------------------------------

Undecided == {"active", "missing"}

-----------------------------------------------------------------------------
(***************************************************************************)
(* The six things a step can do to the directory, read off the branches of *)
(* _handle_snap, of the shutdown and of a crash.                           *)
(***************************************************************************)
\* A recording of i joins fs and is the current one.
Grows(fs, i) ==
  /\ \E frames \in Seq(Frame), state \in Undecided :
       files' = Append(fs, NewFile(i, frames, state))
  /\ current' = Len(fs) + 1

Rests     == files' = files /\ current' = current
Written   == /\ current # 0 /\ current' = current
             /\ \E fr \in Frame :
                  files' = [files EXCEPT ![current].frames = Append(@, fr)]
LeftOff   == /\ current # 0 /\ current' \in {current, 0}
             /\ files' = CloseFailed(files, current)
Concludes == /\ current # 0 /\ current' = 0
             /\ \E v \in {"finalized", "unverified"} :
                  files' = Sealed(files, current, v)
Opened    == current = 0 /\ \E i \in Id : Grows(files, i)
Rotated   == /\ current # 0
             /\ \E i \in Id \ {files[current].id} :
                  Grows(Sealed(files, current, "finalized"), i)

Effect == Rests \/ Written \/ LeftOff \/ Concludes \/ Opened \/ Rotated

-----------------------------------------------------------------------------
\* The open path either adds one recording or leaves none open.
LEMMA OpenOrBufferGrows ==
  ASSUME NEW fs, NEW buf0 \in Seq(Frame), Uniform(buf0), NEW fr \in Frame,
         NEW named \in BOOLEAN, OpenOrBuffer(fs, buf0, fr, named)
  PROVE  (files' = fs /\ current' = 0) \/ Grows(fs, fr.id)
<1> DEFINE buf == Buffered(buf0, fr)
<1>1. buf \in Seq(Frame) /\ Uniform(buf)
  BY BufferedUniform
<1>2. ASSUME NEW state \in {"active", "missing"}, current' = Len(fs) + 1,
             files' = Append(fs, NewFile(fr.id, buf, state))
      PROVE  Grows(fs, fr.id)
  BY <1>1, <1>2 DEF Grows, Undecided
<1>3. ASSUME NEW k \in 0..(Len(buf) - 1), current' = Len(fs) + 1,
             files' = Append(fs, NewFile(fr.id, SubSeq(buf, 1, k), "active"))
      PROVE  Grows(fs, fr.id)
  <2>1. k \in 0..Len(buf)
    BY <1>1
  <2>2. SubSeq(buf, 1, k) \in Seq(Frame)
    BY <1>1, <2>1, UniformPrefix
  <2> QED
    BY <1>3, <2>2 DEF Grows, Undecided
<1> QED
  BY <1>2, <1>3 DEF OpenOrBuffer

LEMMA HandleSnapEffect ==
  ASSUME MixInv, NEW r \in Readings, NEW named \in BOOLEAN, tick < MaxTick,
         HandleSnap(r, named, tick + 1)
  PROVE  Effect
<1> DEFINE t    == tick + 1
           ia   == IF Unbroken(t) THEN inactive_ticks ELSE 0
           pend == IF Unbroken(t) THEN pending ELSE <<>>
           fr   == [id |-> r.id, tick |-> t]
<1>1. pend \in Seq(Frame) /\ Uniform(pend)
  BY EmptyUniform DEF MixInv, TypeOK
<1>2. t \in Tick
  BY ReaderAssumption, ConstantsAssumption DEF MixInv, TypeOK, Tick
<1>3. r.kind = "active" => fr \in Frame /\ fr.id \in Id /\ fr.id = r.id
  BY <1>2, ReadingTyped DEF Frame
<1>4. \/ OnAmbiguous \/ OnIdle(ia) \/ OnInactive(ia)
      \/ /\ r.kind = "active"
         /\ \/ current = 0 /\ NothingOpen(fr, named)
            \/ current # 0 /\ files[current].id = r.id /\ OnSameMatch(fr)
            \/ /\ current # 0 /\ files[current].id # r.id
               /\ OnOtherMatch(pend, fr, named)
  BY DEF HandleSnap
<1> HIDE DEF t, ia, pend, fr
<1>5. CASE OnAmbiguous \/ OnIdle(ia)
  BY <1>5 DEF OnAmbiguous, OnIdle, Effect, Rests
<1>6. CASE OnInactive(ia)
  BY <1>6 DEF OnInactive, Effect, Rests, LeftOff, Concludes
<1>7. CASE r.kind = "active" /\ current = 0 /\ NothingOpen(fr, named)
  <2>1. \/ files' = files /\ current' = 0
        \/ Grows(files, fr.id)
    BY <1>3, <1>7, OpenOrBufferGrows DEF NothingOpen, MixInv, TypeOK
  <2> QED
    BY <1>3, <1>7, <2>1 DEF Effect, Rests, Opened
<1>8. CASE r.kind = "active" /\ current # 0 /\ OnSameMatch(fr)
  BY <1>3, <1>8 DEF OnSameMatch, Effect, Rests, Written
<1>9. CASE /\ r.kind = "active" /\ current # 0 /\ files[current].id # r.id
           /\ OnOtherMatch(pend, fr, named)
  <2> DEFINE p == IF pend # <<>> /\ Head(pend).id = fr.id
                  THEN Append(pend, fr) ELSE <<fr>>
  <2>1. p \in Seq(Frame) /\ Uniform(p)
    <3>1. CASE pend # <<>> /\ Head(pend).id = fr.id
      BY <1>1, <1>3, <1>9, <3>1, UniformAppend
    <3>2. CASE ~(pend # <<>> /\ Head(pend).id = fr.id)
      BY <1>3, <1>9, <3>2 DEF Uniform
    <3> QED
      BY <3>1, <3>2
  <2>2. \/ files' = files /\ current' = current
        \/ files' = CloseFailed(files, current) /\ current' = current
        \/ /\ Len(p) >= Confirm
           /\ OpenOrBuffer(Sealed(files, current, "finalized"), Seed(p), fr, named)
    BY <1>9 DEF OnOtherMatch
  <2> HIDE DEF p
  <2>3. CASE /\ Len(p) >= Confirm
             /\ OpenOrBuffer(Sealed(files, current, "finalized"), Seed(p), fr, named)
    <3>1. Len(p) - 1 \in 0..Len(p)
      BY <2>1, <2>3, ReaderAssumption, ConstantsAssumption
    <3>2. Seed(p) \in Seq(Frame) /\ Uniform(Seed(p))
      BY <2>1, <3>1, UniformPrefix DEF Seed
    <3>3. \/ files' = Sealed(files, current, "finalized") /\ current' = 0
          \/ Grows(Sealed(files, current, "finalized"), fr.id)
      BY <1>3, <1>9, <2>3, <3>2, OpenOrBufferGrows
    <3> QED
      BY <1>3, <1>9, <3>3 DEF Effect, Concludes, Rotated
  <2> QED
    BY <1>9, <2>2, <2>3 DEF Effect, Rests, LeftOff
<1> QED
  BY <1>4, <1>5, <1>6, <1>7, <1>8, <1>9

LEMMA ProcessEffect == ASSUME Process PROVE Effect
<1>1. current' = 0
  BY DEF Process, Shutdown, Crash, Reboots
<1> QED
  BY <1>1 DEF Process, Shutdown, Crash, ShutdownVerdict, Effect, Rests, LeftOff,
              Concludes

LEMMA StepEffect ==
  ASSUME MixInv, [Next]_vars
  PROVE  Effect
<1>1. CASE Game
  BY <1>1 DEF Game, MatchStarts, MatchEnds, Effect, Rests, stateBox
<1>2. ASSUME NEW r \in Readings, NEW named \in BOOLEAN, FullFrame(r, named)
      PROVE  Effect
  BY <1>2, HandleSnapEffect DEF FullFrame, Builds
<1>3. ASSUME NEW r \in Readings, SkippedFrame(r) PROVE Effect
  BY <1>3 DEF SkippedFrame, Effect, Rests, stateBox
<1>4. CASE UntickedFrame
  BY <1>4 DEF UntickedFrame, Effect, Rests
<1>5. CASE Process
  BY <1>5, ProcessEffect
<1>6. CASE UNCHANGED vars
  BY <1>6 DEF vars, stateBox, Effect, Rests
<1> QED
  BY <1>1, <1>2, <1>3, <1>4, <1>5, <1>6 DEF Next, Reader

-----------------------------------------------------------------------------
(***************************************************************************)
(* A recording is judged once because the current one has no verdict yet.  *)
(***************************************************************************)
ArchiveInv == MixInv /\ (current # 0 => files[current].sidecar \in Undecided)

\* What an effect leaves in a recording that was there before.
LEMMA EffectOnOthers ==
  ASSUME MixInv, Effect \/ PositionFrame, NEW f \in 1..Len(files)
  PROVE  files'[f] = files[f] \/ f = current
<1>1. files \in Seq(File) /\ current \in 0..Len(files) /\ Len(files) \in Nat
  BY DEF MixInv, TypeOK
<1>2. CASE Rests
  BY <1>2 DEF Rests
<1>3. CASE Written
  BY <1>1, <1>3 DEF Written
<1>4. CASE LeftOff
  BY <1>1, <1>4 DEF LeftOff, CloseFailed
<1>5. CASE Concludes
  BY <1>1, <1>5 DEF Concludes, Sealed
<1>6. ASSUME NEW i \in Id, Grows(files, i) PROVE files'[f] = files[f]
  BY <1>1, <1>6 DEF Grows
<1>7. ASSUME NEW i \in Id, current # 0,
             Grows(Sealed(files, current, "finalized"), i)
      PROVE  files'[f] = files[f] \/ f = current
  <2> DEFINE fs == Sealed(files, current, "finalized")
  <2>1. fs \in Seq(File) /\ Len(fs) = Len(files)
    BY <1>1, <1>7, CloseKeeps DEF MixInv, SidecarState
  <2>2. f # current => fs[f] = files[f]
    BY <1>1, <1>7 DEF Sealed
  <2> HIDE DEF fs
  <2>3. files'[f] = fs[f]
    BY <1>1, <1>7, <2>1 DEF Grows, fs
  <2> QED
    BY <2>2, <2>3
<1>8. CASE PositionFrame
  BY <1>1, <1>8 DEF PositionFrame
<1> QED
  BY <1>2, <1>3, <1>4, <1>5, <1>6, <1>7, <1>8 DEF Effect, Opened, Rotated

\* The current recording has no verdict, before and after an effect.
LEMMA EffectUndecided ==
  ASSUME ArchiveInv, MixInv', Effect
  PROVE  current' # 0 => files'[current'].sidecar \in Undecided
<1>0. files \in Seq(File) /\ current \in 0..Len(files) /\ Len(files) \in Nat
  BY DEF ArchiveInv, MixInv, TypeOK
<1>1. /\ files \in Seq(File) /\ current \in 0..Len(files)
      /\ current # 0 => current \in 1..Len(files) /\ files[current] \in File
  BY <1>0
<1>2. CASE Rests
  BY <1>2 DEF Rests, ArchiveInv
<1>3. CASE Written
  <2>1. PICK fr \in Frame : files' = [files EXCEPT ![current].frames = Append(@, fr)]
    BY <1>3 DEF Written
  <2> DEFINE r == [files[current] EXCEPT !.frames = Append(@, fr)]
  <2>2. r.sidecar = files[current].sidecar /\ files' = [files EXCEPT ![current] = r]
    BY <1>1, <1>3, <2>1 DEF File, Written
  <2> HIDE DEF r
  <2>3. files'[current].sidecar = files[current].sidecar
    BY <1>1, <1>3, <2>2 DEF Written
  <2> QED
    BY <1>3, <2>3 DEF Written, ArchiveInv
<1>4. CASE LeftOff
  <2> DEFINE r == [files[current] EXCEPT !.closed = TRUE]
  <2>1. r.sidecar = files[current].sidecar /\ files' = [files EXCEPT ![current] = r]
    BY <1>1, <1>4 DEF File, LeftOff, CloseFailed
  <2> HIDE DEF r
  <2>2. files'[current].sidecar = files[current].sidecar
    BY <1>1, <1>4, <2>1 DEF LeftOff
  <2> QED
    BY <1>4, <2>2 DEF LeftOff, ArchiveInv
<1>5. CASE Concludes
  BY <1>5 DEF Concludes
<1>6. ASSUME NEW fs \in Seq(File), NEW i \in Id, Grows(fs, i)
      PROVE  files'[current'].sidecar \in Undecided
  <2>1. PICK frames \in Seq(Frame), state \in Undecided :
          files' = Append(fs, NewFile(i, frames, state))
    BY <1>6 DEF Grows
  <2> DEFINE new == NewFile(i, frames, state)
  <2>2. new.sidecar = state /\ Len(fs) \in Nat
    BY <1>6 DEF NewFile
  <2> HIDE DEF new
  <2>3. files'[current'] = new
    BY <1>6, <2>1, <2>2 DEF Grows, new
  <2> QED
    BY <2>1, <2>2, <2>3
<1>7. current # 0 => Sealed(files, current, "finalized") \in Seq(File)
  BY <1>1, CloseKeeps DEF ArchiveInv, MixInv, SidecarState
<1> QED
  BY <1>1, <1>2, <1>3, <1>4, <1>5, <1>6, <1>7 DEF Effect, Opened, Rotated

LEMMA PositionUndecided ==
  ASSUME ArchiveInv, PositionFrame
  PROVE  current' # 0 => files'[current'].sidecar \in Undecided
<1>1. files \in Seq(File) /\ current \in 1..Len(files) /\ files[current] \in File
  BY DEF ArchiveInv, MixInv, TypeOK, PositionFrame
<1> DEFINE r == [files[current] EXCEPT !.sampled = @ \cup {entities}]
<1>2. r.sidecar = files[current].sidecar /\ files' = [files EXCEPT ![current] = r]
  BY <1>1 DEF File, PositionFrame
<1> HIDE DEF r
<1>3. files'[current].sidecar = files[current].sidecar
  BY <1>1, <1>2
<1> QED
  BY <1>3 DEF PositionFrame, stateBox, ArchiveInv

LEMMA ArchiveInvInit == Init => ArchiveInv
BY MixInvInit DEF Init, ArchiveInv

LEMMA TwoTierEffect ==
  ASSUME MixInv, [TwoTierNext]_vars
  PROVE  Effect \/ PositionFrame
<1>1. CASE WorkerRespawn
  BY <1>1 DEF WorkerRespawn, stateBox, Effect, Rests
<1>2. CASE [Next]_vars
  BY <1>2, StepEffect
<1> QED
  BY <1>1, <1>2 DEF TwoTierNext

LEMMA ArchiveInvStep == ArchiveInv /\ [TwoTierNext]_vars => ArchiveInv'
<1> SUFFICES ASSUME ArchiveInv, [TwoTierNext]_vars PROVE ArchiveInv'
  OBVIOUS
<1>1. MixInv'
  BY MixInvStep DEF ArchiveInv
<1>2. Effect \/ PositionFrame
  BY TwoTierEffect DEF ArchiveInv
<1> QED
  BY <1>1, <1>2, EffectUndecided, PositionUndecided DEF ArchiveInv

(***************************************************************************)
(* A recording other than the current one is never written again, and a    *)
(* sidecar that says how the recording closed is the last word on it, in   *)
(* either mode of serving, whatever fails in between.                      *)
(***************************************************************************)
THEOREM ClosedForGood == TwoTierSpec => ClosedStaysClosed
<1> DEFINE Kept1 == \A f \in 1..Len(files) :
                      \/ files'[f] = files[f]
                      \/ f = current /\ files[f].sidecar \in {"active", "missing"}
<1>1. ArchiveInv /\ [TwoTierNext]_vars => [Kept1]_vars
  <2> SUFFICES ASSUME ArchiveInv, [TwoTierNext]_vars PROVE Kept1
    OBVIOUS
  <2>1. MixInv /\ (Effect \/ PositionFrame)
    BY TwoTierEffect DEF ArchiveInv
  <2>2. \A f \in 1..Len(files) : files'[f] = files[f] \/ f = current
    BY <2>1, EffectOnOthers
  <2> QED
    BY <2>2 DEF ArchiveInv, Undecided
<1> QED
  BY ArchiveInvInit, ArchiveInvStep, <1>1, PTL DEF TwoTierSpec, ClosedStaysClosed

-----------------------------------------------------------------------------
(***************************************************************************)
(* What RecordingArchive sees of a directory fs, and what the operations   *)
(* on fs do to that.                                                       *)
(***************************************************************************)
Rec  == [id : Id, frames : Nat, verdict : {"none", "finalized", "unverified"}]
RecOf(r) == [id |-> r.id, frames |-> Len(r.frames),
             verdict |-> IF r.sidecar \in {"finalized", "unverified"}
                         THEN r.sidecar ELSE "none"]
View(fs) == [f \in 1..Len(fs) |-> RecOf(fs[f])]

LEMMA RecTyped ==
  ASSUME NEW r \in File
  PROVE  RecOf(r) \in Rec
<1>1. r.id \in Id /\ r.frames \in Seq(Frame)
  BY DEF File
<1>2. Len(r.frames) \in Nat
  BY <1>1
<1> QED
  BY <1>1, <1>2 DEF RecOf, Rec

LEMMA ViewTyped ==
  ASSUME NEW fs \in Seq(File)
  PROVE  /\ View(fs) \in Seq(Rec) /\ Len(View(fs)) = Len(fs) /\ Len(fs) \in Nat
         /\ \A f \in 1..Len(fs) : View(fs)[f] = RecOf(fs[f])
<1>1. Len(fs) \in Nat /\ \A f \in 1..Len(fs) : fs[f] \in File
  OBVIOUS
<1>2. View(fs) \in [1..Len(fs) -> Rec]
  BY <1>1, RecTyped DEF View
<1>3. View(fs) \in Seq(Rec)
  BY <1>1, <1>2
<1>4. DOMAIN View(fs) = 1..Len(View(fs)) /\ Len(View(fs)) \in Nat
  BY <1>3, LenProperties
<1>5. Len(View(fs)) = Len(fs)
  BY <1>1, <1>2, <1>4
<1>6. \A f \in 1..Len(fs) : View(fs)[f] = RecOf(fs[f])
  BY DEF View
<1> QED
  BY <1>1, <1>3, <1>5, <1>6

LEMMA ViewReplaced ==
  ASSUME NEW fs \in Seq(File), NEW f \in 1..Len(fs), NEW r \in File
  PROVE  View([fs EXCEPT ![f] = r]) = [View(fs) EXCEPT ![f] = RecOf(r)]
<1> DEFINE gs == [fs EXCEPT ![f] = r]
           w  == [View(fs) EXCEPT ![f] = RecOf(r)]
<1>1. gs \in Seq(File) /\ Len(gs) = Len(fs)
  OBVIOUS
<1>2. \A g \in 1..Len(fs) : gs[g] = IF g = f THEN r ELSE fs[g]
  OBVIOUS
<1>3. /\ View(fs) \in Seq(Rec) /\ Len(View(fs)) = Len(fs)
      /\ \A g \in 1..Len(fs) : View(fs)[g] = RecOf(fs[g])
  BY ViewTyped
<1>4. /\ w \in Seq(Rec) /\ Len(w) = Len(fs)
      /\ \A g \in 1..Len(fs) : w[g] = IF g = f THEN RecOf(r) ELSE RecOf(fs[g])
  BY <1>3, RecTyped
<1> HIDE DEF gs, w
<1>5. /\ View(gs) \in Seq(Rec) /\ Len(View(gs)) = Len(fs)
      /\ \A g \in 1..Len(fs) : View(gs)[g] = RecOf(gs[g])
  BY <1>1, ViewTyped
<1>6. \A g \in 1..Len(View(gs)) : View(gs)[g] = w[g]
  BY <1>2, <1>4, <1>5
<1>7. View(gs) = w
  BY <1>4, <1>5, <1>6, SeqEqual
<1> QED
  BY <1>7 DEF gs, w

LEMMA ViewWritten ==
  ASSUME NEW fs \in Seq(File), NEW f \in 1..Len(fs), NEW fr \in Frame
  PROVE  View([fs EXCEPT ![f].frames = Append(@, fr)])
           = [View(fs) EXCEPT ![f].frames = @ + 1]
<1> DEFINE r == [fs[f] EXCEPT !.frames = Append(@, fr)]
<1>1. fs[f] \in File
  OBVIOUS
<1>2. fs[f].frames \in Seq(Frame)
  BY <1>1 DEF File
<1>3. Append(fs[f].frames, fr) \in Seq(Frame) /\ Len(Append(fs[f].frames, fr)) = Len(fs[f].frames) + 1
  BY <1>2
<1>4. r \in File /\ r.id = fs[f].id /\ r.sidecar = fs[f].sidecar /\ r.frames = Append(fs[f].frames, fr)
  BY <1>1, <1>3 DEF File
<1>5. [fs EXCEPT ![f].frames = Append(@, fr)] = [fs EXCEPT ![f] = r]
  OBVIOUS
<1> HIDE DEF r
<1>6. View([fs EXCEPT ![f] = r]) = [View(fs) EXCEPT ![f] = RecOf(r)]
  BY <1>4, ViewReplaced
<1>7. RecOf(r) = [RecOf(fs[f]) EXCEPT !.frames = @ + 1]
  BY <1>3, <1>4 DEF RecOf
<1>8. [View(fs) EXCEPT ![f].frames = @ + 1]
        = [View(fs) EXCEPT ![f] = [View(fs)[f] EXCEPT !.frames = @ + 1]]
  OBVIOUS
<1>9. View(fs)[f] = RecOf(fs[f])
  BY ViewTyped
<1> QED
  BY <1>5, <1>6, <1>7, <1>8, <1>9

LEMMA ViewSealed ==
  ASSUME NEW fs \in Seq(File), NEW f \in 1..Len(fs),
         NEW v \in {"finalized", "unverified"}
  PROVE  View(Sealed(fs, f, v)) = [View(fs) EXCEPT ![f].verdict = v]
<1> DEFINE r == [fs[f] EXCEPT !.closed = TRUE, !.sidecar = v]
<1>1. fs[f] \in File
  OBVIOUS
<1>2. r \in File /\ r.id = fs[f].id /\ r.frames = fs[f].frames /\ r.sidecar = v
  BY <1>1 DEF File, SidecarState
<1>3. Sealed(fs, f, v) = [fs EXCEPT ![f] = r]
  BY <1>1 DEF Sealed, File
<1> HIDE DEF r
<1>4. View([fs EXCEPT ![f] = r]) = [View(fs) EXCEPT ![f] = RecOf(r)]
  BY <1>2, ViewReplaced
<1>5. RecOf(r) = [RecOf(fs[f]) EXCEPT !.verdict = v]
  BY <1>2 DEF RecOf
<1>6. [View(fs) EXCEPT ![f].verdict = v]
        = [View(fs) EXCEPT ![f] = [View(fs)[f] EXCEPT !.verdict = v]]
  OBVIOUS
<1>7. View(fs)[f] = RecOf(fs[f])
  BY ViewTyped
<1> QED
  BY <1>3, <1>4, <1>5, <1>6, <1>7

LEMMA ViewLeftOff ==
  ASSUME NEW fs \in Seq(File), NEW f \in 1..Len(fs)
  PROVE  View(CloseFailed(fs, f)) = View(fs)
<1> DEFINE r == [fs[f] EXCEPT !.closed = TRUE]
<1>1. fs[f] \in File
  OBVIOUS
<1>2. r \in File /\ r.id = fs[f].id /\ r.frames = fs[f].frames /\ r.sidecar = fs[f].sidecar
  BY <1>1 DEF File
<1>3. CloseFailed(fs, f) = [fs EXCEPT ![f] = r]
  BY DEF CloseFailed
<1> HIDE DEF r
<1>4. View([fs EXCEPT ![f] = r]) = [View(fs) EXCEPT ![f] = RecOf(r)]
  BY <1>2, ViewReplaced
<1>5. RecOf(r) = RecOf(fs[f])
  BY <1>2 DEF RecOf
<1>6. View(fs)[f] = RecOf(fs[f]) /\ View(fs) \in Seq(Rec) /\ Len(View(fs)) = Len(fs)
  BY ViewTyped
<1>7. [View(fs) EXCEPT ![f] = View(fs)[f]] = View(fs)
  BY <1>6
<1> QED
  BY <1>3, <1>4, <1>5, <1>6, <1>7

LEMMA ViewGrown ==
  ASSUME NEW fs \in Seq(File), NEW i \in Id, NEW frames \in Seq(Frame),
         NEW state \in Undecided
  PROVE  LET w == View(Append(fs, NewFile(i, frames, state)))
         IN  /\ Len(w) = Len(View(fs)) + 1 /\ SubSeq(w, 1, Len(View(fs))) = View(fs)
             /\ w[Len(fs) + 1].verdict = "none" /\ w[Len(fs) + 1].id = i
<1> DEFINE new == NewFile(i, frames, state)
           gs  == Append(fs, new)
<1>1. new \in File /\ new.id = i /\ new.sidecar \notin {"finalized", "unverified"}
  BY DEF NewFile, File, Undecided, SidecarState
<1> HIDE DEF new
<1>2. /\ gs \in Seq(File) /\ Len(gs) = Len(fs) + 1 /\ Len(fs) \in Nat
      /\ gs[Len(fs) + 1] = new
  BY <1>1
<1>3. \A g \in 1..Len(fs) : gs[g] = fs[g]
  BY <1>1
<1> HIDE DEF gs
<1>4. /\ View(fs) \in Seq(Rec) /\ Len(View(fs)) = Len(fs)
      /\ \A g \in 1..Len(fs) : View(fs)[g] = RecOf(fs[g])
  BY ViewTyped
<1>5. /\ View(gs) \in Seq(Rec) /\ Len(View(gs)) = Len(fs) + 1
      /\ \A g \in 1..(Len(fs) + 1) : View(gs)[g] = RecOf(gs[g])
  BY <1>2, ViewTyped
<1> DEFINE w == View(gs)
           p == SubSeq(w, 1, Len(fs))
<1>6. \A g \in 1..Len(fs) : w[g] = View(fs)[g]
  BY <1>2, <1>3, <1>4, <1>5
<1>7. \A g \in 1..Len(fs) : w[g] \in Rec
  BY <1>2, <1>5
<1> HIDE DEF w
<1>8. /\ p \in Seq(Rec) /\ Len(p) = Len(fs)
      /\ \A g \in 1..Len(fs) : p[g] = w[g]
  BY <1>2, <1>5, <1>7 DEF w
<1>9. p = View(fs)
  BY <1>4, <1>6, <1>8, SeqEqual
<1>10. w[Len(fs) + 1] = RecOf(new)
  BY <1>2, <1>5 DEF w
<1>11. w[Len(fs) + 1].verdict = "none" /\ w[Len(fs) + 1].id = i
  BY <1>1, <1>10 DEF RecOf
<1> QED
  BY <1>4, <1>5, <1>9, <1>11 DEF w, gs, new

-----------------------------------------------------------------------------
(***************************************************************************)
(* One lemma per action of RecordingArchive: when it is what a step does.  *)
(***************************************************************************)
LEMMA MapsRecord ==
  ASSUME current # 0, current' = current, UNCHANGED gameVars,
         View(files') = [View(files) EXCEPT ![current].frames = @ + 1]
  PROVE  Archive!Next
BY DEF Archive!Next, Archive!Writes, Archive!Record, View, RecOf, Verdict, gameVars

LEMMA MapsFinalize ==
  ASSUME current # 0, current' = 0, UNCHANGED gameVars,
         View(files)[current].id # live,
         View(files') = [View(files) EXCEPT ![current].verdict = "finalized"]
  PROVE  Archive!Next
BY DEF Archive!Next, Archive!Writes, Archive!Finalize, Archive!Judged, View, RecOf,
       Verdict, gameVars

LEMMA MapsStop ==
  ASSUME current # 0, current' = 0, UNCHANGED gameVars,
         \/ View(files') = View(files)
         \/ View(files') = [View(files) EXCEPT ![current].verdict = "unverified"]
  PROVE  Archive!Next
BY DEF Archive!Next, Archive!Writes, Archive!Stop, Archive!Judged, View, RecOf,
       Verdict, gameVars

\* One recording without a verdict follows those of v.
Follows(v, w) ==
  /\ Len(w) = Len(v) + 1 /\ SubSeq(w, 1, Len(v)) = v
  /\ w[Len(w)].verdict = "none"

LEMMA MapsOpen ==
  ASSUME current = 0, UNCHANGED gameVars, Follows(View(files), View(files')),
         current' = Len(View(files'))
  PROVE  Archive!Next
BY DEF Archive!Next, Archive!Writes, Archive!Open, Archive!Joins, Follows, View,
       RecOf, Verdict, gameVars

LEMMA MapsRotate ==
  ASSUME current # 0, UNCHANGED gameVars, View(files)[current].id # live,
         Follows([View(files) EXCEPT ![current].verdict = "finalized"], View(files')),
         current' = Len(View(files')),
         View(files')[current'].id # View(files)[current].id
  PROVE  Archive!Next
BY DEF Archive!Next, Archive!Writes, Archive!Rotate, Archive!Judged, Archive!Joins,
       Follows, View, RecOf, Verdict, gameVars

LEMMA MapsStutter ==
  ASSUME current' = current, UNCHANGED gameVars, View(files') = View(files)
  PROVE  UNCHANGED Archive!vars
BY DEF Archive!vars, View, RecOf, Verdict, gameVars

LEMMA MapsPlays ==
  ASSUME Game
  PROVE  [Archive!Next]_(Archive!vars)
<1>1. files' = files /\ current' = current
  BY DEF Game, MatchStarts, MatchEnds, stateBox
<1>2. View(files') = View(files)
  BY <1>1
<1>3. Archive!Plays
  BY DEF Game, MatchStarts, MatchEnds, Starts, Ends, Archive!Plays
<1> QED
  BY <1>1, <1>2, <1>3 DEF Archive!Next, View, RecOf, Verdict

-----------------------------------------------------------------------------
(***************************************************************************)
(* The refinement.  A recording is finalized by a step only if its match   *)
(* is over (FinalizedIsOver after the step), and the new recording of a    *)
(* rotation is of another match; the rest is the lemmas above.             *)
(***************************************************************************)
LEMMA GrownFollows ==
  ASSUME NEW fs \in Seq(File), NEW i \in Id, Grows(fs, i)
  PROVE  /\ Follows(View(fs), View(files')) /\ current' = Len(View(files'))
         /\ View(files')[current'].id = i
         /\ Len(files') = Len(fs) + 1
         /\ \A f \in 1..Len(fs) : files'[f] = fs[f]
<1>1. PICK frames \in Seq(Frame), state \in Undecided :
        files' = Append(fs, NewFile(i, frames, state))
  BY DEF Grows
<1> DEFINE w == View(files')
<1>2. /\ Len(w) = Len(View(fs)) + 1 /\ SubSeq(w, 1, Len(View(fs))) = View(fs)
      /\ w[Len(fs) + 1].verdict = "none" /\ w[Len(fs) + 1].id = i
  BY <1>1, ViewGrown
<1>3. Len(View(fs)) = Len(fs) /\ Len(fs) \in Nat
  BY ViewTyped
<1>4. Len(files') = Len(fs) + 1 /\ \A f \in 1..Len(fs) : files'[f] = fs[f]
  BY <1>1, <1>3
<1>5. current' = Len(fs) + 1
  BY DEF Grows
<1> HIDE DEF w
<1>6. Follows(View(fs), w) /\ current' = Len(w) /\ w[current'].id = i
  BY <1>2, <1>3, <1>5 DEF Follows
<1> QED
  BY <1>4, <1>6 DEF w

\* A sealed recording carries its verdict and the match it was of.
LEMMA SealedAt ==
  ASSUME NEW fs \in Seq(File), NEW f \in 1..Len(fs), NEW v \in SidecarState
  PROVE  /\ Len(Sealed(fs, f, v)) = Len(fs)
         /\ Sealed(fs, f, v)[f].sidecar = v /\ Sealed(fs, f, v)[f].id = fs[f].id
<1> DEFINE r == [fs[f] EXCEPT !.closed = TRUE, !.sidecar = v]
<1>1. fs[f] \in File
  OBVIOUS
<1>2. r.id = fs[f].id /\ r.sidecar = v
  BY <1>1 DEF File
<1>3. Sealed(fs, f, v) = [fs EXCEPT ![f] = r]
  BY <1>1 DEF Sealed, File
<1> HIDE DEF r
<1> QED
  BY <1>2, <1>3

LEMMA EffectRefines ==
  ASSUME MixInv, Effect, UNCHANGED gameVars, FinalizedIsOver'
  PROVE  [Archive!Next]_(Archive!vars)
<1>1. /\ files \in Seq(File) /\ live' = live
      /\ current # 0 => current \in 1..Len(files)
  BY DEF MixInv, TypeOK, gameVars
<1>2. current # 0 => View(files)[current].id = files[current].id
  <2>1. \A f \in 1..Len(files) : View(files)[f] = RecOf(files[f])
    BY <1>1, ViewTyped
  <2>2. RecOf(files[current]).id = files[current].id
    BY DEF RecOf
  <2> QED
    BY <1>1, <2>1, <2>2
<1>3. CASE Rests
  <2>1. View(files') = View(files)
    BY <1>3 DEF Rests
  <2> QED
    BY <1>3, <2>1, MapsStutter DEF Rests
<1>4. CASE Written
  <2>1. PICK fr \in Frame : files' = [files EXCEPT ![current].frames = Append(@, fr)]
    BY <1>4 DEF Written
  <2>2. View(files') = [View(files) EXCEPT ![current].frames = @ + 1]
    BY <1>1, <1>4, <2>1, ViewWritten DEF Written
  <2> QED
    BY <1>4, <2>2, MapsRecord DEF Written
<1>5. CASE LeftOff
  <2>1. View(files') = View(files)
    BY <1>1, <1>5, ViewLeftOff DEF LeftOff
  <2> QED
    BY <1>5, <2>1, MapsStutter, MapsStop DEF LeftOff
<1>6. CASE Concludes
  <2>1. PICK v \in {"finalized", "unverified"} : files' = Sealed(files, current, v)
    BY <1>6 DEF Concludes
  <2>2. View(files') = [View(files) EXCEPT ![current].verdict = v]
    BY <1>1, <1>6, <2>1, ViewSealed DEF Concludes
  <2>3. v = "finalized" => files[current].id # live
    <3>1. v \in SidecarState /\ current \in 1..Len(files)
      BY <1>1, <1>6 DEF SidecarState, Concludes
    <3>2. /\ Len(files') = Len(files)
          /\ files'[current].sidecar = v /\ files'[current].id = files[current].id
      BY <1>1, <2>1, <3>1, SealedAt
    <3> QED
      BY <1>1, <3>1, <3>2 DEF FinalizedIsOver
  <2> QED
    BY <1>2, <1>6, <2>1, <2>2, <2>3, MapsFinalize, MapsStop DEF Concludes
<1>7. CASE Opened
  <2>1. PICK i \in Id : Grows(files, i)
    BY <1>7 DEF Opened
  <2> QED
    BY <1>1, <1>7, <2>1, GrownFollows, MapsOpen DEF Opened
<1>8. CASE Rotated
  <2> DEFINE fs == Sealed(files, current, "finalized")
  <2>1. PICK i \in Id \ {files[current].id} : Grows(fs, i)
    BY <1>8 DEF Rotated
  <2>2. current \in 1..Len(files) /\ current # 0
    BY <1>1, <1>8 DEF Rotated
  <2>3. View(fs) = [View(files) EXCEPT ![current].verdict = "finalized"]
    BY <1>1, <2>2, ViewSealed
  <2>4. fs \in Seq(File) /\ Len(fs) = Len(files)
    BY <1>1, <2>2, CloseKeeps DEF MixInv, SidecarState
  <2>5. "finalized" \in SidecarState
    BY DEF SidecarState
  <2>6. fs[current].sidecar = "finalized" /\ fs[current].id = files[current].id
    BY <1>1, <2>2, <2>5, SealedAt
  <2> HIDE DEF fs
  <2>7. /\ Follows(View(fs), View(files')) /\ current' = Len(View(files'))
        /\ View(files')[current'].id = i
        /\ Len(files') = Len(fs) + 1
        /\ \A f \in 1..Len(fs) : files'[f] = fs[f]
    BY <2>1, <2>4, GrownFollows
  <2>8. files'[current] = fs[current] /\ current \in 1..Len(files')
    BY <1>1, <2>2, <2>4, <2>7
  <2>9. files[current].id # live
    BY <1>1, <2>6, <2>8 DEF FinalizedIsOver
  <2> QED
    BY <1>2, <2>1, <2>2, <2>3, <2>7, <2>9, MapsRotate
<1> QED
  BY <1>3, <1>4, <1>5, <1>6, <1>7, <1>8 DEF Effect

LEMMA StepRefines ==
  ASSUME MixInv, [Next]_vars, FinalizedIsOver'
  PROVE  [Archive!Next]_(Archive!vars)
<1>1. Effect
  BY StepEffect
<1>2. Game \/ UNCHANGED gameVars
  BY DEF Next, Game, Reader, FullFrame, SkippedFrame, UntickedFrame, Process, Shutdown,
         Crash, Reboots, vars, gameVars
<1> QED
  BY <1>1, <1>2, MapsPlays, EffectRefines

(***************************************************************************)
(* The recorder that numbers its own frames does to the directory only     *)
(* what RecordingArchive promises: one writer at a time, one verdict per   *)
(* recording, and the verdict "finalized" only for a match that is over.   *)
(***************************************************************************)
THEOREM RecorderKeepsArchive == Spec => KeepsArchive
<1>1. Init => Archive!Init
  <2> SUFFICES ASSUME Init PROVE Archive!Init
    OBVIOUS
  <2>1. files = <<>> /\ current = 0 /\ live = NoMatch /\ seen = {}
    BY DEF Init, GameInit
  <2> QED
    BY <2>1 DEF Archive!Init
<1>2. FinalityInv => MixInv /\ FinalizedIsOver
  BY DEF FinalityInv, Settled, FinalizedIsOver
<1>3. MixInv /\ [Next]_vars /\ FinalizedIsOver' => [Archive!Next]_(Archive!vars)
  BY StepRefines
<1> QED
  BY FinalityInit, FinalityStep, <1>1, <1>2, <1>3, PTL DEF Spec, KeepsArchive, Archive!Spec

-----------------------------------------------------------------------------
(***************************************************************************)
(* FramesInOrder for every value of the constants, when the agent itself   *)
(* numbers its frames (Spec).  A respawned build worker numbers them from  *)
(* 1 again, so TwoTierSpec does not have the property.                     *)
(***************************************************************************)
(***************************************************************************)
(* The argument.  Everything that may still be written to the open         *)
(* recording, the two buffers included, is in order and was built by the   *)
(* current process, and the frame at hand is built after all of it.        *)
(***************************************************************************)
InOrder(s) == \A i \in 1..(Len(s) - 1) : s[i].tick < s[i + 1].tick
UpTo(s, n) == \A i \in 1..Len(s) : s[i].tick \in Nat /\ s[i].tick <= n
Neat(s, n) == InOrder(s) /\ UpTo(s, n)

OrderedDir(fs) == \A f \in 1..Len(fs) : InOrder(fs[f].frames)

OpenNeat(fs, c, n) == c # 0 => Neat(fs[c].frames, n)

OrderInv ==
  /\ MixInv
  /\ OrderedDir(files) /\ OpenNeat(files, current, tick)
  /\ Neat(filename_buffer, tick) /\ Neat(pending, tick)

-----------------------------------------------------------------------------
(***************************************************************************)
(* Sequences of frames.                                                    *)
(***************************************************************************)
LEMMA NeatEmpty == ASSUME NEW n PROVE Neat(<<>>, n)
BY DEF Neat, InOrder, UpTo

LEMMA NeatLater ==
  ASSUME NEW s \in Seq(Frame), NEW n \in Nat, Neat(s, n)
  PROVE  Neat(s, n + 1)
BY DEF Neat, UpTo

LEMMA NeatAppend ==
  ASSUME NEW s \in Seq(Frame), NEW n \in Nat, Neat(s, n), NEW fr \in Frame,
         fr.tick = n + 1
  PROVE  Neat(Append(s, fr), n + 1)
<1> DEFINE w == Append(s, fr)
<1>1. /\ w \in Seq(Frame) /\ Len(w) = Len(s) + 1 /\ Len(s) \in Nat
      /\ w[Len(s) + 1] = fr
  OBVIOUS
<1>2. \A i \in 1..Len(s) : w[i] = s[i]
  OBVIOUS
<1> HIDE DEF w
<1>3. UpTo(w, n + 1)
  <2> SUFFICES ASSUME NEW i \in 1..Len(w)
               PROVE  w[i].tick \in Nat /\ w[i].tick <= n + 1
    BY DEF UpTo
  <2>1. CASE i \in 1..Len(s)
    BY <1>2, <2>1 DEF Neat, UpTo
  <2>2. CASE i = Len(s) + 1
    BY <1>1, <2>2
  <2> QED
    BY <1>1, <2>1, <2>2
<1>4. InOrder(w)
  <2> SUFFICES ASSUME NEW i \in 1..(Len(w) - 1)
               PROVE  w[i].tick < w[i + 1].tick
    BY DEF InOrder
  <2>1. i \in 1..Len(s) /\ w[i] = s[i]
    BY <1>1, <1>2
  <2>2. CASE i + 1 \in 1..Len(s)
    BY <1>1, <1>2, <2>1, <2>2 DEF Neat, InOrder
  <2>3. CASE i + 1 = Len(s) + 1
    BY <1>1, <2>1, <2>3 DEF Neat, UpTo
  <2> QED
    BY <1>1, <2>1, <2>2, <2>3
<1> QED
  BY <1>3, <1>4 DEF Neat, w

LEMMA NeatPrefix ==
  ASSUME NEW s \in Seq(Frame), NEW n \in Nat, Neat(s, n), NEW k \in 0..Len(s)
  PROVE  SubSeq(s, 1, k) \in Seq(Frame) /\ Neat(SubSeq(s, 1, k), n)
<1> DEFINE p == SubSeq(s, 1, k)
<1>1. p \in Seq(Frame) /\ Len(p) = k /\ \A i \in 1..k : p[i] = s[i]
  OBVIOUS
<1> HIDE DEF p
<1>2. UpTo(p, n)
  BY <1>1 DEF Neat, UpTo
<1>3. InOrder(p)
  BY <1>1 DEF Neat, InOrder
<1> QED
  BY <1>1, <1>2, <1>3 DEF Neat, p

LEMMA BufferedNeat ==
  ASSUME NEW buf \in Seq(Frame), NEW n \in Nat, Neat(buf, n), NEW fr \in Frame,
         fr.tick = n + 1
  PROVE  Buffered(buf, fr) \in Seq(Frame) /\ Neat(Buffered(buf, fr), n + 1)
<1>1. <<>> \in Seq(Frame) /\ Neat(<<>>, n)
  BY NeatEmpty
<1>2. ASSUME NEW s \in Seq(Frame), Neat(s, n)
      PROVE  Append(s, fr) \in Seq(Frame) /\ Neat(Append(s, fr), n + 1)
  <2>1. Append(s, fr) \in Seq(Frame)
    OBVIOUS
  <2> QED
    BY <1>2, <2>1, NeatAppend
<1> DEFINE kept == IF buf # <<>> /\ Head(buf).id # fr.id THEN <<>> ELSE buf
<1>3. kept \in Seq(Frame) /\ Neat(kept, n)
  BY <1>1
<1> HIDE DEF kept
<1>4. Append(kept, fr) \in Seq(Frame) /\ Neat(Append(kept, fr), n + 1)
  BY <1>2, <1>3
<1> QED
  BY <1>4 DEF Buffered, kept

-----------------------------------------------------------------------------
(***************************************************************************)
(* The operations on the directory.                                        *)
(***************************************************************************)
LEMMA ReplaceOrdered ==
  ASSUME NEW fs \in Seq(File), OrderedDir(fs), NEW f \in 1..Len(fs), NEW r,
         InOrder(r.frames)
  PROVE  /\ OrderedDir([fs EXCEPT ![f] = r])
         /\ [fs EXCEPT ![f] = r][f] = r
<1> DEFINE gs == [fs EXCEPT ![f] = r]
<1>1. Len(gs) = Len(fs) /\ \A g \in 1..Len(fs) : gs[g] = IF g = f THEN r ELSE fs[g]
  OBVIOUS
<1> HIDE DEF gs
<1>2. OrderedDir(gs)
  BY <1>1 DEF OrderedDir
<1> QED
  BY <1>1, <1>2 DEF gs

LEMMA ClosedOrdered ==
  ASSUME NEW fs \in Seq(File), OrderedDir(fs), NEW f \in 1..Len(fs),
         NEW state \in SidecarState
  PROVE  /\ OrderedDir(Sealed(fs, f, state))
         /\ OrderedDir(CloseFailed(fs, f))
         /\ CloseFailed(fs, f)[f].frames = fs[f].frames
<1> DEFINE r == [fs[f] EXCEPT !.closed = TRUE, !.sidecar = state]
           q == [fs[f] EXCEPT !.closed = TRUE]
<1>1. fs[f] \in File /\ InOrder(fs[f].frames)
  BY DEF OrderedDir
<1>2. r.frames = fs[f].frames /\ q.frames = fs[f].frames
  BY <1>1 DEF File
<1>3. Sealed(fs, f, state) = [fs EXCEPT ![f] = r]
  BY <1>1 DEF Sealed, File
<1>4. CloseFailed(fs, f) = [fs EXCEPT ![f] = q]
  BY DEF CloseFailed
<1> HIDE DEF r, q
<1>5. OrderedDir([fs EXCEPT ![f] = r])
  BY <1>1, <1>2, ReplaceOrdered
<1>6. OrderedDir([fs EXCEPT ![f] = q]) /\ [fs EXCEPT ![f] = q][f] = q
  BY <1>1, <1>2, ReplaceOrdered
<1> QED
  BY <1>2, <1>3, <1>4, <1>5, <1>6

LEMMA AppendedOrdered ==
  ASSUME NEW fs \in Seq(File), OrderedDir(fs), NEW i \in Id,
         NEW frames \in Seq(Frame), NEW n, Neat(frames, n),
         NEW state \in SidecarState
  PROVE  LET gs == Append(fs, NewFile(i, frames, state))
         IN  OrderedDir(gs) /\ OpenNeat(gs, Len(fs) + 1, n)
<1> DEFINE new == NewFile(i, frames, state)
           gs  == Append(fs, new)
<1>1. new \in File /\ new.frames = frames
  BY DEF NewFile, File
<1> HIDE DEF new
<1>2. /\ Len(gs) = Len(fs) + 1 /\ Len(fs) \in Nat /\ gs[Len(fs) + 1] = new
      /\ \A g \in 1..Len(fs) : gs[g] = fs[g]
  BY <1>1
<1> HIDE DEF gs
<1>3. OrderedDir(gs)
  <2> SUFFICES ASSUME NEW g \in 1..Len(gs) PROVE InOrder(gs[g].frames)
    BY DEF OrderedDir
  <2>1. CASE g \in 1..Len(fs)
    BY <1>2, <2>1 DEF OrderedDir
  <2>2. CASE g = Len(fs) + 1
    BY <1>1, <1>2, <2>2 DEF Neat
  <2> QED
    BY <1>2, <2>1, <2>2
<1>4. OpenNeat(gs, Len(fs) + 1, n)
  BY <1>1, <1>2 DEF OpenNeat
<1> QED
  BY <1>3, <1>4 DEF gs, new

\* What a frame leaves behind, by the time n it was built.
Ordered(n) ==
  /\ OrderedDir(files') /\ OpenNeat(files', current', n)
  /\ Neat(filename_buffer', n) /\ Neat(pending', n)

LEMMA OpenOrBufferOrdered ==
  ASSUME NEW fs \in Seq(File), OrderedDir(fs), NEW n \in Nat,
         NEW buf0 \in Seq(Frame), Neat(buf0, n),
         NEW fr \in Frame, fr.id \in Id, fr.tick = n + 1, NEW named \in BOOLEAN,
         OpenOrBuffer(fs, buf0, fr, named)
  PROVE  /\ OrderedDir(files') /\ OpenNeat(files', current', n + 1)
         /\ Neat(filename_buffer', n + 1)
<1> DEFINE buf == Buffered(buf0, fr)
<1>1. buf \in Seq(Frame) /\ Neat(buf, n + 1)
  BY BufferedNeat
<1>2. ASSUME files' = fs, current' = 0, filename_buffer' = buf
      PROVE  /\ OrderedDir(files') /\ OpenNeat(files', current', n + 1)
             /\ Neat(filename_buffer', n + 1)
  BY <1>1, <1>2 DEF OpenNeat
<1>3. ASSUME NEW state \in {"active", "missing"},
             files' = Append(fs, NewFile(fr.id, buf, state)),
             current' = Len(fs) + 1, filename_buffer' = <<>>
      PROVE  /\ OrderedDir(files') /\ OpenNeat(files', current', n + 1)
             /\ Neat(filename_buffer', n + 1)
  BY <1>1, <1>3, AppendedOrdered, NeatEmpty DEF SidecarState
<1>4. ASSUME NEW k \in 0..(Len(buf) - 1),
             files' = Append(fs, NewFile(fr.id, SubSeq(buf, 1, k), "active")),
             current' = Len(fs) + 1, filename_buffer' = buf
      PROVE  /\ OrderedDir(files') /\ OpenNeat(files', current', n + 1)
             /\ Neat(filename_buffer', n + 1)
  <2>1. k \in 0..Len(buf) /\ "active" \in SidecarState
    BY <1>1 DEF SidecarState
  <2>2. SubSeq(buf, 1, k) \in Seq(Frame) /\ Neat(SubSeq(buf, 1, k), n + 1)
    BY <1>1, <2>1, NeatPrefix
  <2> QED
    BY <1>1, <1>4, <2>1, <2>2, AppendedOrdered
<1> QED
  BY <1>2, <1>3, <1>4 DEF OpenOrBuffer

-----------------------------------------------------------------------------
(***************************************************************************)
(* A frame, built after everything that is buffered or recorded.           *)
(***************************************************************************)
LEMMA OtherMatchOrdered ==
  ASSUME OrderInv, NEW pend \in Seq(Frame), Neat(pend, tick),
         NEW fr \in Frame, fr.id \in Id, fr.tick = tick + 1, NEW named \in BOOLEAN,
         current # 0, OnOtherMatch(pend, fr, named)
  PROVE  Ordered(tick + 1)
<1> DEFINE p == IF pend # <<>> /\ Head(pend).id = fr.id
                THEN Append(pend, fr) ELSE <<fr>>
<1>0. /\ files \in Seq(File) /\ OrderedDir(files) /\ current \in 1..Len(files)
      /\ tick \in Nat /\ filename_buffer \in Seq(Frame) /\ Neat(filename_buffer, tick)
      /\ files[current] \in File
  BY DEF OrderInv, MixInv, TypeOK
<1>1. p \in Seq(Frame) /\ Neat(p, tick + 1) /\ Len(p) \in Nat \ {0}
  <2>1. Append(pend, fr) \in Seq(Frame) /\ Len(Append(pend, fr)) \in Nat \ {0}
    OBVIOUS
  <2>2. Neat(Append(pend, fr), tick + 1)
    BY <1>0, NeatAppend
  <2>3. <<fr>> \in Seq(Frame) /\ Len(<<fr>>) = 1 /\ <<fr>> = Append(<<>>, fr)
    OBVIOUS
  <2>4. <<>> \in Seq(Frame) /\ Neat(<<>>, tick)
    BY NeatEmpty
  <2>5. Neat(<<fr>>, tick + 1)
    BY <1>0, <2>3, <2>4, NeatAppend
  <2> QED
    BY <2>1, <2>2, <2>3, <2>5
<1>2. "finalized" \in SidecarState
  BY DEF SidecarState
<1>3. /\ OrderedDir(Sealed(files, current, "finalized"))
      /\ OrderedDir(CloseFailed(files, current))
      /\ CloseFailed(files, current)[current].frames = files[current].frames
      /\ Sealed(files, current, "finalized") \in Seq(File)
  BY <1>0, <1>2, ClosedOrdered, CloseKeeps DEF OrderInv, MixInv
<1>4. files[current].frames \in Seq(Frame) /\ Neat(files[current].frames, tick)
  BY <1>0 DEF OrderInv, OpenNeat, File
<1>5. Neat(files[current].frames, tick + 1) /\ Neat(filename_buffer, tick + 1)
  BY <1>0, <1>4, NeatLater
<1>6. Seed(p) \in Seq(Frame) /\ Neat(Seed(p), tick)
  <2>1. CASE pend # <<>> /\ Head(pend).id = fr.id
    <3>1. Seed(p) = pend
      BY <2>1 DEF Seed
    <3> HIDE DEF p
    <3> QED
      BY <3>1
  <2>2. CASE ~(pend # <<>> /\ Head(pend).id = fr.id)
    <3>1. Seed(p) = <<>>
      BY <2>2 DEF Seed
    <3>2. <<>> \in Seq(Frame) /\ Neat(<<>>, tick)
      BY NeatEmpty
    <3> HIDE DEF p
    <3> QED
      BY <3>1, <3>2
  <2> QED
    BY <2>1, <2>2
<1> HIDE DEF p
<1>7. CASE /\ pending' = p /\ current' = current
           /\ UNCHANGED <<filename_buffer, files>>
  BY <1>0, <1>1, <1>5, <1>7 DEF Ordered, OpenNeat
<1>8. CASE /\ files' = CloseFailed(files, current)
           /\ pending' = p /\ UNCHANGED <<current, filename_buffer>>
  BY <1>1, <1>3, <1>5, <1>8 DEF Ordered, OpenNeat
<1>9. CASE /\ pending' = <<>>
           /\ OpenOrBuffer(Sealed(files, current, "finalized"), Seed(p), fr, named)
  BY <1>0, <1>3, <1>6, <1>9, OpenOrBufferOrdered, NeatEmpty DEF Ordered
<1> QED
  BY <1>7, <1>8, <1>9 DEF OnOtherMatch, p

LEMMA SameMatchOrdered ==
  ASSUME OrderInv, NEW fr \in Frame, fr.tick = tick + 1, current # 0,
         OnSameMatch(fr)
  PROVE  Ordered(tick + 1)
<1>0. /\ files \in Seq(File) /\ OrderedDir(files) /\ current \in 1..Len(files)
      /\ tick \in Nat /\ filename_buffer \in Seq(Frame) /\ Neat(filename_buffer, tick)
      /\ files[current] \in File
  BY DEF OrderInv, MixInv, TypeOK
<1>1. files[current].frames \in Seq(Frame) /\ Neat(files[current].frames, tick)
  BY <1>0 DEF OrderInv, OpenNeat, File
<1>2. /\ Neat(files[current].frames, tick + 1) /\ Neat(filename_buffer, tick + 1)
      /\ Neat(Append(files[current].frames, fr), tick + 1)
  BY <1>0, <1>1, NeatLater, NeatAppend
<1> DEFINE r == [files[current] EXCEPT !.frames = Append(@, fr)]
<1>3. r.frames = Append(files[current].frames, fr)
  BY <1>0 DEF File
<1>4. files' = files \/ files' = [files EXCEPT ![current] = r]
  BY DEF OnSameMatch
<1> HIDE DEF r
<1>5. InOrder(r.frames)
  BY <1>2, <1>3, Zenon DEF Neat
<1>6. /\ OrderedDir([files EXCEPT ![current] = r])
      /\ [files EXCEPT ![current] = r][current] = r
  BY <1>0, <1>5, ReplaceOrdered
<1>7. pending' = <<>> /\ current' = current /\ filename_buffer' = filename_buffer
  BY DEF OnSameMatch
<1> QED
  BY <1>0, <1>2, <1>3, <1>4, <1>6, <1>7, NeatEmpty DEF Ordered, OpenNeat

LEMMA InactiveOrdered ==
  ASSUME OrderInv, NEW ia, OnInactive(ia)
  PROVE  Ordered(tick + 1)
<1>0. /\ files \in Seq(File) /\ OrderedDir(files) /\ current \in 1..Len(files)
      /\ tick \in Nat /\ filename_buffer \in Seq(Frame) /\ Neat(filename_buffer, tick)
      /\ files[current] \in File
  BY DEF OrderInv, MixInv, TypeOK, OnInactive
<1>1. files[current].frames \in Seq(Frame) /\ Neat(files[current].frames, tick)
  BY <1>0 DEF OrderInv, OpenNeat, File, OnInactive
<1>2. Neat(files[current].frames, tick + 1) /\ Neat(filename_buffer, tick + 1)
  BY <1>0, <1>1, NeatLater
<1>3. /\ OrderedDir(Sealed(files, current, "finalized"))
      /\ OrderedDir(CloseFailed(files, current))
      /\ CloseFailed(files, current)[current].frames = files[current].frames
  BY <1>0, ClosedOrdered DEF SidecarState
<1>4. /\ pending' = <<>>
      /\ \/ UNCHANGED <<current, filename_buffer, files>>
         \/ /\ files' = Sealed(files, current, "finalized")
            /\ current' = 0 /\ filename_buffer' = <<>>
         \/ /\ files' = CloseFailed(files, current)
            /\ UNCHANGED <<current, filename_buffer>>
  BY DEF OnInactive
<1> QED
  BY <1>0, <1>2, <1>3, <1>4, NeatEmpty DEF Ordered, OpenNeat

LEMMA HandleSnapOrdered ==
  ASSUME OrderInv, NEW r \in Readings, NEW named \in BOOLEAN, tick < MaxTick,
         HandleSnap(r, named, tick + 1)
  PROVE  Ordered(tick + 1)
<1> DEFINE t    == tick + 1
           ia   == IF Unbroken(t) THEN inactive_ticks ELSE 0
           pend == IF Unbroken(t) THEN pending ELSE <<>>
           fr   == [id |-> r.id, tick |-> t]
<1>0. /\ files \in Seq(File) /\ OrderedDir(files) /\ tick \in Nat
      /\ filename_buffer \in Seq(Frame) /\ Neat(filename_buffer, tick)
      /\ current \in 0..Len(files) /\ MixInv
  BY DEF OrderInv, MixInv, TypeOK
<1>1. pend \in Seq(Frame) /\ Neat(pend, tick)
  BY NeatEmpty DEF OrderInv, MixInv, TypeOK
<1>2. t \in Tick
  BY <1>0, ReaderAssumption, ConstantsAssumption DEF Tick
<1>3. r.kind = "active" => fr \in Frame /\ fr.id \in Id
  BY <1>0, <1>2, ReadingTyped DEF Frame
<1>4. fr.tick = tick + 1
  OBVIOUS
<1>5. Neat(filename_buffer, tick + 1) /\ OpenNeat(files, current, tick + 1)
  <2>1. CASE current = 0
    BY <1>0, <2>1, NeatLater DEF OpenNeat
  <2>2. CASE current # 0
    <3>1. files[current] \in File
      BY <1>0, <2>2
    <3>2. files[current].frames \in Seq(Frame) /\ Neat(files[current].frames, tick)
      BY <2>2, <3>1 DEF OrderInv, OpenNeat, File
    <3> QED
      BY <1>0, <3>2, NeatLater DEF OpenNeat
  <2> QED
    BY <2>1, <2>2
<1>6. \/ OnAmbiguous \/ OnIdle(ia) \/ OnInactive(ia)
      \/ /\ r.kind = "active"
         /\ \/ current = 0 /\ NothingOpen(fr, named)
            \/ current # 0 /\ OnSameMatch(fr)
            \/ current # 0 /\ OnOtherMatch(pend, fr, named)
  BY DEF HandleSnap
<1> HIDE DEF t, ia, pend, fr
<1>7. CASE OnAmbiguous \/ OnIdle(ia)
  <2>1. /\ files' = files /\ current' = current /\ pending' = <<>>
        /\ filename_buffer' \in {filename_buffer, <<>>}
    BY <1>7 DEF OnAmbiguous, OnIdle
  <2> QED
    BY <1>0, <1>5, <2>1, NeatEmpty DEF Ordered
<1>8. CASE OnInactive(ia)
  BY <1>8, InactiveOrdered
<1>9. CASE r.kind = "active" /\ NothingOpen(fr, named)
  BY <1>0, <1>3, <1>4, <1>9, OpenOrBufferOrdered, NeatEmpty DEF NothingOpen, Ordered
<1>10. CASE r.kind = "active" /\ current # 0 /\ OnSameMatch(fr)
  BY <1>3, <1>4, <1>10, SameMatchOrdered
<1>11. CASE r.kind = "active" /\ current # 0 /\ OnOtherMatch(pend, fr, named)
  BY <1>1, <1>3, <1>4, <1>11, OtherMatchOrdered
<1> QED
  BY <1>6, <1>7, <1>8, <1>9, <1>10, <1>11

-----------------------------------------------------------------------------
LEMMA OrderInit == Init => OrderInv
<1> SUFFICES ASSUME Init PROVE OrderInv
  OBVIOUS
<1>1. MixInv
  BY MixInvInit
<1>2. files = <<>> /\ current = 0 /\ filename_buffer = <<>> /\ pending = <<>>
  BY DEF Init
<1> QED
  BY <1>1, <1>2, NeatEmpty DEF OrderInv, OrderedDir, OpenNeat

\* A new process has nothing open and empty buffers.
LEMMA ProcessOrdered ==
  ASSUME OrderInv, MixInv', Process
  PROVE  OrderInv'
<1>1. /\ current' = 0 /\ filename_buffer' = <<>> /\ pending' = <<>>
      /\ \/ files' = files
         \/ current # 0 /\ files' = Sealed(files, current, ShutdownVerdict)
         \/ current # 0 /\ files' = CloseFailed(files, current)
  BY DEF Process, Shutdown, Crash, Reboots
<1>2. /\ files \in Seq(File) /\ OrderedDir(files) /\ ShutdownVerdict \in SidecarState
      /\ current # 0 => current \in 1..Len(files)
  BY DEF OrderInv, MixInv, TypeOK, ShutdownVerdict, SidecarState
<1>3. OrderedDir(files')
  BY <1>1, <1>2, ClosedOrdered
<1>4. Neat(<<>>, tick')
  BY NeatEmpty
<1> QED
  BY <1>1, <1>3, <1>4 DEF OrderInv, OrderedDir, OpenNeat, Neat, InOrder, UpTo

LEMMA OrderStep == OrderInv /\ [Next]_vars => OrderInv'
<1> SUFFICES ASSUME OrderInv, [Next]_vars PROVE OrderInv'
  OBVIOUS
<1>1. MixInv'
  <2>1. MixInv /\ [TwoTierNext]_vars
    BY DEF OrderInv, TwoTierNext
  <2> QED
    BY <2>1, MixInvStep
<1>2. /\ files \in Seq(File) /\ current \in 0..Len(files) /\ tick \in Nat
      /\ filename_buffer \in Seq(Frame) /\ pending \in Seq(Frame)
  BY DEF OrderInv, MixInv, TypeOK
<1>3. ASSUME UNCHANGED <<tick, files, current, filename_buffer, pending>>
      PROVE  OrderInv'
  BY <1>1, <1>3 DEF OrderInv, OrderedDir, OpenNeat, Neat, InOrder, UpTo
<1>4. ASSUME NEW r \in Readings, NEW named \in BOOLEAN, FullFrame(r, named)
      PROVE  OrderInv'
  <2>1. tick < MaxTick /\ tick' = tick + 1 /\ HandleSnap(r, named, tick + 1)
    BY <1>4 DEF FullFrame, Builds
  <2>2. Ordered(tick')
    BY <2>1, HandleSnapOrdered
  <2> QED
    BY <1>1, <2>2 DEF Ordered, OrderInv, OrderedDir, OpenNeat, Neat, InOrder, UpTo
<1>5. ASSUME NEW r \in Readings, SkippedFrame(r) PROVE OrderInv'
  <2>1. /\ tick' = tick + 1
        /\ UNCHANGED <<files, current, filename_buffer, pending>>
    BY <1>5 DEF SkippedFrame, Builds, stateBox
  <2>2. Neat(filename_buffer, tick + 1) /\ Neat(pending, tick + 1)
    BY <1>2, NeatLater DEF OrderInv
  <2>3. OpenNeat(files, current, tick + 1)
    <3>1. CASE current # 0
      <4>1. files[current] \in File
        BY <1>2, <3>1
      <4>2. files[current].frames \in Seq(Frame) /\ Neat(files[current].frames, tick)
        BY <3>1, <4>1 DEF OrderInv, OpenNeat, File
      <4> QED
        BY <1>2, <4>2, NeatLater DEF OpenNeat
    <3>2. CASE current = 0
      BY <3>2 DEF OpenNeat
    <3> QED
      BY <3>1, <3>2
  <2> QED
    BY <1>1, <2>1, <2>2, <2>3
       DEF OrderInv, OrderedDir, OpenNeat, Neat, InOrder, UpTo
<1>6. CASE UntickedFrame
  <2>1. /\ UNCHANGED <<tick, files, current, filename_buffer>> /\ pending' = <<>>
    BY <1>6 DEF UntickedFrame, readerVars
  <2>2. Neat(<<>>, tick)
    BY NeatEmpty
  <2> QED
    BY <1>1, <2>1, <2>2 DEF OrderInv, OrderedDir, OpenNeat, Neat, InOrder, UpTo
<1>7. CASE Process
  BY <1>1, <1>7, ProcessOrdered
<1>8. CASE Game \/ UNCHANGED vars
  BY <1>3, <1>8 DEF Game, MatchStarts, MatchEnds, vars, stateBox, readerVars
<1> QED
  BY <1>4, <1>5, <1>6, <1>7, <1>8 DEF Next, Reader

(***************************************************************************)
(* The frames of a recording are in the order they were built and none is  *)
(* there twice, whatever was buffered, flushed in part, or retried.        *)
(***************************************************************************)
THEOREM RecordedInOrder == Spec => []FramesInOrder
<1>1. OrderInv => FramesInOrder
  BY DEF OrderInv, OrderedDir, InOrder, FramesInOrder
<1> QED
  BY OrderInit, OrderStep, <1>1, PTL DEF Spec
-----------------------------------------------------------------------------
(***************************************************************************)
(* A match in time.  The history knows nothing of the buffers, yet while      *)
(* nothing failed every frame it counts is in one of them: in the pre-open *)
(* buffer when nothing is open, in the pending one when another match is.  *)
(* Neither holds NameLimit frames after a step, and the idle frames the    *)
(* buffer survived are not more than the history's.                        *)
(***************************************************************************)
Awaited(buf) == buf # <<>> /\ Head(buf).id = run.id /\ run.n <= Len(buf)

Waiting ==
  /\ Awaited(filename_buffer) /\ Len(filename_buffer) < NameLimit
  /\ preopen_idle_ticks <= run.idle

Covered ==
  IF current = 0 THEN Waiting
  ELSE files[current].id = run.id \/ (Awaited(pending) /\ Len(pending) < Confirm)

Run == [id : Id \cup {NoMatch}, n : Nat, idle : Nat]

OpeningInv ==
  /\ MixInv
  /\ run \in Run
  /\ faults = 0 /\ run.n > 0 => Covered

-----------------------------------------------------------------------------
\* The history stays typed, and forgets or counts.
LEMMA RunTyped ==
  ASSUME MixInv, run \in Run, NEW r \in Readings, NEW t, Counts(r, t)
  PROVE  run' \in Run
<1>1. r.kind = "active" => r.id \in Id
  BY ReadingTyped
<1>2. NoRun \in Run
  BY DEF NoRun, Run
<1> QED
  BY <1>1, <1>2 DEF Counts, Run

\* The frame that joins a buffer is counted by the history too.
LEMMA FrameAwaited ==
  ASSUME NEW buf \in Seq(Frame), NEW fr \in Frame, run \in Run,
         run'.id = fr.id,
         run'.n = 1 \/ (run.id = fr.id /\ run'.n = run.n + 1 /\ Awaited(buf))
  PROVE  LET b == Buffered(buf, fr)
         IN b # <<>> /\ Head(b).id = run'.id /\ run'.n <= Len(b) /\ b \in Seq(Frame)
<1> DEFINE kept == IF buf # <<>> /\ Head(buf).id # fr.id THEN <<>> ELSE buf
<1>1. kept \in Seq(Frame) /\ (kept # <<>> => Head(kept).id = fr.id)
  OBVIOUS
<1>2. run'.n <= Len(kept) + 1
  <2>1. run.n \in Nat /\ Len(kept) \in Nat
    BY <1>1 DEF Run
  <2>2. CASE run'.n = 1
    BY <2>1, <2>2
  <2>3. CASE run.id = fr.id /\ run'.n = run.n + 1 /\ Awaited(buf)
    BY <2>1, <2>3 DEF Awaited
  <2> QED
    BY <2>2, <2>3
<1> HIDE DEF kept
<1>3. /\ Append(kept, fr) \in Seq(Frame) /\ Len(Append(kept, fr)) = Len(kept) + 1
      /\ Append(kept, fr)[1].id = fr.id
  <2>1. CASE kept = <<>>
    BY <1>1, <2>1
  <2>2. CASE kept # <<>>
    BY <1>1, <2>2
  <2> QED
    BY <2>1, <2>2
<1>4. Append(kept, fr) # <<>> /\ Head(Append(kept, fr)).id = fr.id
  <2> DEFINE w == Append(kept, fr)
  <2>1. w \in Seq(Frame) /\ Len(w) = Len(kept) + 1 /\ Len(kept) \in Nat /\ w[1].id = fr.id
    BY <1>1, <1>3
  <2> HIDE DEF w
  <2>2. w # <<>> /\ Head(w) = w[1]
    BY <2>1
  <2> QED
    BY <2>1, <2>2 DEF w
<1> QED
  BY <1>2, <1>3, <1>4 DEF Buffered, kept

\* Opening or buffering, without a fault, leaves the match covered.
LEMMA OpenOrBufferCovers ==
  ASSUME NEW fs \in Seq(File), NEW buf0 \in Seq(Frame), NEW fr \in Frame,
         NEW named \in BOOLEAN, OpenOrBuffer(fs, buf0, fr, named),
         faults' = 0, faults \in Nat, preopen_idle_ticks' = 0, run \in Run, run' \in Run,
         run'.id = fr.id,
         run'.n = 1 \/ (run.id = fr.id /\ run'.n = run.n + 1 /\ Awaited(buf0))
  PROVE  Covered'
<1> DEFINE buf == Buffered(buf0, fr)
<1>1. buf # <<>> /\ Head(buf).id = run'.id /\ run'.n <= Len(buf) /\ buf \in Seq(Frame)
  BY FrameAwaited
<1>2. ~Fault
  BY DEF Fault
<1> HIDE DEF buf
<1>3. CASE ~ReadyToOpen(buf, named) /\ current' = 0 /\ filename_buffer' = buf
  <2>1. Len(buf) < NameLimit
    <3>1. Len(buf) \in Nat /\ NameLimit \in Nat /\ Confirm \in Nat /\ NameLimit >= Confirm
      BY <1>1, ConstantsAssumption, ReaderAssumption
    <3> QED
      BY <1>3, <3>1 DEF ReadyToOpen
  <2>2. preopen_idle_ticks' <= run'.idle
    BY DEF Run
  <2> QED
    BY <1>1, <1>3, <2>1, <2>2 DEF Covered, Waiting, Awaited
<1>4. ASSUME NEW frames, NEW state, files' = Append(fs, NewFile(fr.id, frames, state)),
             current' = Len(fs) + 1
      PROVE  Covered'
  <2>1. current' # 0 /\ files'[current'].id = fr.id
    BY <1>4 DEF NewFile
  <2> QED
    BY <2>1 DEF Covered
<1>5. \/ ~ReadyToOpen(buf, named) /\ current' = 0 /\ filename_buffer' = buf
      \/ \E state : /\ files' = Append(fs, NewFile(fr.id, buf, state))
                    /\ current' = Len(fs) + 1
  BY <1>2 DEF OpenOrBuffer, buf
<1> QED
  BY <1>3, <1>4, <1>5

-----------------------------------------------------------------------------
(***************************************************************************)
(* One frame.                                                              *)
(***************************************************************************)
LEMMA ActiveCounts ==
  ASSUME NEW r, r.kind = "active", NEW t, Counts(r, t)
  PROVE  /\ run'.id = r.id /\ run'.idle = 0
         /\ \/ run'.n = 1
            \/ /\ run.id = r.id /\ run'.n = run.n + 1
               /\ current = 0 \/ Unbroken(t)
BY DEF Counts

LEMMA NothingOpenCovers ==
  ASSUME OpeningInv, faults' = 0, NEW r \in Readings, r.kind = "active",
         NEW t \in Tick, Counts(r, t), run' \in Run,
         NEW named \in BOOLEAN, current = 0,
         NothingOpen([id |-> r.id, tick |-> t], named), faults = 0
  PROVE  Covered'
<1> DEFINE fr == [id |-> r.id, tick |-> t]
<1>1. fr \in Frame /\ fr.id = r.id
  BY ReadingTyped DEF OpeningInv, Frame
<1>2. run.n > 0 => Awaited(filename_buffer)
  BY DEF OpeningInv, Covered, Waiting
<1>3. /\ run'.id = fr.id
      /\ run'.n = 1 \/ (run.id = fr.id /\ run'.n = run.n + 1 /\ Awaited(filename_buffer))
  BY <1>1, <1>2, ActiveCounts DEF OpeningInv, Run
<1>4. OpenOrBuffer(files, filename_buffer, fr, named) /\ preopen_idle_ticks' = 0
  BY DEF NothingOpen, ClearIdle
<1>5. files \in Seq(File) /\ filename_buffer \in Seq(Frame) /\ faults \in Nat /\ run \in Run
  BY DEF OpeningInv, MixInv, TypeOK
<1> HIDE DEF fr
<1> QED
  BY <1>1, <1>2, <1>3, <1>4, <1>5, OpenOrBufferCovers

LEMMA OtherMatchCovers ==
  ASSUME OpeningInv, faults' = 0, NEW r \in Readings, r.kind = "active",
         NEW t \in Tick, Counts(r, t), run' \in Run,
         NEW named \in BOOLEAN, current # 0, files[current].id # r.id,
         OnOtherMatch(IF Unbroken(t) THEN pending ELSE <<>>,
                      [id |-> r.id, tick |-> t], named), faults = 0
  PROVE  Covered'
<1> DEFINE fr   == [id |-> r.id, tick |-> t]
           pend == IF Unbroken(t) THEN pending ELSE <<>>
           p    == IF pend # <<>> /\ Head(pend).id = fr.id
                   THEN Append(pend, fr) ELSE <<fr>>
<1>1. fr \in Frame /\ fr.id = r.id
  BY ReadingTyped DEF OpeningInv, Frame
<1>2. pend \in Seq(Frame) /\ Uniform(pend)
  BY EmptyUniform DEF OpeningInv, MixInv, TypeOK
<1>3. /\ run'.id = fr.id /\ run'.n \in Nat /\ run.n \in Nat
      /\ \/ run'.n = 1
         \/ run.id = fr.id /\ run'.n = run.n + 1 /\ pend = pending
  BY <1>1, ActiveCounts DEF OpeningInv, Run
<1>4. run.n > 0 /\ run.id = fr.id => Awaited(pending)
  BY <1>1 DEF OpeningInv, Covered
<1>5. ~Fault
  BY DEF Fault
<1>6. \/ Len(p) < Confirm /\ pending' = p /\ UNCHANGED <<current, files>>
      \/ /\ preopen_idle_ticks' = 0
         /\ OpenOrBuffer(Sealed(files, current, "finalized"), Seed(p), fr, named)
  BY <1>5 DEF OnOtherMatch, ClearIdle
<1> HIDE DEF fr, pend
<1>7. /\ p \in Seq(Frame) /\ Uniform(p) /\ p # <<>> /\ Head(p).id = fr.id
      /\ Len(p) \in Nat \ {0}
      /\ run'.n = 1 \/ (run.id = fr.id /\ run'.n = run.n + 1 /\ run.n <= Len(p) - 1)
  <2>1. CASE pend # <<>> /\ Head(pend).id = fr.id
    <3>1. /\ Append(pend, fr) \in Seq(Frame) /\ Uniform(Append(pend, fr))
          /\ Append(pend, fr) # <<>> /\ Head(Append(pend, fr)).id = fr.id
          /\ Len(Append(pend, fr)) = Len(pend) + 1 /\ Len(pend) \in Nat
      BY <1>1, <1>2, <2>1, UniformAppend
    <3>2. p = Append(pend, fr)
      BY <2>1
    <3> HIDE DEF p
    <3>3. run'.n = 1 \/ (run.id = fr.id /\ run'.n = run.n + 1 /\ run.n <= Len(pend))
      BY <1>3, <1>4, <3>1 DEF Awaited
    <3> QED
      BY <3>1, <3>2, <3>3
  <2>2. CASE ~(pend # <<>> /\ Head(pend).id = fr.id)
    <3>1. p = <<fr>>
      BY <2>2
    <3>2. <<fr>> \in Seq(Frame) /\ Len(<<fr>>) = 1 /\ <<fr>>[1] = fr
      BY <1>1
    <3>3. Uniform(<<fr>>) /\ <<fr>> # <<>> /\ Head(<<fr>>) = fr
      BY <3>2 DEF Uniform
    <3>4. run'.n = 1
      BY <1>3, <1>4, <2>2 DEF Awaited
    <3> HIDE DEF p
    <3> QED
      BY <3>1, <3>2, <3>3, <3>4
  <2> QED
    BY <2>1, <2>2
<1> HIDE DEF p
<1>8. CASE Len(p) < Confirm /\ pending' = p /\ UNCHANGED <<current, files>>
  BY <1>3, <1>7, <1>8 DEF Covered, Awaited
<1>9. CASE /\ preopen_idle_ticks' = 0
           /\ OpenOrBuffer(Sealed(files, current, "finalized"), Seed(p), fr, named)
  <2>1. Sealed(files, current, "finalized") \in Seq(File)
    <3>1. current \in 1..Len(files) /\ files \in Seq(File) /\ MixFree(files)
      BY DEF OpeningInv, MixInv, TypeOK
    <3>2. "finalized" \in SidecarState
      BY DEF SidecarState
    <3> QED
      BY <3>1, <3>2, CloseKeeps
  <2>2. /\ Seed(p) \in Seq(Frame) /\ Len(Seed(p)) = Len(p) - 1
        /\ Seed(p) # <<>> => Head(Seed(p)).id = fr.id
    <3> DEFINE k == Len(p) - 1
    <3>1. k \in 0..Len(p)
      BY <1>7
    <3> HIDE DEF k
    <3>2. /\ SubSeq(p, 1, k) \in Seq(Frame) /\ Len(SubSeq(p, 1, k)) = k
          /\ SubSeq(p, 1, k) # <<>> => Head(SubSeq(p, 1, k)) = Head(p)
      BY <1>7, <3>1
    <3> QED
      BY <1>7, <3>2 DEF Seed, k
  <2>3. run'.n = 1 \/ (run.id = fr.id /\ run'.n = run.n + 1 /\ Awaited(Seed(p)))
    <3>1. CASE run.id = fr.id /\ run'.n = run.n + 1 /\ run.n <= Len(p) - 1 /\ run'.n # 1
      <4>1. Seed(p) # <<>>
        BY <1>3, <2>2, <3>1
      <4> QED
        BY <2>2, <3>1, <4>1 DEF Awaited
    <3> QED
      BY <1>7, <3>1
  <2>4. faults \in Nat /\ run \in Run
    BY DEF OpeningInv, MixInv, TypeOK
  <2> QED
    BY <1>1, <1>3, <1>9, <2>1, <2>2, <2>3, <2>4, OpenOrBufferCovers
<1> QED
  BY <1>6, <1>8, <1>9

\* The frame of the match that is being recorded.
LEMMA SameMatchCovers ==
  ASSUME OpeningInv, NEW r, r.kind = "active", NEW t, Counts(r, t), current # 0,
         files[current].id = r.id, OnSameMatch([id |-> r.id, tick |-> t])
  PROVE  Covered'
<1>1. current \in 1..Len(files) /\ files \in Seq(File) /\ files[current] \in File
  BY DEF OpeningInv, MixInv, TypeOK
<1>2. files'[current].id = files[current].id
  <2> DEFINE fr   == [id |-> r.id, tick |-> t]
             rows == [files[current] EXCEPT !.frames = Append(@, fr)]
  <2>1. rows.id = files[current].id
    BY <1>1 DEF File
  <2>2. files' = files \/ files' = [files EXCEPT ![current] = rows]
    BY DEF OnSameMatch
  <2> HIDE DEF rows
  <2> QED
    BY <1>1, <2>1, <2>2
<1>3. current' = current
  BY DEF OnSameMatch
<1> QED
  BY <1>2, <1>3, ActiveCounts DEF Covered

\* An idle frame: the buffer goes only when the history does.
LEMMA IdleCovers ==
  ASSUME OpeningInv, NEW r, r.kind = "inactive", NEW t, Counts(r, t),
         NEW ia, OnIdle(ia), faults = 0, run'.n > 0
  PROVE  Covered'
<1>1. current = 0 /\ current' = 0
  BY DEF OnIdle
<1>2. run.idle + 1 < Confirm /\ run' = [run EXCEPT !.idle = @ + 1]
  BY <1>1 DEF Counts, NoRun
<1>3. run \in Run /\ run'.id = run.id /\ run'.n = run.n /\ run'.idle = run.idle + 1
  BY <1>2 DEF OpeningInv, Run
<1>4. Waiting
  BY <1>1, <1>3 DEF OpeningInv, Covered
<1>5. preopen_idle_ticks + 1 < Confirm
  BY <1>2, <1>3, <1>4, ReaderAssumption DEF Waiting, OpeningInv, MixInv, TypeOK, Run
<1>6. filename_buffer' = filename_buffer /\ preopen_idle_ticks' = preopen_idle_ticks + 1
  BY <1>4, <1>5 DEF OnIdle, Waiting, Awaited
<1> QED
  BY <1>1, <1>3, <1>4, <1>6 DEF Covered, Waiting, Awaited, OpeningInv, MixInv, TypeOK, Run

LEMMA FullFrameCovers ==
  ASSUME OpeningInv, NEW r \in Readings, NEW named \in BOOLEAN,
         FullFrame(r, named), Counts(r, tick + 1)
  PROVE  OpeningInv'
<1> DEFINE t == tick + 1
<1>1. MixInv' /\ run' \in Run
  BY FullFrameMix, RunTyped DEF OpeningInv
<1>2. SUFFICES ASSUME faults' = 0, run'.n > 0 PROVE Covered'
  BY <1>1 DEF OpeningInv
<1>3. HandleSnap(r, named, t) /\ t \in Tick
  BY ConstantsAssumption DEF FullFrame, Builds, Tick, OpeningInv, MixInv, TypeOK
<1>4. faults = 0
  <2>1. faults' \in {faults, faults + 1} /\ faults \in Nat
    BY <1>3 DEF HandleSnap, OnAmbiguous, OnIdle, OnInactive, NothingOpen, OnSameMatch, OnOtherMatch,
                OpenOrBuffer, Fault, NoFault, OpeningInv, MixInv, TypeOK
  <2> QED
    BY <1>2, <2>1
<1>5. r.kind \notin {"active", "inactive"} => run'.n = 0
  BY DEF Counts, NoRun
<1>6. CASE r.kind = "inactive"
  <2>1. current = 0
    BY <1>2, <1>6 DEF Counts, NoRun
  <2>2. \E ia : OnIdle(ia)
    BY <1>3, <1>6, <2>1 DEF HandleSnap, Ambiguous, NoId, Unreadable, OnInactive
  <2> QED
    BY <1>2, <1>4, <1>6, <2>2, IdleCovers
<1>7. CASE r.kind = "active"
  <2> DEFINE fr   == [id |-> r.id, tick |-> t]
             pend == IF Unbroken(t) THEN pending ELSE <<>>
  <2>1. \/ current = 0 /\ NothingOpen(fr, named)
        \/ current # 0 /\ files[current].id = r.id /\ OnSameMatch(fr)
        \/ current # 0 /\ files[current].id # r.id /\ OnOtherMatch(pend, fr, named)
    BY <1>3, <1>7 DEF HandleSnap, Ambiguous, NoId, Unreadable
  <2> HIDE DEF t
  <2>2. Counts(r, t)
    BY DEF t
  <2> QED
    BY <1>1, <1>2, <1>3, <1>4, <1>7, <2>1, <2>2, NothingOpenCovers, SameMatchCovers, OtherMatchCovers
<1> QED
  BY <1>2, <1>5, <1>6, <1>7

-----------------------------------------------------------------------------
LEMMA OpeningInvInit == OpeningInit => OpeningInv
<1> SUFFICES ASSUME OpeningInit PROVE OpeningInv
  OBVIOUS
<1>1. run = NoRun /\ NoRun \in Run /\ NoRun.n = 0
  BY DEF OpeningInit, NoRun, Run
<1> QED
  BY <1>1, MixInvInit DEF OpeningInit, OpeningInv

LEMMA OpeningInvStep == OpeningInv /\ [OpeningNext]_<<vars, run>> => OpeningInv'
<1> SUFFICES ASSUME OpeningInv, [OpeningNext]_<<vars, run>> PROVE OpeningInv'
  OBVIOUS
<1>1. NoRun \in Run /\ NoRun.n = 0
  BY DEF NoRun, Run
<1>2. CASE \E r \in Readings, named \in BOOLEAN : FullFrame(r, named) /\ Counts(r, tick + 1)
  BY <1>2, FullFrameCovers
<1>3. CASE \E r \in Readings : SkippedFrame(r) /\ UNCHANGED run
  <2>1. MixInv'
    BY <1>3, MixInvStep DEF OpeningInv, TwoTierNext, Next, Reader
  <2>2. UNCHANGED <<stateBox, files, faults>> /\ run' = run
    BY <1>3 DEF SkippedFrame
  <2> QED
    BY <2>1, <2>2 DEF OpeningInv, Covered, Waiting, Awaited, stateBox
<1>4. CASE Game /\ UNCHANGED run
  <2>1. MixInv'
    BY <1>4, MixInvStep DEF OpeningInv, TwoTierNext, Next
  <2>2. UNCHANGED <<stateBox, files, faults>> /\ run' = run
    BY <1>4 DEF Game, MatchStarts, MatchEnds
  <2> QED
    BY <2>1, <2>2 DEF OpeningInv, Covered, Waiting, Awaited, stateBox
<1>5. CASE UntickedFrame /\ run' = IF current = 0 THEN run ELSE NoRun
  <2>1. MixInv'
    BY <1>5, MixInvStep DEF OpeningInv, TwoTierNext, Next, Reader
  <2>2. UNCHANGED <<current, filename_buffer, preopen_idle_ticks, files, faults>>
    BY <1>5 DEF UntickedFrame
  <2> QED
    BY <1>1, <1>5, <2>1, <2>2 DEF OpeningInv, Covered, Waiting, Awaited
<1>6. CASE UNCHANGED <<vars, run>>
  <2>1. MixInv'
    BY <1>6, MixInvStep DEF OpeningInv
  <2> QED
    BY <1>6, <2>1 DEF OpeningInv, Covered, Waiting, Awaited, vars, stateBox
<1> QED
  BY <1>2, <1>3, <1>4, <1>5, <1>6 DEF OpeningNext

(***************************************************************************)
(* NameLimit frames of a match, however torn, skipped or idle frames lie   *)
(* between them, and whatever recording was still open: the match is on    *)
(* disk, for every threshold and any number of matches.                    *)
(***************************************************************************)
THEOREM MatchesOpenInTime == OpeningSpec => []OpensInTime
<1>1. OpeningInv => OpensInTime
  <2> SUFFICES ASSUME OpeningInv, faults = 0, run.n >= NameLimit
               PROVE  current # 0 /\ files[current].id = run.id
    BY DEF OpensInTime
  <2>1. run.n \in Nat /\ Confirm \in Nat \ {0} /\ NameLimit \in Nat /\ NameLimit >= Confirm
    BY ConstantsAssumption, ReaderAssumption DEF OpeningInv, Run
  <2>2. Covered
    BY <2>1 DEF OpeningInv
  <2>3. Len(filename_buffer) \in Nat /\ Len(pending) \in Nat
    BY DEF OpeningInv, MixInv, TypeOK
  <2> QED
    BY <2>1, <2>2, <2>3 DEF Covered, Waiting, Awaited
<1> QED
  BY <1>1, OpeningInvInit, OpeningInvStep, PTL DEF OpeningSpec
=============================================================================
