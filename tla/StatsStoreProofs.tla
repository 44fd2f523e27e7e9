-------------------------- MODULE StatsStoreProofs --------------------------
(***************************************************************************)
(* What holds of the stats store for any matches, any threshold and any    *)
(* number of faults and restarts.                                          *)
(***************************************************************************)
EXTENDS StatsStore, TLAPS

USE DEF Id

(***************************************************************************)
(* The SQL statements on a well-typed table.                               *)
(***************************************************************************)
LEMMA SweptTable ==
  ASSUME NEW t \in [Id -> Row], NEW i
  PROVE  /\ Swept(t, i) \in [Id -> Row]
         /\ \A j \in Id : Swept(t, i)[j] =
              IF j # i /\ t[j].status = "open" THEN Final("unverified") ELSE t[j]
BY DEF Swept, Row, Final

LEMMA OpenedTable ==
  ASSUME NEW t \in [Id -> Row], NEW i \in Id
  PROVE  /\ Opened(t, i) \in [Id -> Row]
         /\ \A j \in Id : j # i => Opened(t, i)[j] = Swept(t, i)[j]
         /\ Opened(t, i)[i].status = "open"
         /\ Opened(t, i)[i].end = t[i].end
<1>1. /\ Swept(t, i) \in [Id -> Row]
      /\ Swept(t, i)[i] = t[i]
  BY SweptTable
<1>2. Opened(t, i) = [Swept(t, i) EXCEPT ![i].status = "open"]
  BY DEF Opened
<1> HIDE DEF Id
<1> QED
  BY <1>1, <1>2 DEF Row

LEMMA ClosedTable ==
  ASSUME NEW t \in [Id -> Row], NEW i \in Id, NEW end \in {"unverified", "finalized"}
  PROVE  /\ Closed(t, i, end) \in [Id -> Row]
         /\ Closed(t, i, end)[i] = Final(end)
         /\ \A j \in Id : j # i => Closed(t, i, end)[j] = t[j]
BY DEF Closed, Row, Final

(***************************************************************************)
(* Rating a match changes its own count alone, and only from 0 to 1.       *)
(***************************************************************************)
LEMMA RatedCount ==
  ASSUME rated \in [Id -> Nat], NEW i \in Id, NEW end, NEW rateable \in BOOLEAN
  PROVE  /\ Rated(i, end, rateable) \in [Id -> Nat]
         /\ \A j \in Id : j # i => Rated(i, end, rateable)[j] = rated[j]
         /\ \/ Rated(i, end, rateable)[i] = rated[i]
            \/ Rated(i, end, rateable)[i] = 1 /\ end # "unverified"
BY DEF Rated

LEMMA ReadingTyped ==
  ASSUME TypeOK, NEW r \in Readings
  PROVE  /\ r.kind \in {"active", "inactive", "noid", "unreadable"}
         /\ r.kind = "active" => r.id \in Id /\ r = Active(r.id)
         /\ r.kind = "inactive" => r = Inactive
<1>1. CASE r = Truth
  BY <1>1 DEF TypeOK, Truth, Active, Inactive
<1>2. CASE r \in Ambiguous
  BY <1>2 DEF Ambiguous, NoId, Unreadable
<1>3. CASE r \in Torn
  BY <1>3 DEF TypeOK, Torn, TornId, Active, Inactive
<1> QED
  BY <1>1, <1>2, <1>3 DEF Readings

-----------------------------------------------------------------------------
(***************************************************************************)
(* What one call of record_tick does to the store: nothing but counting;   *)
(* closing the open match; opening a match; closing one for another.       *)
(***************************************************************************)
Counts(r) ==
  /\ UNCHANGED <<dbVars, open>>
  /\ inactive_ticks' = 0 \/ (r = Inactive /\ inactive_ticks' = inactive_ticks + 1)

Closes(r, rateable) ==
  /\ r = Inactive /\ inactive_ticks + 1 >= Confirm
  /\ open \in Id /\ open' = NoMatch /\ inactive_ticks' = 0
  /\ rows' = Closed(rows, open, "finalized")
  /\ rated' = Rated(open, "finalized", rateable)

Opens(r) ==
  /\ r.id \in Id /\ r = Active(r.id)
  /\ open = NoMatch /\ open' = r.id /\ inactive_ticks' = 0
  /\ rows' = Opened(rows, r.id) /\ rated' = rated

Supersedes(r, rateable) ==
  /\ r.id \in Id /\ r = Active(r.id)
  /\ open \in Id \ {r.id} /\ open' = r.id /\ inactive_ticks' = 0
  /\ rows' = Opened(Closed(rows, open, "unverified"), r.id)
  /\ rated' = Rated(open, "unverified", rateable)

LEMMA TickEffect ==
  ASSUME TypeOK, NEW r \in Readings, NEW rateable \in BOOLEAN,
         FullFrame(r, rateable)
  PROVE  /\ up' \in {up, FALSE} /\ fired' \in SUBSET Id /\ lastKind' = r.kind
         /\ faults' \in {faults, faults + 1} /\ restarts' \in {restarts, restarts + 1}
         /\ UNCHANGED gameVars
         /\ Counts(r) \/ Closes(r, rateable) \/ Opens(r) \/ Supersedes(r, rateable)
<1>1. /\ lastKind' = r.kind /\ UNCHANGED gameVars
      /\ RecordTick(r, rateable)
  BY DEF FullFrame
<1>2. /\ open \in Id \cup {NoMatch}
      /\ r.kind = "active" => r.id \in Id /\ r = Active(r.id)
      /\ r.kind = "inactive" => r = Inactive
  BY ReadingTyped DEF TypeOK
<1>3. CASE OnAmbiguous
  BY <1>1, <1>2, <1>3 DEF OnAmbiguous, Idle, Counts, dbVars
<1>4. CASE r.kind = "inactive" /\ OnInactive(rateable)
  <2>1. CASE inactive_ticks' = inactive_ticks + 1 /\ (Idle \/ RollsBack)
    BY <1>1, <1>2, <1>4, <2>1 DEF Idle, RollsBack, Counts, dbVars
  <2>2. CASE /\ open = NoMatch /\ inactive_ticks' = 0
             /\ Commits(rows, NoMatch, {}) /\ UNCHANGED rated
    BY <1>1, <1>2, <1>4, <2>2 DEF Commits, Counts, dbVars
  <2>3. CASE /\ open # NoMatch /\ inactive_ticks + 1 >= Confirm /\ inactive_ticks' = 0
             /\ Commits(Closed(rows, open, "finalized"), NoMatch, {open})
             /\ rated' = Rated(open, "finalized", rateable)
    BY <1>1, <1>2, <1>4, <2>3 DEF Commits, Closes
  <2> QED
    BY <1>4, <2>1, <2>2, <2>3 DEF OnInactive
<1>5. CASE r.kind = "active" /\ OnActive(r.id, rateable)
  <2>1. CASE RollsBack
    BY <1>1, <1>5, <2>1 DEF OnActive, RollsBack, Counts, dbVars
  <2>2. CASE open = r.id /\ Commits(rows, r.id, {}) /\ UNCHANGED rated
    BY <1>1, <1>5, <2>2 DEF OnActive, Commits, Counts, dbVars
  <2>3. CASE open = NoMatch /\ Commits(Opened(rows, r.id), r.id, {}) /\ UNCHANGED rated
    BY <1>1, <1>2, <1>5, <2>3 DEF OnActive, Commits, Opens
  <2>4. CASE /\ open \notin {r.id, NoMatch}
             /\ Commits(Opened(Closed(rows, open, Superseded), r.id), r.id, {open})
             /\ rated' = Rated(open, Superseded, rateable)
    BY <1>1, <1>2, <1>5, <2>4 DEF OnActive, Commits, Supersedes, Superseded
  <2> QED
    BY <1>5, <2>1, <2>2, <2>3, <2>4 DEF OnActive
<1> QED
  BY <1>1, <1>3, <1>4, <1>5 DEF RecordTick

(***************************************************************************)
(* The four effects keep the table and the counts typed.                   *)
(***************************************************************************)
LEMMA TickTyped ==
  ASSUME TypeOK, NEW r, NEW rateable \in BOOLEAN,
         Counts(r) \/ Closes(r, rateable) \/ Opens(r) \/ Supersedes(r, rateable)
  PROVE  /\ rows' \in [Id -> Row] /\ rated' \in [Id -> Nat]
         /\ open' \in Id \cup {NoMatch} /\ inactive_ticks' \in Nat
<1>1. /\ rows \in [Id -> Row] /\ rated \in [Id -> Nat]
      /\ open \in Id \cup {NoMatch} /\ inactive_ticks \in Nat
  BY DEF TypeOK
<1>2. CASE Counts(r)
  BY <1>1, <1>2 DEF Counts, dbVars
<1>3. CASE Closes(r, rateable)
  BY <1>1, <1>3, ClosedTable, RatedCount DEF Closes
<1>4. CASE Opens(r)
  BY <1>1, <1>4, OpenedTable DEF Opens
<1>5. CASE Supersedes(r, rateable)
  <2>1. Closed(rows, open, "unverified") \in [Id -> Row]
    BY <1>1, <1>5, ClosedTable DEF Supersedes
  <2> QED
    BY <1>1, <1>5, <2>1, OpenedTable, RatedCount DEF Supersedes
<1> QED
  BY <1>2, <1>3, <1>4, <1>5

-----------------------------------------------------------------------------
LEMMA TypeInit == Init => TypeOK
BY DEF Init, GameInit, TypeOK, NoRow, Row

LEMMA ShutdownTyped ==
  ASSUME TypeOK, Shutdown
  PROVE  TypeOK'
<1>1. /\ restarts' \in Nat
      /\ UNCHANGED <<live, seen, tornRun, open, inactive_ticks, lastKind>>
  BY DEF Shutdown, Stops, gameVars, memVars, TypeOK
<1>2. up' \in BOOLEAN
  BY Zenon DEF Shutdown, Stops
<1>3. CASE fired' = {} /\ UNCHANGED dbVars /\ faults' \in {faults, faults + 1}
  BY <1>1, <1>2, <1>3 DEF TypeOK, dbVars
<1>4. CASE /\ open # NoMatch /\ fired' = {open} /\ UNCHANGED faults
           /\ rows' = Closed(rows, open, ShutdownVerdict)
           /\ \E rateable \in BOOLEAN : rated' = Rated(open, ShutdownVerdict, rateable)
  <2>1. open \in Id /\ rows \in [Id -> Row] /\ rated \in [Id -> Nat]
    BY <1>4 DEF TypeOK
  <2>2. rows' \in [Id -> Row]
    BY <1>4, <2>1, ClosedTable DEF ShutdownVerdict
  <2>3. rated' \in [Id -> Nat]
    BY <1>4, <2>1, RatedCount
  <2> QED
    BY <1>1, <1>2, <1>4, <2>1, <2>2, <2>3 DEF TypeOK
<1> QED
  BY <1>3, <1>4 DEF Shutdown

LEMMA TypeStep == TypeOK /\ [Next]_vars => TypeOK'
<1> SUFFICES ASSUME TypeOK, [Next]_vars
             PROVE  TypeOK'
  OBVIOUS
<1>1. CASE Game
  BY <1>1 DEF Game, Starts, Ends, TypeOK, memVars, dbVars
<1>2. ASSUME NEW r \in Readings, NEW rateable \in BOOLEAN, FullFrame(r, rateable)
      PROVE  TypeOK'
  <2>1. /\ rows' \in [Id -> Row] /\ rated' \in [Id -> Nat]
        /\ open' \in Id \cup {NoMatch} /\ inactive_ticks' \in Nat
    BY <1>2, TickEffect, TickTyped
  <2>2. tornRun' \in Nat
    BY <1>2 DEF FullFrame, Reads, TypeOK
  <2>3. /\ up' \in BOOLEAN /\ faults' \in Nat /\ restarts' \in Nat
        /\ fired' \in SUBSET Id /\ UNCHANGED gameVars /\ lastKind' = r.kind
    <3>1. up' \in BOOLEAN
      BY <1>2, TickEffect, Zenon DEF TypeOK
    <3>2. /\ faults' \in {faults, faults + 1} /\ restarts' \in {restarts, restarts + 1}
          /\ fired' \in SUBSET Id /\ UNCHANGED gameVars /\ lastKind' = r.kind
      BY <1>2, TickEffect
    <3> QED
      BY <3>1, <3>2 DEF TypeOK
  <2>4. lastKind' \in {"none", "active", "inactive", "noid", "unreadable"}
    BY <1>2, <2>3, ReadingTyped
  <2> QED
    BY <2>1, <2>2, <2>3, <2>4 DEF TypeOK, gameVars
<1>3. CASE Shutdown
  BY <1>3, ShutdownTyped
<1>4. CASE Crash
  <2>1. up' \in BOOLEAN
    BY <1>4, Zenon DEF Crash, Stops
  <2>2. /\ restarts' \in Nat /\ fired' = {}
        /\ UNCHANGED <<live, seen, tornRun, open, inactive_ticks, lastKind,
                       rows, rated, faults>>
    BY <1>4 DEF Crash, Stops, TypeOK, gameVars, memVars, dbVars
  <2> QED
    BY <2>1, <2>2 DEF TypeOK
<1>5. CASE Boot
  <2>1. rows' \in [Id -> Row]
    BY <1>5, SweptTable DEF Boot, TypeOK
  <2> QED
    BY <1>5, <2>1 DEF Boot, TypeOK, gameVars
<1>6. ASSUME NEW S \in SUBSET Id, Recalc(S)
      PROVE  TypeOK'
  BY <1>6 DEF Recalc, TypeOK, gameVars, memVars
<1>7. ASSUME NEW r \in Readings, SkippedFrame(r)
      PROVE  TypeOK'
  BY <1>7 DEF SkippedFrame, Reads, TypeOK, gameVars, memVars, dbVars
<1>8. CASE UNCHANGED vars
  BY <1>8 DEF vars, gameVars, storeVars, memVars, dbVars, TypeOK
<1> QED
  BY <1>1, <1>2, <1>3, <1>4, <1>5, <1>6, <1>7, <1>8
     DEF Next, SteadyNext, Consumes, Process, Repairs, Skips

(***************************************************************************)
(* The store's attributes and its table keep their types.                  *)
(***************************************************************************)
THEOREM StoreTyped == Spec => []TypeOK
BY TypeInit, TypeStep, PTL DEF Spec

-----------------------------------------------------------------------------
(***************************************************************************)
(* The open row.                                                           *)
(***************************************************************************)
OpenRows == \A i \in Id : rows[i].status = "open" <=> i = open

LEMMA TickOpenRow ==
  ASSUME TypeOK, NEW r, NEW rateable \in BOOLEAN, OpenRows,
         Counts(r) \/ Closes(r, rateable) \/ Opens(r) \/ Supersedes(r, rateable)
  PROVE  OpenRows'
<1>1. /\ rows \in [Id -> Row] /\ open \in Id \cup {NoMatch} /\ NoMatch \notin Id
  BY ReaderAssumption DEF TypeOK
<1>2. CASE Counts(r)
  BY <1>2 DEF Counts, dbVars, OpenRows
<1>3. CASE Closes(r, rateable)
  <2>1. /\ open \in Id /\ open' = NoMatch
        /\ rows' = Closed(rows, open, "finalized")
    BY <1>3 DEF Closes
  <2>2. /\ rows'[open] = Final("finalized")
        /\ \A j \in Id : j # open => rows'[j] = rows[j]
    BY <1>1, <2>1, ClosedTable
  <2>3. \A j \in Id : rows'[j].status # "open"
    BY <2>1, <2>2 DEF OpenRows, Final
  <2> QED
    BY <1>1, <2>1, <2>3 DEF OpenRows
<1>4. CASE Opens(r)
  <2>1. \A j \in Id : j # r.id => rows'[j] = Swept(rows, r.id)[j]
    BY <1>1, <1>4, OpenedTable DEF Opens
  <2>2. rows'[r.id].status = "open" /\ open' = r.id
    BY <1>1, <1>4, OpenedTable DEF Opens
  <2>3. \A j \in Id : j # r.id => rows'[j].status # "open"
    BY <1>1, <2>1, SweptTable DEF Final
  <2> QED
    BY <2>2, <2>3 DEF OpenRows
<1>5. CASE Supersedes(r, rateable)
  <2> DEFINE t == Closed(rows, open, "unverified")
  <2>1. t \in [Id -> Row] /\ rows' = Opened(t, r.id) /\ r.id \in Id /\ open' = r.id
    BY <1>1, <1>5, ClosedTable DEF Supersedes
  <2> HIDE DEF t
  <2>2. \A j \in Id : j # r.id => rows'[j] = Swept(t, r.id)[j]
    BY <2>1, OpenedTable
  <2>3. rows'[r.id].status = "open"
    BY <2>1, OpenedTable
  <2>4. \A j \in Id : j # r.id => rows'[j].status # "open"
    BY <2>1, <2>2, SweptTable DEF Final
  <2> QED
    BY <2>1, <2>3, <2>4 DEF OpenRows
<1> QED
  BY <1>2, <1>3, <1>4, <1>5

LEMMA OpenRowStep == TypeOK /\ OpenRowIsCurrent /\ [Next]_vars => OpenRowIsCurrent'
<1> SUFFICES ASSUME TypeOK, OpenRowIsCurrent, [Next]_vars, up'
             PROVE  OpenRows'
  BY DEF OpenRowIsCurrent, OpenRows
<1>1. ASSUME UNCHANGED <<rows, open, up>>
      PROVE  OpenRows'
  BY <1>1 DEF OpenRowIsCurrent, OpenRows
<1>2. ASSUME NEW r \in Readings, NEW rateable \in BOOLEAN, FullFrame(r, rateable)
      PROVE  OpenRows'
  <2>1. OpenRows
    BY <1>2 DEF FullFrame, OpenRowIsCurrent, OpenRows
  <2> QED
    BY <1>2, <2>1, TickEffect, TickOpenRow
<1>3. CASE Shutdown \/ Crash
  BY <1>3, Zenon DEF Shutdown, Crash, Stops
<1>4. CASE Boot
  <2>1. rows \in [Id -> Row] /\ NoMatch \notin Id
    BY ReaderAssumption DEF TypeOK
  <2>2. \A j \in Id : rows'[j].status # "open" /\ j # open'
    BY <1>4, <2>1, SweptTable DEF Boot, Final
  <2> QED
    BY <2>2 DEF OpenRows
<1> QED
  BY <1>1, <1>2, <1>3, <1>4
     DEF Next, SteadyNext, Consumes, Process, Repairs, Skips, Game, Recalc,
         SkippedFrame, vars, gameVars, storeVars, memVars, dbVars

(***************************************************************************)
(* Over lost edges, rollbacks, sweeps, torn ids and skipped frames the     *)
(* running store's open match is the one open row.                         *)
(***************************************************************************)
THEOREM OneOpenRow == Spec => []OpenRowIsCurrent
<1>1. Init => OpenRowIsCurrent
  BY ReaderAssumption DEF Init, OpenRowIsCurrent, NoRow
<1> QED
  BY <1>1, OpenRowStep, StoreTyped, PTL DEF Spec

-----------------------------------------------------------------------------
LEMMA RatedStep == TypeOK /\ RatedOnce /\ [Next]_vars => RatedOnce'
<1> SUFFICES ASSUME TypeOK, RatedOnce, [Next]_vars
             PROVE  RatedOnce'
  OBVIOUS
<1>1. ASSUME UNCHANGED rated
      PROVE  RatedOnce'
  BY <1>1 DEF RatedOnce
<1>2. ASSUME NEW i \in Id, NEW end, NEW rateable \in BOOLEAN,
             rated' = Rated(i, end, rateable)
      PROVE  RatedOnce'
  BY <1>2, RatedCount DEF RatedOnce, TypeOK
<1>3. ASSUME NEW r \in Readings, NEW rateable \in BOOLEAN, FullFrame(r, rateable)
      PROVE  RatedOnce'
  BY <1>1, <1>2, <1>3, TickEffect DEF Counts, Closes, Opens, Supersedes, dbVars
<1>4. CASE Shutdown
  BY <1>1, <1>2, <1>4 DEF Shutdown, dbVars, TypeOK
<1>5. ASSUME NEW S \in SUBSET Id, Recalc(S)
      PROVE  RatedOnce'
  BY <1>5 DEF Recalc, RatedOnce
<1> QED
  BY <1>1, <1>3, <1>4, <1>5
     DEF Next, SteadyNext, Consumes, Process, Repairs, Skips, Game, Crash, Boot,
         SkippedFrame, vars, gameVars, storeVars, memVars, dbVars

(***************************************************************************)
(* Whatever is torn, skipped, re-opened, superseded, rolled back or swept, *)
(* a match counts at most once in the ratings.                             *)
(***************************************************************************)
THEOREM RatedAtMostOnce == Spec => []RatedOnce
<1>1. Init => RatedOnce
  BY DEF Init, RatedOnce
<1> QED
  BY <1>1, RatedStep, StoreTyped, PTL DEF Spec

-----------------------------------------------------------------------------
(***************************************************************************)
(* A verdict of finalized is true, when every frame that is built reaches  *)
(* the store.  The argument: only matches that were played have rows, torn *)
(* readings come fewer than Confirm in a row, and once the store has the   *)
(* match being played open, each frame it counts as inactive was torn.     *)
(***************************************************************************)
Known == seen \cup Garbage

RowsKnown == /\ live \in seen \cup {NoMatch}
             /\ open \in Known \cup {NoMatch}
             /\ \A i \in Id : rows[i].end = "finalized" => i \in Known
TornBound == tornRun <= MaxTorn
CountsTorn == open # NoMatch /\ open = live => inactive_ticks <= tornRun

EndInv == TypeOK /\ RowsKnown /\ TornBound /\ CountsTorn /\ FinalizedIsOver

LEMMA EndInit == Init => EndInv
<1> SUFFICES ASSUME Init PROVE EndInv
  OBVIOUS
<1>1. TypeOK
  BY TypeInit
<1>2. RowsKnown /\ FinalizedIsOver
  BY DEF Init, GameInit, NoRow, RowsKnown, FinalizedIsOver
<1>3. TornBound /\ CountsTorn
  BY ReaderAssumption DEF Init, GameInit, TornBound, CountsTorn
<1> QED
  BY <1>1, <1>2, <1>3 DEF EndInv

\* The match being played, one played earlier, or garbage.
LEMMA ActiveKnown ==
  ASSUME TypeOK, RowsKnown, NEW i \in Id, Active(i) \in Readings
  PROVE  i \in Known
<1>1. CASE Active(i) = Truth
  BY <1>1, ReaderAssumption DEF RowsKnown, Truth, Active, Inactive, Known
<1>2. CASE Active(i) \in Torn
  BY <1>2 DEF Torn, TornId, Active, Inactive, Known
<1>3. Active(i) \notin Ambiguous
  BY DEF Active, Ambiguous, NoId, Unreadable
<1> QED
  BY <1>1, <1>2, <1>3 DEF Readings

\* An inactive frame while a match is being played is torn.
LEMMA InactiveTorn ==
  ASSUME TypeOK, live # NoMatch, Inactive \in Readings
  PROVE  Inactive \in Torn /\ tornRun < MaxTorn
<1>1. Inactive # Truth /\ Inactive \notin Ambiguous
  BY DEF Truth, Active, Inactive, Ambiguous, NoId, Unreadable
<1> QED
  BY <1>1 DEF Readings

\* What a table has of verdicts after each statement.
LEMMA SweptVerdicts ==
  ASSUME NEW t \in [Id -> Row], NEW i, NEW j \in Id,
         Swept(t, i)[j].end = "finalized"
  PROVE  t[j].end = "finalized"
BY SweptTable DEF Final

LEMMA OpenedVerdicts ==
  ASSUME NEW t \in [Id -> Row], NEW i \in Id, NEW j \in Id,
         Opened(t, i)[j].end = "finalized"
  PROVE  t[j].end = "finalized"
<1>1. CASE j = i
  BY <1>1, OpenedTable
<1>2. CASE j # i
  <2>1. Opened(t, i)[j] = Swept(t, i)[j]
    BY <1>2, OpenedTable
  <2> QED
    BY <2>1, SweptVerdicts
<1> QED
  BY <1>1, <1>2

LEMMA ClosedVerdicts ==
  ASSUME NEW t \in [Id -> Row], NEW i \in Id, NEW j \in Id,
         NEW end \in {"unverified", "finalized"},
         Closed(t, i, end)[j].end = "finalized"
  PROVE  t[j].end = "finalized" \/ (j = i /\ end = "finalized")
<1>1. CASE j = i
  BY <1>1, ClosedTable DEF Final
<1>2. CASE j # i
  BY <1>2, ClosedTable
<1> QED
  BY <1>1, <1>2

\* The verdicts after one frame: those before, and at most one more.
LEMMA TickVerdicts ==
  ASSUME TypeOK, NEW r, NEW rateable \in BOOLEAN,
         Counts(r) \/ Closes(r, rateable) \/ Opens(r) \/ Supersedes(r, rateable),
         NEW j \in Id, rows'[j].end = "finalized"
  PROVE  \/ rows[j].end = "finalized"
         \/ Closes(r, rateable) /\ j = open
<1>1. rows \in [Id -> Row]
  BY DEF TypeOK
<1>2. CASE Counts(r)
  BY <1>2 DEF Counts, dbVars
<1>3. CASE Closes(r, rateable)
  BY <1>1, <1>3, ClosedVerdicts DEF Closes
<1>4. CASE Opens(r)
  BY <1>1, <1>4, OpenedVerdicts DEF Opens
<1>5. CASE Supersedes(r, rateable)
  <2> DEFINE t == Closed(rows, open, "unverified")
  <2>1. t \in [Id -> Row] /\ rows' = Opened(t, r.id) /\ r.id \in Id /\ open \in Id
    BY <1>1, <1>5, ClosedTable DEF Supersedes
  <2>2. t[j].end = "finalized"
    <3> HIDE DEF t
    <3> QED
      BY <2>1, OpenedVerdicts
  <2> QED
    BY <1>1, <2>1, <2>2, ClosedVerdicts
<1> QED
  BY <1>2, <1>3, <1>4, <1>5

LEMMA FrameFinality ==
  ASSUME EndInv, NEW r \in Readings, NEW rateable \in BOOLEAN, FullFrame(r, rateable)
  PROVE  (RowsKnown /\ TornBound /\ CountsTorn /\ FinalizedIsOver)'
<1> USE DEF EndInv
<1>1. /\ UNCHANGED <<live, seen>>
      /\ Counts(r) \/ Closes(r, rateable) \/ Opens(r) \/ Supersedes(r, rateable)
  BY TickEffect DEF gameVars
<1>2. /\ tornRun \in Nat /\ MaxTorn \in Nat /\ Confirm \in Nat /\ MaxTorn < Confirm
      /\ inactive_ticks \in Nat /\ tornRun <= MaxTorn /\ NoMatch \notin Id
  BY ReaderAssumption, TornAssumption DEF TypeOK, TornBound
<1>3. Reads(r)
  BY DEF FullFrame
<1>4. TornBound'
  <2>1. r \in Torn => r \notin {Truth} \cup Ambiguous
    BY DEF Torn, Truth, Active, Inactive, Ambiguous, NoId, Unreadable
  <2> QED
    BY <1>2, <1>3, <2>1 DEF Reads, Readings, TornBound
<1>5. Closes(r, rateable) => open # live
  <2> SUFFICES ASSUME Closes(r, rateable), open = live
               PROVE  FALSE
    OBVIOUS
  <2>1. open # NoMatch /\ r = Inactive /\ inactive_ticks + 1 >= Confirm
    BY <1>2 DEF Closes
  <2>2. tornRun < MaxTorn /\ inactive_ticks <= tornRun
    BY <2>1, InactiveTorn DEF CountsTorn
  <2> QED
    BY <1>2, <2>1, <2>2
<1>6. FinalizedIsOver'
  BY <1>1, <1>5, TickVerdicts DEF FinalizedIsOver
<1>7. open' \in Known \cup {NoMatch}
  BY <1>1, ActiveKnown DEF Counts, Closes, Opens, Supersedes, RowsKnown
<1>8. RowsKnown'
  <2>1. \A i \in Id : rows'[i].end = "finalized" => i \in Known
    <3> SUFFICES ASSUME NEW i \in Id, rows'[i].end = "finalized"
                 PROVE  i \in Known
      OBVIOUS
    <3>1. CASE rows[i].end = "finalized"
      BY <3>1 DEF RowsKnown
    <3>2. CASE Closes(r, rateable) /\ i = open
      BY <1>2, <3>2 DEF RowsKnown
    <3> QED
      BY <1>1, <3>1, <3>2, TickVerdicts
  <2> QED
    BY <1>1, <1>7, <2>1 DEF RowsKnown, Known
<1>9. CountsTorn'
  <2> SUFFICES ASSUME open' # NoMatch, open' = live
               PROVE  inactive_ticks' <= tornRun'
    BY <1>1 DEF CountsTorn
  <2>1. tornRun' \in Nat
    BY <1>2, <1>3 DEF Reads
  <2>2. CASE inactive_ticks' = 0
    BY <2>1, <2>2
  <2>3. CASE Counts(r) /\ r = Inactive /\ inactive_ticks' = inactive_ticks + 1
    <3>1. open = live /\ live # NoMatch
      BY <2>3 DEF Counts
    <3>2. tornRun' = tornRun + 1
      BY <1>3, <2>3, <3>1, InactiveTorn DEF Reads
    <3> QED
      BY <1>2, <2>3, <3>1, <3>2 DEF CountsTorn
  <2> QED
    BY <1>1, <2>2, <2>3 DEF Counts, Closes, Opens, Supersedes
<1> QED
  BY <1>4, <1>6, <1>8, <1>9

LEMMA EndStep == EndInv /\ [SteadyNext]_vars => EndInv'
<1> SUFFICES ASSUME EndInv, [SteadyNext]_vars
             PROVE  EndInv'
  OBVIOUS
<1> USE DEF EndInv
<1>1. TypeOK'
  BY TypeStep DEF Next
<1>2. rows \in [Id -> Row] /\ NoMatch \notin Id /\ tornRun \in Nat
  BY ReaderAssumption DEF TypeOK
<1>3. CASE Game
  <2>1. UNCHANGED <<tornRun, rows, open, inactive_ticks>>
    BY <1>3 DEF Game, memVars, dbVars
  <2>2. CASE Ends
    BY <1>1, <1>2, <2>1, <2>2 DEF Ends, RowsKnown, Known, TornBound, CountsTorn, FinalizedIsOver
  <2>3. ASSUME NEW m \in Match, Starts(m)
        PROVE  (RowsKnown /\ TornBound /\ CountsTorn /\ FinalizedIsOver)'
    <3>1. /\ live' = m /\ seen' = seen \cup {m} /\ m \notin Known
      BY <2>3, ReaderAssumption DEF Starts, Known
    <3>2. open # m
      BY <1>2, <3>1 DEF RowsKnown
    <3> QED
      BY <2>1, <3>1, <3>2 DEF RowsKnown, Known, TornBound, CountsTorn, FinalizedIsOver
  <2> QED
    BY <1>1, <1>3, <2>2, <2>3 DEF Game
<1>4. ASSUME NEW r \in Readings, NEW rateable \in BOOLEAN, FullFrame(r, rateable)
      PROVE  EndInv'
  BY <1>1, <1>4, FrameFinality
<1>5. CASE Shutdown
  <2>1. UNCHANGED <<live, seen, tornRun, open, inactive_ticks>>
    BY <1>5 DEF Shutdown, Stops, gameVars, memVars
  <2>2. ASSUME NEW j \in Id, rows'[j].end = "finalized"
        PROVE  rows[j].end = "finalized"
    <3>1. \/ rows' = rows
          \/ open # NoMatch /\ rows' = Closed(rows, open, "unverified")
      BY <1>5 DEF Shutdown, ShutdownVerdict, dbVars
    <3>2. open \in Id \cup {NoMatch}
      BY DEF TypeOK
    <3> QED
      BY <1>2, <2>2, <3>1, <3>2, ClosedVerdicts
  <2> QED
    BY <1>1, <2>1, <2>2 DEF RowsKnown, Known, TornBound, CountsTorn, FinalizedIsOver
<1>6. CASE Boot
  <2>1. /\ UNCHANGED <<live, seen, tornRun>> /\ open' = NoMatch
        /\ rows' = Swept(rows, NoMatch)
    BY <1>6 DEF Boot, gameVars
  <2>2. \A j \in Id : rows'[j].end = "finalized" => rows[j].end = "finalized"
    BY <1>2, <2>1, SweptVerdicts
  <2> QED
    BY <1>1, <2>1, <2>2 DEF RowsKnown, Known, TornBound, CountsTorn, FinalizedIsOver
<1>7. ASSUME UNCHANGED <<live, seen, tornRun, rows, open, inactive_ticks>>
      PROVE  EndInv'
  BY <1>1, <1>7 DEF RowsKnown, Known, TornBound, CountsTorn, FinalizedIsOver
<1> QED
  BY <1>3, <1>4, <1>5, <1>6, <1>7
     DEF SteadyNext, Consumes, Process, Repairs, Crash, Stops, Recalc,
         vars, gameVars, storeVars, memVars, dbVars

(***************************************************************************)
(* If fewer than Confirm readings in a row are torn and every frame that   *)
(* is built reaches the store, a row says finalized only of a match that   *)
(* is over.                                                                *)
(***************************************************************************)
THEOREM StoreFinalizesWhenOver == SteadySpec => []FinalizedIsOver
<1>1. EndInv => FinalizedIsOver
  BY DEF EndInv
<1> QED
  BY <1>1, EndInit, EndStep, PTL DEF SteadySpec

-----------------------------------------------------------------------------
(***************************************************************************)
(* Verdicts and ratings of the matches the server plays, when every frame  *)
(* that is built reaches the store and a torn id is never that of an       *)
(* earlier match (StaleIds is FALSE).                                      *)
(***************************************************************************)
(***************************************************************************)
(* The argument.  A row with the verdict is closed, so it is not the open  *)
(* one; its match is over, so no frame names it again; hence no statement  *)
(* of a later transaction is about it.                                     *)
(***************************************************************************)
VerdictClosed ==
  \A i \in Match : rows[i].end = "finalized" => rows[i].status = "final"

VerdictInv ==
  /\ ~StaleIds
  /\ EndInv /\ OpenRowIsCurrent
  /\ VerdictClosed /\ RatedIsVerified

\* What one step may do to row i: nothing, once it carries the verdict.
RowStands(i) == rows[i].end = "finalized" => rows'[i] = rows[i]

\* The only match of the server a frame can name is the one being played.
LEMMA NamedIsLive ==
  ASSUME ~StaleIds, TypeOK, NEW i \in Match, Active(i) \in Readings
  PROVE  i = live
<1>1. CASE Active(i) = Truth
  BY <1>1 DEF Truth, Active, Inactive
<1>2. CASE Active(i) \in Ambiguous
  BY <1>2 DEF Ambiguous, Active, NoId, Unreadable
<1>3. CASE Active(i) \in Torn
  BY <1>3, ReaderAssumption DEF Torn, TornId, Active, Inactive
<1> QED
  BY <1>1, <1>2, <1>3 DEF Readings

\* A transaction of a frame leaves a row with the verdict alone.
LEMMA FrameStands ==
  ASSUME VerdictInv, up, NEW r \in Readings, NEW rateable \in BOOLEAN,
         Counts(r) \/ Closes(r, rateable) \/ Opens(r) \/ Supersedes(r, rateable),
         NEW i \in Match
  PROVE  RowStands(i)
<1> SUFFICES ASSUME rows[i].end = "finalized" PROVE rows'[i] = rows[i]
  BY DEF RowStands
<1>1. /\ rows \in [Id -> Row] /\ i \in Id /\ rows[i].status = "final"
      /\ i # live /\ i # open
  BY DEF VerdictInv, EndInv, TypeOK, VerdictClosed, FinalizedIsOver, OpenRowIsCurrent
<1>2. r = Active(r.id) => r.id # i
  BY <1>1, NamedIsLive DEF VerdictInv, EndInv
<1>3. CASE Counts(r)
  BY <1>3 DEF Counts, dbVars
<1>4. CASE Closes(r, rateable)
  BY <1>1, <1>4, ClosedTable DEF Closes
<1>5. CASE Opens(r)
  <2>1. rows'[i] = Swept(rows, r.id)[i]
    BY <1>1, <1>2, <1>5, OpenedTable DEF Opens
  <2> QED
    BY <1>1, <2>1, SweptTable
<1>6. CASE Supersedes(r, rateable)
  <2> DEFINE t == Closed(rows, open, "unverified")
  <2>1. /\ t \in [Id -> Row] /\ t[i] = rows[i]
        /\ rows' = Opened(t, r.id) /\ r.id \in Id
    BY <1>1, <1>6, ClosedTable DEF Supersedes
  <2> HIDE DEF t
  <2>2. r.id # i
    BY <1>2, <1>6 DEF Supersedes
  <2>3. rows'[i] = Swept(t, r.id)[i]
    BY <1>1, <2>1, <2>2, OpenedTable
  <2> QED
    BY <1>1, <2>1, <2>3, SweptTable
<1> QED
  BY <1>3, <1>4, <1>5, <1>6

LEMMA ShutdownStands ==
  ASSUME VerdictInv, Shutdown, NEW i \in Match
  PROVE  RowStands(i)
<1> SUFFICES ASSUME rows[i].end = "finalized" PROVE rows'[i] = rows[i]
  BY DEF RowStands
<1>1. up
  BY Zenon DEF Shutdown, Stops
<1>2. /\ rows \in [Id -> Row] /\ i \in Id /\ rows[i].status = "final" /\ i # open
      /\ open \in Id \cup {NoMatch}
  BY <1>1 DEF VerdictInv, EndInv, TypeOK, VerdictClosed, OpenRowIsCurrent
<1>3. \/ rows' = rows
      \/ open # NoMatch /\ rows' = Closed(rows, open, "unverified")
  BY DEF Shutdown, ShutdownVerdict, dbVars
<1> QED
  BY <1>2, <1>3, ClosedTable

LEMMA BootStands ==
  ASSUME VerdictInv, Boot, NEW i \in Match
  PROVE  RowStands(i)
<1>1. rows \in [Id -> Row] /\ i \in Id
  BY DEF VerdictInv, EndInv, TypeOK
<1>2. rows' = Swept(rows, NoMatch)
  BY DEF Boot
<1>3. rows[i].end = "finalized" => rows[i].status = "final"
  BY DEF VerdictInv, VerdictClosed
<1> QED
  BY <1>1, <1>2, <1>3, SweptTable DEF RowStands

LEMMA StepStands ==
  ASSUME VerdictInv, [SteadyNext]_vars, NEW i \in Match
  PROVE  RowStands(i)
<1>1. ASSUME UNCHANGED rows PROVE RowStands(i)
  BY <1>1 DEF RowStands
<1>2. ASSUME NEW r \in Readings, NEW rateable \in BOOLEAN, FullFrame(r, rateable)
      PROVE  RowStands(i)
  <2>1. up /\ (Counts(r) \/ Closes(r, rateable) \/ Opens(r) \/ Supersedes(r, rateable))
    <3>1. up
      BY <1>2, Zenon DEF FullFrame
    <3>2. TypeOK
      BY DEF VerdictInv, EndInv
    <3> QED
      BY <1>2, <3>1, <3>2, TickEffect
  <2> QED
    BY <2>1, FrameStands
<1> QED
  BY <1>1, <1>2, ShutdownStands, BootStands
     DEF SteadyNext, Consumes, Process, Repairs, Game, Crash, Recalc,
         vars, gameVars, storeVars, memVars, dbVars

-----------------------------------------------------------------------------
\* A verdict given in a step closes its row in that step.
LEMMA StepCloses ==
  ASSUME VerdictInv, [SteadyNext]_vars, NEW i \in Match, rows'[i].end = "finalized"
  PROVE  \/ rows[i].end = "finalized" /\ rows'[i] = rows[i]
         \/ rows'[i] = Final("finalized")
<1>1. TypeOK /\ rows \in [Id -> Row] /\ i \in Id
  BY DEF VerdictInv, EndInv, TypeOK
<1>2. CASE rows[i].end = "finalized"
  BY <1>2, StepStands DEF RowStands
<1>3. CASE rows[i].end # "finalized"
  <2>1. ASSUME UNCHANGED rows PROVE FALSE
    BY <1>3, <2>1
  <2>2. ASSUME NEW r \in Readings, NEW rateable \in BOOLEAN, FullFrame(r, rateable)
        PROVE  rows'[i] = Final("finalized")
    <3>1. Counts(r) \/ Closes(r, rateable) \/ Opens(r) \/ Supersedes(r, rateable)
      BY <1>1, <2>2, TickEffect
    <3>2. Closes(r, rateable) /\ i = open
      BY <1>1, <1>3, <3>1, TickVerdicts
    <3> QED
      BY <1>1, <3>2, ClosedTable DEF Closes
  <2>3. CASE Shutdown
    <3>1. \/ rows' = rows
          \/ open \in Id /\ rows' = Closed(rows, open, "unverified")
      BY <1>1, <2>3 DEF Shutdown, ShutdownVerdict, dbVars, TypeOK
    <3> QED
      BY <1>1, <1>3, <3>1, ClosedVerdicts
  <2>4. CASE Boot
    BY <1>1, <1>3, <2>4, SweptVerdicts DEF Boot
  <2> QED
    BY <2>1, <2>2, <2>3, <2>4
       DEF SteadyNext, Consumes, Process, Repairs, Game, Crash, Recalc,
           vars, gameVars, storeVars, memVars, dbVars
<1> QED
  BY <1>2, <1>3

\* A match is rated in the transaction that closes it as finalized, or again
\* by stats-elo-recalc from a row that says so.
LEMMA StepRates ==
  ASSUME VerdictInv, [SteadyNext]_vars, NEW i \in Match, rated'[i] > 0
  PROVE  rows'[i] = Final("finalized")
<1>1. /\ TypeOK /\ rows \in [Id -> Row] /\ rated \in [Id -> Nat] /\ i \in Id
      /\ open \in Id \cup {NoMatch}
  BY DEF VerdictInv, EndInv, TypeOK
<1>2. ASSUME rated[i] > 0
      PROVE  rows'[i] = Final("finalized")
  <2>1. rows[i] = Final("finalized")
    BY <1>2 DEF VerdictInv, RatedIsVerified
  <2>2. rows[i].end = "finalized"
    BY <2>1 DEF Final
  <2> QED
    BY <2>1, <2>2, StepStands DEF RowStands
<1>3. ASSUME rated' = rated
      PROVE  rows'[i] = Final("finalized")
  BY <1>2, <1>3
<1>4. ASSUME NEW j, NEW rateable, rated' = Rated(j, "unverified", rateable)
      PROVE  rows'[i] = Final("finalized")
  BY <1>3, <1>4 DEF Rated
<1>5. ASSUME NEW r \in Readings, NEW rateable \in BOOLEAN, FullFrame(r, rateable)
      PROVE  rows'[i] = Final("finalized")
  <2>1. Counts(r) \/ Closes(r, rateable) \/ Opens(r) \/ Supersedes(r, rateable)
    BY <1>1, <1>5, TickEffect
  <2>2. CASE Closes(r, rateable)
    <3>1. CASE i = open
      BY <1>1, <2>2, <3>1, ClosedTable DEF Closes
    <3>2. CASE i # open
      BY <1>1, <1>2, <2>2, <3>2, RatedCount DEF Closes
    <3> QED
      BY <3>1, <3>2
  <2> QED
    BY <1>3, <1>4, <2>1, <2>2 DEF Counts, Opens, Supersedes, dbVars
<1>6. CASE Shutdown
  BY <1>3, <1>4, <1>6 DEF Shutdown, ShutdownVerdict, dbVars
<1>7. ASSUME NEW S \in SUBSET Id, Recalc(S)
      PROVE  rows'[i] = Final("finalized")
  <2>1. rows[i].end = "finalized" /\ rows' = rows
    BY <1>1, <1>7 DEF Recalc
  <2>2. rows[i].status = "final" /\ rows[i] \in Row
    BY <1>1, <2>1 DEF VerdictInv, VerdictClosed
  <2> QED
    BY <2>1, <2>2 DEF Row, Final
<1> QED
  BY <1>3, <1>5, <1>6, <1>7
     DEF SteadyNext, Consumes, Process, Repairs, Game, Crash, Boot,
         vars, gameVars, storeVars, memVars, dbVars

-----------------------------------------------------------------------------
LEMMA VerdictInit == ~StaleIds /\ Init => VerdictInv
<1> SUFFICES ASSUME ~StaleIds, Init PROVE VerdictInv
  OBVIOUS
<1>1. EndInv
  BY EndInit
<1>2. OpenRowIsCurrent
  BY ReaderAssumption DEF Init, OpenRowIsCurrent, NoRow
<1>3. VerdictClosed /\ RatedIsVerified
  BY DEF Init, NoRow, VerdictClosed, RatedIsVerified
<1> QED
  BY <1>1, <1>2, <1>3 DEF VerdictInv

LEMMA VerdictStep == VerdictInv /\ [SteadyNext]_vars => VerdictInv'
<1> SUFFICES ASSUME VerdictInv, [SteadyNext]_vars PROVE VerdictInv'
  OBVIOUS
<1>1. EndInv'
  BY EndStep DEF VerdictInv
<1>2. OpenRowIsCurrent'
  BY OpenRowStep DEF VerdictInv, EndInv, Next
<1>3. VerdictClosed'
  <2> SUFFICES ASSUME NEW i \in Match, rows'[i].end = "finalized"
               PROVE  rows'[i].status = "final"
    BY DEF VerdictClosed
  <2>1. CASE rows[i].end = "finalized" /\ rows'[i] = rows[i]
    BY <2>1 DEF VerdictInv, VerdictClosed
  <2>2. CASE rows'[i] = Final("finalized")
    BY <2>2 DEF Final
  <2> QED
    BY <2>1, <2>2, StepCloses
<1>4. RatedIsVerified'
  BY StepRates DEF RatedIsVerified
<1> QED
  BY <1>1, <1>2, <1>3, <1>4 DEF VerdictInv

(***************************************************************************)
(* A rating never counts a match whose row does not say that its end was   *)
(* seen, over rollbacks, lost edges, sweeps and recalculations.            *)
(***************************************************************************)
THEOREM RatingsAreVerified ==
  ASSUME ~StaleIds
  PROVE  SteadySpec => []RatedIsVerified
<1>0. Init => VerdictInv
  BY VerdictInit
<1>1. VerdictInv => RatedIsVerified
  BY DEF VerdictInv
<1> QED
  BY <1>0, VerdictStep, <1>1, PTL DEF SteadySpec

(***************************************************************************)
(* Once a match of the server carries the verdict finalized, its row is    *)
(* never written again: no torn id re-opens it, no sweep downgrades it.    *)
(***************************************************************************)
THEOREM VerdictsStand ==
  ASSUME ~StaleIds
  PROVE  SteadySpec => VerdictStands
<1>0. Init => VerdictInv
  BY VerdictInit
<1>1. VerdictInv /\ [SteadyNext]_vars
        => [\A i \in Match : rows[i].end = "finalized" => rows'[i] = rows[i]]_vars
  BY StepStands DEF RowStands
<1> QED
  BY <1>0, VerdictStep, <1>1, PTL DEF SteadySpec, VerdictStands
=============================================================================
