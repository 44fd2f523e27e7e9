----------------------------- MODULE StatsStore -----------------------------
(***************************************************************************)
(* The player-statistics store (src/sqreader/stats.py) as far as it says   *)
(* which matches are over: record_tick is given the frames the recorder is *)
(* given and keeps a row per match in SQLite, one transaction per frame;   *)
(* a match that ends is rated (elo.py) and announced to the push queue.    *)
(*                                                                         *)
(* A row is abstracted to its status and end_state, a rating to how many   *)
(* times the match has been added to the running totals.                   *)
(***************************************************************************)
EXTENDS GameReader

CONSTANTS
  MaxFaults,    \* bound: transactions that roll back
  MaxRestarts   \* bound: stops of the agent

ASSUME StoreAssumption == MaxFaults \in Nat /\ MaxRestarts \in Nat

VARIABLES
  rows,            \* the table `matches`
  rated,           \* rated[i]: times match i counts in player_elo
  open,            \* _open_match_id
  inactive_ticks,  \* _inactive_ticks
  lastKind,        \* what the loop's latest frame says of the match state
  fired,           \* ids on_finalize has just been called with
  up,              \* the agent is running
  faults,          \* transactions rolled back so far
  restarts         \* stops so far

memVars   == <<open, inactive_ticks, lastKind>>
dbVars    == <<rows, rated>>
storeVars == <<memVars, dbVars, fired, up, faults, restarts>>
vars      == <<gameVars, tornRun, storeVars>>

NoRow == [status |-> "none", end |-> "none"]
Row   == [status : {"none", "open", "final"},
          end    : {"none", "unverified", "finalized"}]
Final(end) == [status |-> "final", end |-> end]

-----------------------------------------------------------------------------
(***************************************************************************)
(* The SQL.  An open row other than i is closed as unverified; so is every *)
(* open row when the store is opened.                                      *)
(***************************************************************************)
SweptAll(t, i) ==
  [j \in Id |-> IF j # i /\ t[j].status # "none" THEN Final("unverified")
                ELSE t[j]]

Swept(t, i) ==
  [j \in Id |-> IF j # i /\ t[j].status = "open" THEN Final("unverified")
                ELSE t[j]]

\* _open_match: INSERT, or re-arm the row; the conflict clause keeps end_state.
Opened(t, i) == [Swept(t, i) EXCEPT ![i].status = "open"]

\* _finalize_match's UPDATE.
Closed(t, i, end) == [t EXCEPT ![i] = Final(end)]

\* The operators named for a slip (here: the idempotency guard dropped) are
\* mutated forms of the one after them, for mutation testing of the model.
RatedAgain(i, end, rateable) ==
  IF rateable /\ end # "unverified"
  THEN [rated EXCEPT ![i] = @ + 1] ELSE rated

RatedUnseen(i, end, rateable) ==
  IF rateable /\ rated[i] = 0 THEN [rated EXCEPT ![i] = 1] ELSE rated

\* apply_match_elo: rateable says the match was large and long enough.
Rated(i, end, rateable) ==
  IF rateable /\ end # "unverified" /\ rated[i] = 0
  THEN [rated EXCEPT ![i] = 1] ELSE rated

-----------------------------------------------------------------------------
(***************************************************************************)
(* A transaction commits, and then the attributes follow it and the hook   *)
(* is called for what it closed; or it rolls back; or the agent dies after *)
(* the commit, before the hook.                                            *)
(***************************************************************************)
Commits(t, now, ids) ==
  /\ rows' = t /\ open' = now /\ UNCHANGED faults
  /\ \/ fired' = ids /\ UNCHANGED <<up, restarts>>
     \/ /\ ids # {} /\ restarts < MaxRestarts
        /\ fired' = {} /\ up' = FALSE /\ restarts' = restarts + 1

RollsBack ==
  /\ faults < MaxFaults /\ faults' = faults + 1
  /\ fired' = {} /\ UNCHANGED <<dbVars, open, up, restarts>>

\* Nothing is written.
Idle == fired' = {} /\ UNCHANGED <<dbVars, open, up, faults, restarts>>

-----------------------------------------------------------------------------
(***************************************************************************)
(* The branches of record_tick.                                            *)
(***************************************************************************)
OnAmbiguous == inactive_ticks' = 0 /\ Idle

OnInactiveAtOnce(rateable) ==
  /\ inactive_ticks' = 0
  /\ IF open = NoMatch THEN Commits(rows, NoMatch, {}) /\ UNCHANGED rated
     ELSE /\ Commits(Closed(rows, open, "finalized"), NoMatch, {open})
          /\ rated' = Rated(open, "finalized", rateable)

\* The Confirm-th frame in a row that is known not to be playing.
OnInactive(rateable) ==
  \/ /\ inactive_ticks + 1 < Confirm
     /\ inactive_ticks' = inactive_ticks + 1
     /\ Idle
  \/ /\ inactive_ticks + 1 >= Confirm
     /\ inactive_ticks' = 0
     /\ IF open = NoMatch
        THEN Commits(rows, NoMatch, {}) /\ UNCHANGED rated
        ELSE /\ Commits(Closed(rows, open, "finalized"), NoMatch, {open})
             /\ rated' = Rated(open, "finalized", rateable)
  \/ /\ inactive_ticks + 1 >= Confirm /\ open # NoMatch
     /\ inactive_ticks' = inactive_ticks + 1
     /\ RollsBack

Superseded == "unverified"

\* A frame of match i; another match that was open is superseded at once.
OnActive(i, rateable) ==
  /\ inactive_ticks' = 0
  /\ \/ /\ open = i
        /\ Commits(rows, i, {}) /\ UNCHANGED rated
     \/ /\ open = NoMatch
        /\ Commits(Opened(rows, i), i, {}) /\ UNCHANGED rated
     \/ /\ open \notin {i, NoMatch}
        /\ Commits(Opened(Closed(rows, open, Superseded), i), i, {open})
        /\ rated' = Rated(open, Superseded, rateable)
     \/ RollsBack

RecordTick(r, rateable) ==
  \/ r \in Ambiguous /\ OnAmbiguous
  \/ r.kind = "inactive" /\ OnInactive(rateable)
  \/ r.kind = "active" /\ OnActive(r.id, rateable)

\* One frame is built and consumed (cmd_serve's _consume_full).
FullFrame(r, rateable) ==
  /\ up /\ Reads(r)
  /\ RecordTick(r, rateable)
  /\ lastKind' = r.kind
  /\ UNCHANGED gameVars

\* One is built and never consumed: the build raised, or a newer one
\* replaced it in the build worker's single slot.
SkippedFrame(r) ==
  /\ up /\ Reads(r)
  /\ fired' = {}
  /\ UNCHANGED <<gameVars, memVars, dbVars, up, faults, restarts>>

-----------------------------------------------------------------------------
(***************************************************************************)
(* Process lifetime.                                                       *)
(***************************************************************************)
ShutdownVerdictClosed == "closed"
ShutdownVerdict == "unverified"

Stops == /\ up /\ restarts < MaxRestarts
         /\ up' = FALSE /\ restarts' = restarts + 1
         /\ UNCHANGED <<gameVars, tornRun, memVars>>

\* Serve's finally clause: the row stays open if the latest frame says that
\* the match is in progress, and is finalized and announced otherwise.
Shutdown ==
  /\ Stops
  /\ \/ /\ lastKind \in {"active", "noid"} \/ open = NoMatch
        /\ fired' = {} /\ UNCHANGED <<dbVars, faults>>
     \/ /\ lastKind \notin {"active", "noid"} /\ open # NoMatch
        /\ \/ /\ rows' = Closed(rows, open, ShutdownVerdict)
              /\ \E rateable \in BOOLEAN :
                   rated' = Rated(open, ShutdownVerdict, rateable)
              /\ fired' = {open} /\ UNCHANGED faults
           \/ /\ faults < MaxFaults /\ faults' = faults + 1
              /\ fired' = {} /\ UNCHANGED dbVars

Crash == Stops /\ fired' = {} /\ UNCHANGED <<dbVars, faults>>

BootUnswept ==
  /\ ~up /\ up' = TRUE
  /\ open' = NoMatch /\ inactive_ticks' = 0 /\ lastKind' = "none"
  /\ fired' = {}
  /\ UNCHANGED <<gameVars, tornRun, dbVars, faults, restarts>>

\* StatsStore.__init__.
Boot ==
  /\ ~up /\ up' = TRUE
  /\ rows' = Swept(rows, NoMatch)
  /\ open' = NoMatch /\ inactive_ticks' = 0 /\ lastKind' = "none"
  /\ fired' = {}
  /\ UNCHANGED <<gameVars, tornRun, rated, faults, restarts>>

-----------------------------------------------------------------------------
(***************************************************************************)
(* Maintenance commands, which work on the database of a running agent.    *)
(***************************************************************************)
\* stats-elo-recalc: every rating again, of the matches seen to end.  A match
\* that was never closed has no duration yet, so it is not rateable.
Recalc(rateable) ==
  /\ rated' = [i \in Id |->
       IF i \in rateable /\ rows[i].end = "finalized" THEN 1 ELSE 0]
  /\ fired' = {}
  /\ UNCHANGED <<gameVars, tornRun, memVars, rows, up, faults, restarts>>

-----------------------------------------------------------------------------
Init ==
  /\ GameInit
  /\ rows = [i \in Id |-> NoRow] /\ rated = [i \in Id |-> 0]
  /\ open = NoMatch /\ inactive_ticks = 0 /\ lastKind = "none"
  /\ fired = {} /\ up = TRUE /\ faults = 0 /\ restarts = 0

Game ==
  /\ Ends \/ \E m \in Match : Starts(m)
  /\ fired' = {}
  /\ UNCHANGED <<tornRun, memVars, dbVars, up, faults, restarts>>

Consumes == \E r \in Readings, rateable \in BOOLEAN : FullFrame(r, rateable)
Skips    == \E r \in Readings : SkippedFrame(r)
Process  == Shutdown \/ Crash \/ Boot
Repairs  == \E S \in SUBSET Id : Recalc(S)

\* Every frame that is built is consumed.
SteadyNext == Game \/ Consumes \/ Process \/ Repairs
SteadySpec == Init /\ [][SteadyNext]_vars

Next == SteadyNext \/ Skips
Spec == Init /\ [][Next]_vars

-----------------------------------------------------------------------------
(***************************************************************************)
(* Types: the table, the attributes of the store and the loop's frame.     *)
(***************************************************************************)
TypeOK ==
  /\ live \in Match \cup {NoMatch} /\ seen \in SUBSET Match /\ tornRun \in Nat
  /\ rows \in [Id -> Row] /\ rated \in [Id -> Nat]
  /\ open \in Id \cup {NoMatch} /\ inactive_ticks \in Nat
  /\ lastKind \in {"none", "active", "inactive", "noid", "unreadable"}
  /\ fired \in SUBSET Id /\ up \in BOOLEAN
  /\ faults \in Nat /\ restarts \in Nat

(***************************************************************************)
(* The running store's open match is the one open row of the table, also   *)
(* after a rollback, a sweep and a lost edge: no match is orphaned with    *)
(* its row open, and no row is written to that readers take for final.     *)
(***************************************************************************)
OpenRowIsCurrent ==
  up => \A i \in Id : rows[i].status = "open" <=> i = open

(***************************************************************************)
(* A match is added to the running ELO totals at most once, whatever is    *)
(* re-opened, superseded or rolled back: ratings cannot be taken back.     *)
(***************************************************************************)
RatedOnce == \A i \in Id : rated[i] <= 1

(***************************************************************************)
(* Only a match whose end was seen counts in a rating, and still carries   *)
(* that verdict.                                                           *)
(***************************************************************************)
RatedIsVerified ==
  \A i \in Match : rated[i] > 0 => rows[i] = Final("finalized")

(***************************************************************************)
(* end_state='finalized' is true: the match is over.                       *)
(***************************************************************************)
FinalizedIsOver ==
  \A i \in Id : rows[i].end = "finalized" => i # live

(***************************************************************************)
(* A verdict that a match of the server was seen to end is never withdrawn.*)
(***************************************************************************)
VerdictStands ==
  [][\A i \in Match : rows[i].end = "finalized" => rows'[i] = rows[i]]_vars

(***************************************************************************)
(* The hook that publishes a match is called only when it is over.         *)
(***************************************************************************)
PublishedIsOver == live \notin fired

=============================================================================
