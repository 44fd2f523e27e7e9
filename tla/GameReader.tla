----------------------------- MODULE GameReader -----------------------------
(***************************************************************************)
(* The game server and what the reader can make of its memory.  A frame    *)
(* claims a match state and a match id; either may be torn, read while the *)
(* server was writing it.  The recorder and the stats store both decide    *)
(* from a sequence of such readings whether a match has ended.             *)
(***************************************************************************)
EXTENDS Naturals

CONSTANTS
  Match,      \* ids of the matches the game server plays
  Garbage,    \* ids only a torn read of the matchId string can yield
  NoMatch,    \* "no match": nothing is being played, or no id
  StaleIds,   \* whether a torn id may be that of an earlier match
  Confirm,    \* MATCH_TRANSITION_CONFIRM_TICKS (3)
  MaxTorn     \* most torn readings in a row

Id == Match \cup Garbage

ASSUME ReaderAssumption ==
  /\ NoMatch \notin Id
  /\ Match \cap Garbage = {}
  /\ StaleIds \in BOOLEAN
  /\ Confirm \in Nat \ {0}
  /\ MaxTorn \in Nat

(***************************************************************************)
(* What the reader depends on: Confirm readings in a row are not all torn. *)
(***************************************************************************)
ASSUME TornAssumption == MaxTorn < Confirm

VARIABLES
  live,     \* the match being played, or NoMatch
  seen,     \* the matches played so far
  tornRun   \* torn readings since the last that was not

gameVars == <<live, seen>>

GameInit == live = NoMatch /\ seen = {} /\ tornRun = 0

Starts(m) ==
  /\ m \in Match \ seen
  /\ live' = m /\ seen' = seen \cup {m}

Ends ==
  /\ live # NoMatch
  /\ live' = NoMatch
  /\ UNCHANGED seen

-----------------------------------------------------------------------------
\* InProgress with an id; a state that means "not playing"; and what proves
\* nothing: InProgress without an id, and a state that cannot be read.
Active(i)  == [kind |-> "active", id |-> i]
Inactive   == [kind |-> "inactive", id |-> NoMatch]
NoId       == [kind |-> "noid", id |-> NoMatch]
Unreadable == [kind |-> "unreadable", id |-> NoMatch]
Ambiguous  == {NoId, Unreadable}

Truth == IF live = NoMatch THEN Inactive ELSE Active(live)

TornId == Garbage \cup (IF StaleIds THEN seen ELSE {})

\* What a torn read can claim: never a match that has not been played yet.
Torn == ({Active(i) : i \in TornId} \cup {Inactive}) \ {Truth}

\* A reading that claims nothing is always possible.
Readings == {Truth} \cup Ambiguous \cup (IF tornRun < MaxTorn THEN Torn ELSE {})

Reads(r) == tornRun' = IF r \in Torn THEN tornRun + 1 ELSE 0
=============================================================================
