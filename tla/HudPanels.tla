----------------------------- MODULE HudPanels -----------------------------
(***************************************************************************)
(* The strips and cards over the map that tell the course of a match: the  *)
(* card between rounds (ui/MatchOverlay.tsx with lastInProgressTeams of    *)
(* the store), the ticket graph (ui/TicketTimeline.tsx) and the cause in a *)
(* row of the kill feed (ui/KillFeed.tsx, killfeed/diff.ts).               *)
(*                                                                         *)
(* The recording is a sequence of frames [ms, phase, tickets], tickets     *)
(* being a pair of numbers, None where a team was not read.  A damage type *)
(* is the set of the patterns its class name contains.                     *)
(***************************************************************************)
EXTENDS ReplayBasics

CONSTANTS
  Recordings, \* sequences of frames
  DamageTypes \* None, or sets of patterns

(* The loaded frames ascend by their timestamps, and one that has none is  *)
(* given the time of the one before (api/replay.ts, ticketTimeline.ts).    *)
(* The kind of a card and the name of a killer are something, not None.    *)
ASSUME RecordingsAssumption ==
  /\ None \notin {"prep", "post", "k"}
  /\ \A r \in Recordings :
       /\ r \in Seq(Range(r)) /\ r # << >>
       /\ \A i, j \in 1..Len(r) : r[i].ms \in Nat /\ (i <= j => r[i].ms <= r[j].ms)

VARIABLES
  match,      \* the frames
  at,         \* the playhead
  result      \* lastInProgressTeams: the tickets, or None

hudVars == <<match, at, result>>

-----------------------------------------------------------------------------
(* The card between rounds *)

PostPhases == {"WaitingPostMatch", "PostMatch", "EndState", "LeavingMap", "Aborted"}
PhaseAt == match[at].phase
CardKind == IF PhaseAt \in {None, "InProgress"} THEN None
            ELSE IF PhaseAt \in PostPhases THEN "post" ELSE "prep"

CardTicketsLive == match[at].tickets

CardTickets == IF CardKind = "post" /\ result # None THEN result ELSE match[at].tickets

Winner(t) == IF None \in {t[1], t[2]} \/ t[1] = t[2] THEN None
             ELSE IF t[1] > t[2] THEN 1 ELSE 2

-----------------------------------------------------------------------------
(* The ticket graph *)

Readable(team) == {i \in 1..Len(match) : match[i].tickets[team] # None}

(* The lines of a team: the runs of frames with its tickets read, a run of *)
(* one frame drawing nothing.                                              *)
Segments(team) ==
  {x[1]..x[2] : x \in
     {y \in (1..Len(match)) \X (1..Len(match)) :
        /\ y[1] < y[2] /\ y[1]..y[2] \subseteq Readable(team)
        /\ y[1] - 1 \notin Readable(team) /\ y[2] + 1 \notin Readable(team)}}

(* The binary search for the frame of a click, as lo and hi move.          *)
Narrowed(r, ms) ==
  LET mid == (r[1] + r[2]) \div 2
  IN  IF match[mid].ms < ms THEN <<mid + 1, r[2]>> ELSE <<r[1], mid>>

FrameAtMs(ms) ==
  LET step[r \in (1..Len(match)) \X (1..Len(match))] ==
        IF r[1] >= r[2] THEN r[1] ELSE step[Narrowed(r, ms)]
  IN  step[<<1, Len(match)>>]

-----------------------------------------------------------------------------
(* The cause of a death *)

(* Of the patterns tried in turn the first the class name contains. *)
FirstIn(dt, patterns) ==
  LET hits == SelectSeq(patterns, LAMBDA p : p \in dt)
  IN  IF dt = {} \/ hits = << >> THEN None ELSE hits[1]

DeathCause(dt) ==
  FirstIn(dt, <<"fall", "drown", "helicrash", "collision", "burn", "wounded">>)

DeathPhrase(dt) ==
  FirstIn(dt, <<"fall", "drown", "helicrash", "collision", "burn", "wounded">>)

Category(dt) ==
  IF dt \cap {"fall", "drown", "collision", "burn", "wounded"} # {} THEN None
  ELSE FirstIn(dt, <<"smallarms", "fragmentation", "hat", "kinetic", "rocket",
                     "explosive", "thermite", "ammobox">>)

(* What a row says of how it happened: a phrase for a death nobody is      *)
(* credited with, else the weapon, else the kind of damage.                *)
RowSays(e) ==
  IF e.killer = None /\ ~e.suicide /\ DeathCause(e.dt) # None
  THEN <<"phrase", DeathPhrase(e.dt)>>
  ELSE IF e.weapon # None THEN <<"weapon", e.weapon>>
  ELSE <<"category", Category(e.dt)>>

-----------------------------------------------------------------------------
(* Playing and clicking *)

HudInit ==
  /\ match \in Recordings
  /\ at = 1
  /\ result = IF match[1].phase = "InProgress" THEN match[1].tickets ELSE None

HudOff == match = << >> /\ at = 0 /\ result = None

(* The store takes frame k in: the result is kept at every frame in        *)
(* progress.                                                               *)
Shows(k) ==
  /\ at' = k
  /\ result' = IF match[k].phase = "InProgress" THEN match[k].tickets ELSE result
  /\ UNCHANGED match

PlayOn == at < Len(match) /\ Shows(at + 1)

GraphClick(ms) == Len(match) > 1 /\ Shows(FrameAtMs(ms))

HudNext == match # << >> /\ (PlayOn \/ \E ms \in 0..match[Len(match)].ms : GraphClick(ms))

-----------------------------------------------------------------------------
(* Properties *)

(* The playhead is on a frame, and a result is one of this recording. *)
HudTypeOK ==
  match # << >> =>
    /\ at \in 1..Len(match)
    /\ result # None => \E k \in 1..Len(match) :
         match[k].phase = "InProgress" /\ match[k].tickets = result

(* The lines of the graph join two frames next to each other exactly when  *)
(* both were read: no line is drawn across a gap in the readings.          *)
LinesJoinReadings ==
  \A team \in {1, 2} :
    /\ \A s \in Segments(team) : \A a, b \in s : a..b \subseteq Readable(team)
    /\ \A i \in 1..Len(match) - 1 :
         {i, i + 1} \subseteq Readable(team) => \E s \in Segments(team) : {i, i + 1} \subseteq s

(* The numbers and the winner on the card of a finished match stand while  *)
(* the card is up, although the game goes on counting (MatchOverlay.tsx).  *)
ResultStands ==
  [][match # << >> /\ CardKind = "post" /\ CardKind' = "post" /\ result # None =>
       /\ CardTickets' = CardTickets /\ Winner(CardTickets') = Winner(CardTickets)]_hudVars

(* A click on the graph goes to the first frame that is not before it: on  *)
(* a frame's own point it goes to that moment.                             *)
ClickHitsMoment ==
  \A ms \in 0..(IF match = << >> THEN 0 ELSE match[Len(match)].ms) :
    Len(match) > 1 =>
      /\ match[FrameAtMs(ms)].ms >= ms
      /\ \A k \in 1..FrameAtMs(ms) - 1 : match[k].ms < ms

(* A death nobody is credited with is told once and the same way: the      *)
(* phrase is of the cause, and no kind of damage is named beside it.       *)
CauseToldOnce ==
  match # << >> => \A dt \in DamageTypes :
    /\ DeathPhrase(dt) = DeathCause(dt)
    /\ \A w \in {None, "gun"} :
         LET row == RowSays([killer |-> None, suicide |-> FALSE, dt |-> dt, weapon |-> w])
         IN  DeathCause(dt) # None => row = <<"phrase", DeathCause(dt)>>
    /\ RowSays([killer |-> "k", suicide |-> FALSE, dt |-> dt, weapon |-> None])[1] = "category"

(* Graph, result card and kill feed agree with the recording: no line over *)
(* a gap, a click lands on its moment, a cause is told once, and a result  *)
(* stands while it is shown.                                               *)
HudAgrees ==
  /\ [](HudTypeOK /\ LinesJoinReadings /\ ClickHitsMoment /\ CauseToldOnce)
  /\ ResultStands
=============================================================================
