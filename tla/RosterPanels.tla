---------------------------- MODULE RosterPanels ----------------------------
(***************************************************************************)
(* What the page says of the players of a frame, in the places that say it *)
(* (ui/Scoreboard.tsx, PlayerPanel.tsx, PlayerSearch.tsx, InfoPanel.tsx,   *)
(* entityInfo.ts and the pins and order lines of canvas/draw.ts): who      *)
(* leads, who is down, who placed an order.  Each place works it out for   *)
(* itself from the same frame.                                             *)
(*                                                                         *)
(* A player is [name (its place in the alphabet), team, squad (0: none),   *)
(* ft, lead (fireTeamPosition is 0), score, life, health, pawn], pawn      *)
(* being "map", "aboard", "cam", "stale" or None.  The frames follow the   *)
(* game: squads have one leader, the head of fire team 0.                  *)
(***************************************************************************)
EXTENDS ReplayBasics

CONSTANTS
  Rosters,    \* sequences of players a match may start with
  Orders,     \* markers [team, squad, ft], ft -1, 1, 2 or None
  MaxResults, \* MAX_RESULTS of the search
  Queries,    \* None, or the players a typed name is part of
  Squads,     \* squads a player may join
  MaxScore,   \* bound: score of a player
  MaxFrames   \* bound: changes of the roster

VARIABLES
  roster,     \* sequence of players, in the order of the array
  frames,     \* changes so far
  query, hi, opened, \* the search field: q, hi, open
  picked      \* player the search selected and follows, or None

rosterVars == <<roster, frames, query, hi, opened, picked>>

Everyone == 1..Len(roster)
P(i) == roster[i]

(* [lifeState, health, pawn] as read together: the flags of the state may  *)
(* be behind the health.                                                   *)
Conditions ==
  {<<"healthy", 100, "map">>, <<"bleeding", 40, "map">>, <<"bleeding", 0, "map">>, <<"incapacitated", 0, "map">>,
   <<None, 100, "map">>, <<None, 0, "map">>, <<"healthy", 100, "aboard">>,
   <<"healthy", 100, "cam">>, <<None, 0, "stale">>, <<None, 0, None>>}
Player ==
  [name : Nat, team : {1, 2, None}, squad : Squads \cup {0}, ft : 0..2, lead : BOOLEAN, score : 0..MaxScore,
   life : {c[1] : c \in Conditions}, health : {c[2] : c \in Conditions}, pawn : {c[3] : c \in Conditions}]

(* Of the players of a fire team one is the head.                          *)
OneHead(r) ==
  \A i, j \in 1..Len(r) :
    /\ r[i].team = r[j].team /\ r[i].squad = r[j].squad /\ r[i].ft = r[j].ft
    /\ r[i].squad # 0 /\ r[i].lead /\ r[j].lead
    => i = j

ASSUME RostersAssumption ==
  /\ MaxResults \in Nat /\ MaxScore \in Nat /\ MaxFrames \in Nat
  /\ Squads \in SUBSET Nat
  /\ None \notin {1, 2, "map", "incapacitated"} /\ None \notin Nat
  /\ \A r \in Rosters :
       /\ r \in Seq(Player) /\ OneHead(r)
       /\ \A i \in 1..Len(r) : <<r[i].life, r[i].health, r[i].pawn>> \in Conditions

(* Array.sort, which is stable, of the numbers of a set: before holds the  *)
(* pairs the comparator tells apart.                                       *)
Sorted(S, before) ==
  LET upTo(i) == {j \in S : <<j, i>> \in before \/ (j <= i /\ <<i, j>> \notin before)}
  IN  [k \in 1..Cardinality(S) |-> CHOOSE i \in S : Cardinality(upTo(i)) = k]

-----------------------------------------------------------------------------
(* The scoreboard *)

(* The player a squad's leaderStateAddr points at. *)
LeaderOf(team, squad) ==
  LET at == {i \in Everyone : /\ P(i).team = team /\ P(i).squad = squad
                              /\ squad # 0 /\ P(i).ft = 0 /\ P(i).lead}
  IN  IF at = {} THEN None ELSE CHOOSE i \in at : TRUE

(* The scoreboard asks whether a man is the leader of any squad of his     *)
(* team.                                                                   *)
SlAddrs(team) == {LeaderOf(team, s) : s \in Squads} \ {None}

IsSL(i) == i \in SlAddrs(P(i).team)
IsFTL(i) == ~IsSL(i) /\ P(i).lead /\ P(i).ft > 0

OnTeam(team) == {i \in Everyone : P(i).team = team}
Group(team, squad) == {i \in OnTeam(team) : P(i).squad = squad}

SquadIds(team) ==
  LET ids == {P(i).squad : i \in OnTeam(team)}
  IN  Sorted(ids, {p \in ids \X ids : p[1] # 0 /\ (p[2] = 0 \/ p[1] < p[2])})

Bit(b) == IF b THEN 1 ELSE 0
FireTeamRank(i) == IF P(i).ft = 0 THEN 99 ELSE P(i).ft

(* The order within a squad: the leader, then by fire team, its head       *)
(* first, then by score.                                                   *)
ByRank(S, sl) ==
  LET rank(i) == <<-Bit(i = sl), FireTeamRank(i), -Bit(P(i).lead), -P(i).score>>
  IN  {p \in S \X S : \E n \in 1..4 : /\ rank(p[1])[n] < rank(p[2])[n]
                                     /\ \A m \in 1..n - 1 : rank(p[1])[m] = rank(p[2])[m]}
ByScore(S) == {p \in S \X S : P(p[1]).score > P(p[2]).score}

SquadRows(team, squad) ==
  LET men == Group(team, squad)
  IN  Sorted(men, IF squad = 0 THEN ByScore(men) ELSE ByRank(men, LeaderOf(team, squad)))

Score(rows) == SumSeqOf([n \in 1..Len(rows) |-> P(rows[n]).score])
Aggregate(team) == Score(AtPlaces([i \in Everyone |-> i], OnTeam(team)))

-----------------------------------------------------------------------------
(* The player panel, the pins, the orders *)

(* The panel looks the man's own squad up, if he is in one. *)
PanelIsSL(i) == P(i).squad > 0 /\ LeaderOf(P(i).team, P(i).squad) = i

OnMap(i) == P(i).pawn = "map"

(* isDowned of the pins, and the badges of the panel. *)
Downed(i) == IF P(i).life # None THEN P(i).life = "incapacitated" ELSE P(i).health <= 0
PanelBadges(i) ==
  {b \in {"DOWNED", "BLEEDING"} :
     \/ b = "DOWNED" /\ P(i).life = "incapacitated"
     \/ b = "BLEEDING" /\ P(i).life = "bleeding"
     \/ b = "DOWNED" /\ P(i).life = None /\ P(i).health <= 0
        /\ P(i).pawn \notin {None, "stale"}}

FirstOf(S) == IF S = {} THEN None ELSE CHOOSE i \in S : \A j \in S : i <= j

(* findPlacer: the head of the fire team the marker names, -1 and null     *)
(* being the leader.                                                       *)
FindPlacer(m) ==
  LET want == IF m.ft \in {-1, None} THEN 0 ELSE m.ft
  IN  IF m.team = None \/ m.squad = None THEN None
      ELSE FirstOf({i \in Everyone : /\ P(i).team = m.team /\ P(i).squad = m.squad
                                     /\ P(i).ft = want /\ P(i).lead})

(* drawActionMarkerLines: the player a line is drawn from. *)
LineFrom(m) ==
  LET want   == IF m.ft = -1 \/ m.ft = None THEN 0 ELSE m.ft
      placer == FirstOf({i \in Everyone :
                  /\ m.team # None /\ m.squad # None
                  /\ P(i).team = m.team /\ P(i).squad = m.squad
                  /\ P(i).ft = want /\ P(i).lead})
  IN  IF placer # None /\ P(placer).pawn \notin {None, "stale"} /\ P(placer).health > 0
      THEN placer ELSE None

-----------------------------------------------------------------------------
(* The search *)

Found == {i \in Everyone : P(i).team # None /\ query # None /\ i \in query}
Matches ==
  SubSeq(Sorted(Found, {p \in Found \X Found : P(p[1]).name < P(p[2]).name}),
         1, MinOf(MaxResults, Cardinality(Found)))

Type(q) ==
  /\ q # query
  /\ query' = q /\ hi' = 0 /\ opened' = TRUE
  /\ UNCHANGED <<roster, frames, picked>>

ArrowDown ==
  /\ opened' = TRUE
  /\ hi' = MinOf(hi + 1, Len(Matches) - 1)
  /\ UNCHANGED <<roster, frames, query, picked>>

ArrowUp ==
  /\ hi' = MaxOf(hi - 1, 0)
  /\ UNCHANGED <<roster, frames, query, opened, picked>>

EnterTyped ==
  /\ query # None /\ query # {}
  /\ picked' = FirstOf(query) /\ opened' = FALSE
  /\ UNCHANGED <<roster, frames, query, hi>>

(* pick, by the key of the list's n-th.                                    *)
Pick(n) ==
  /\ n \in 1..Len(Matches)
  /\ picked' = Matches[n] /\ opened' = FALSE
  /\ UNCHANGED <<roster, frames, query, hi>>

Enter == Pick(hi + 1)

ClickMatch(n) == opened /\ Pick(n)

Hover(n) ==
  /\ opened /\ n \in 1..Len(Matches)
  /\ hi' = n - 1
  /\ UNCHANGED <<roster, frames, query, opened, picked>>

Focus ==
  /\ ~opened /\ opened' = TRUE
  /\ UNCHANGED <<roster, frames, query, hi, picked>>

Clear ==
  /\ query # None
  /\ query' = None /\ hi' = 0
  /\ UNCHANGED <<roster, frames, opened, picked>>

EscapeSearch ==
  /\ IF query # None THEN query' = None /\ hi' = 0 /\ UNCHANGED opened
     ELSE opened' = FALSE /\ UNCHANGED <<query, hi>>
  /\ UNCHANGED <<roster, frames, picked>>

OutsideClick ==
  /\ opened /\ opened' = FALSE
  /\ UNCHANGED <<roster, frames, query, hi, picked>>

-----------------------------------------------------------------------------
(* The next frame *)

NextFrame(r) ==
  /\ frames < MaxFrames
  /\ frames' = frames + 1
  /\ roster' = r
  /\ UNCHANGED <<query, hi, opened, picked>>

Free(team, squad, ft) ==
  ~\E i \in Everyone : /\ P(i).team = team /\ P(i).squad = squad
                       /\ P(i).ft = ft /\ P(i).lead

Posted(p, team, squad, ft, lead) ==
  [name |-> p.name, team |-> team, squad |-> squad, ft |-> ft, lead |-> lead, score |-> p.score,
   life |-> p.life, health |-> p.health, pawn |-> p.pawn]
Faring(p, score, life, health, pawn) ==
  [name |-> p.name, team |-> p.team, squad |-> p.squad, ft |-> p.ft, lead |-> p.lead, score |-> score,
   life |-> life, health |-> health, pawn |-> pawn]
FrameWith(i, p) == NextFrame([j \in Everyone |-> IF j = i THEN p ELSE P(j)])

(* A player joins a squad or a fire team of it; the first there is its head. *)
Joins(i, squad, ft) ==
  /\ P(i).team # None /\ <<squad, ft>> # <<P(i).squad, P(i).ft>>
  /\ squad = 0 => ft = 0
  /\ FrameWith(i, Posted(P(i), P(i).team, squad, ft, squad # 0 /\ Free(P(i).team, squad, ft)))

(* Another man is made the head of his fire team. *)
Promoted(i) ==
  /\ P(i).squad # 0 /\ ~P(i).lead
  /\ NextFrame([j \in Everyone |->
       IF P(j).team = P(i).team /\ P(j).squad = P(i).squad /\ P(j).ft = P(i).ft
       THEN Posted(P(j), P(j).team, P(j).squad, P(j).ft, j = i) ELSE P(j)])

Scores(i) ==
  /\ P(i).score < MaxScore
  /\ FrameWith(i, Faring(P(i), P(i).score + 1, P(i).life, P(i).health, P(i).pawn))

(* He is hit, dies, is put in a vehicle, spectates, leaves the server. *)
Fares(i, c) ==
  /\ P(i).team # None
  /\ c # <<P(i).life, P(i).health, P(i).pawn>>
  /\ FrameWith(i, Faring(P(i), P(i).score, c[1], c[2], c[3]))

Leaves(i) ==
  /\ P(i).team # None
  /\ FrameWith(i, Posted(P(i), None, 0, 0, FALSE))

RosterInit ==
  /\ roster \in Rosters
  /\ frames = 0
  /\ query = None /\ hi = 0 /\ opened = FALSE /\ picked = None

RosterOff ==
  /\ roster = << >> /\ frames = 0
  /\ query = None /\ hi = 0 /\ opened = FALSE /\ picked = None

RosterNext ==
  /\ roster # << >>
  /\ \/ \E q \in Queries : Type(q)
     \/ ArrowDown \/ ArrowUp \/ Enter \/ EscapeSearch \/ OutsideClick \/ Focus \/ Clear
     \/ \E n \in 1..MaxResults : Hover(n) \/ ClickMatch(n)
     \/ \E i \in Everyone : \/ \E s \in Squads \cup {0}, ft \in {0, 1, 2} : Joins(i, s, ft)
                            \/ Promoted(i) \/ Scores(i) \/ Leaves(i)
                            \/ \E c \in Conditions : Fares(i, c)

-----------------------------------------------------------------------------
(* Properties *)

(* The frame is a match's, and the field's cursor is on the list or just   *)
(* off its ends.                                                           *)
RosterTypeOK ==
  /\ roster \in Seq(Player)
  /\ \A i \in Everyone : <<P(i).life, P(i).health, P(i).pawn>> \in Conditions
  /\ hi \in -1..MaxResults /\ picked \in Everyone \cup {None}
  /\ frames \in 0..MaxFrames

(* Every player of a team has one row, under one squad, and the totals of  *)
(* the squads add up to the total of the team (TeamColumn of               *)
(* Scoreboard.tsx).                                                        *)
EveryoneHasRow ==
  roster # << >> => \A t \in {1, 2} :
    LET ids == SquadIds(t)
        lists == [n \in 1..Len(ids) |-> SquadRows(t, ids[n])]
        rows == FlattenSeq(lists)
    IN  /\ Len(rows) = Cardinality(OnTeam(t)) /\ ToSet(rows) = OnTeam(t)
        /\ Aggregate(t) = SumSeqOf([n \in 1..Len(ids) |-> Score(lists[n])])
        /\ 0 \in ToSet(ids) => ids[Len(ids)] = 0

(* A squad's leader heads its rows, every fire team stands together with   *)
(* its head on top, and the panel of a player gives the SL badge exactly   *)
(* when the scoreboard does, with squads of one number on both sides.      *)
LeadersOnTop ==
  roster # << >> => \A t \in {1, 2}, s \in Squads \ {0} :
    LET rows == SquadRows(t, s)
    IN  /\ \A n \in 1..Len(rows) :
             /\ IsSL(rows[n]) => n = 1
             /\ PanelIsSL(rows[n]) = IsSL(rows[n])
        /\ \A a, b \in 1..Len(rows) :
             a < b /\ P(rows[a]).ft = P(rows[b]).ft =>
               /\ \A c \in a..b : IsSL(rows[a]) \/ P(rows[c]).ft = P(rows[a]).ft
               /\ ~IsFTL(rows[b])

(* A soldier whose pin is drawn as down has the DOWNED badge in his panel, *)
(* and nobody else on the map has it: the life state of the server where   *)
(* there is one, the health where there is none (isDowned of draw.ts and   *)
(* PlayerPanel.tsx).                                                       *)
DownedAgrees ==
  roster # << >> => \A i \in Everyone : OnMap(i) => (Downed(i) <=> "DOWNED" \in PanelBadges(i))

(* An order line starts at the player the tooltip names as its placer, and *)
(* is missing only while he is dead or not read ("same logic the tooltip   *)
(* uses", drawActionMarkerLines).                                          *)
LinesNamePlacer ==
  roster # << >> => \A m \in Orders :
    LET p == FindPlacer(m)
    IN  LineFrom(m) = IF p # None /\ P(p).pawn \notin {None, "stale"} /\ P(p).health > 0
                      THEN p ELSE None

(* What Enter picks is a player of the current frame who fits what is      *)
(* typed, although the list changes under the cursor with every frame.     *)
PicksFromList ==
  [][picked' # picked => P(picked').team # None /\ picked' \in query]_rosterVars

(* Scoreboard, player panel, pins, order lines and search tell the same of *)
(* the players of a frame, and a pick is of the frame on display.          *)
RosterAgrees ==
  /\ [](RosterTypeOK /\ EveryoneHasRow /\ LeadersOnTop /\ DownedAgrees /\ LinesNamePlacer)
  /\ PicksFromList
=============================================================================
