------------------------------- MODULE Pages -------------------------------
(***************************************************************************)
(* The statistics dashboard (ui/PlayerStats.tsx), as a page of its own     *)
(* (/stats) or as a dialog of the viewer: boards by tab, a server to scope *)
(* them, a search field, profiles, match details and the heat map of a     *)
(* layer.  Requests are answered in any order, or fail.  Every handler is  *)
(* a function from the component's state to its next one, rendered by      *)
(* Commit, which runs the effects of the heat map tab.                     *)
(*                                                                         *)
(* The rows of a board and the numbers of a profile are not kept, nor the  *)
(* period, which only names what is asked for.                             *)
(***************************************************************************)
EXTENDS ReplayBasics, Bags

CONSTANTS
  Offers,      \* server -> the layers it has a heat map of
  MaxAsks      \* bounds what the visitor does

Servers == DOMAIN Offers

(* A server offers layers by their names; None is nothing else, either.    *)
ASSUME OffersAssumption ==
  /\ \A s \in Servers : Offers[s] \in Seq(Range(Offers[s])) /\ None \notin Range(Offers[s])
  /\ None \notin [server : Servers, opts : {None} \cup Range(Offers), err : BOOLEAN]

Tabs == {"elo", "matchlist", "heatmap"}
Players == {1, 2}

VARIABLES
  page,        \* None, or the state of the component and its requests
  clicked,     \* the player last clicked (ghost)
  asks         \* what the visitor has done so far

pageVars == <<page, clicked, asks>>

-----------------------------------------------------------------------------
(* What is on screen *)

Landing(p) == p.profile = None /\ ~p.pf /\ p.detail = None /\ p.results = None

HeatTabShown(p) == Landing(p) /\ ~p.ld /\ p.tab = "heatmap"

(* A row that names a player: of a board, the search, a match, a profile. *)
PlayerRows(p) ==
  \/ Landing(p) /\ ~p.ld /\ p.tab = "elo"
  \/ ~p.pf /\ p.profile # None
  \/ ~p.pf /\ p.detail # None
  \/ ~p.pf /\ p.results # None

-----------------------------------------------------------------------------
(* Requests *)

(* A request under way is <<kind, what of>>; there may be several alike.   *)
Ask(p, kind, of) == [p EXCEPT !.flights = @ (+) SetToBag({<<kind, of>>})]
Waiting(p, kind) == \E f \in BagToSet(p.flights) : f[1] = kind
Discard(p, kind) ==
  [p EXCEPT !.flights = [f \in {g \in BagToSet(@) : g[1] # kind} |-> @[f]]]

LoadTab(p, tab, layer) ==
  IF tab = "heatmap" /\ layer = None THEN [p EXCEPT !.ld = FALSE]
  ELSE Ask([p EXCEPT !.ld = TRUE], "board", tab)

AskProfile(p, player) == Ask([p EXCEPT !.pf = TRUE, !.profile = None], "profile", player)

PickLayer(p, layer) == LoadTab([p EXCEPT !.layer = layer], "heatmap", layer)

(* Typing, and another server, start the wait before a search anew; an     *)
(* empty field puts the results away at once.                              *)
SearchEffect(p) ==
  IF p.q = None THEN [p EXCEPT !.results = None, !.timer = FALSE]
  ELSE [p EXCEPT !.timer = TRUE]

(* The heat map tab asks for the layers when it comes up and when the      *)
(* server changes, forgetting what it asked before; the request holds the  *)
(* layer of that render.                                                   *)
Commit(p) ==
  IF ~HeatTabShown(p) THEN Discard([p EXCEPT !.heat = None], "layers")
  ELSE IF p.heat # None /\ p.heat.server = p.server THEN p
  ELSE LET q == Discard(p, "layers")
           opts == IF p.heat = None THEN None ELSE p.heat.opts
           err  == p.heat # None /\ p.heat.err
       IN  Ask([q EXCEPT !.heat = [server |-> p.server, opts |-> opts, err |-> err]],
               "layers", [server |-> p.server, layer |-> p.layer])

-----------------------------------------------------------------------------
(* Answers *)

(* The layers came: the first is picked when the one chosen at the time of *)
(* the request is not among them.                                          *)
Layers(p, of) ==
  LET opts == Offers[of.server] IN
  LET q == [p EXCEPT !.heat.opts = opts] IN
  IF opts # << >> /\ of.layer \notin Range(opts) THEN PickLayer(q, opts[1]) ELSE q

FailedKeepsSpinning(p, f) ==
  CASE f[1] = "layers" -> [p EXCEPT !.heat.err = TRUE]
    [] OTHER -> p

(* A request failed: its spinner goes all the same. *)
Failed(p, f) ==
  CASE f[1] = "board"   -> [p EXCEPT !.ld = FALSE]
    [] f[1] = "profile" -> [p EXCEPT !.pf = FALSE]
    [] f[1] = "layers"  -> [p EXCEPT !.heat.err = TRUE]
    [] OTHER -> p

Answered(p, f) ==
  CASE f[1] = "board"   -> [p EXCEPT !.ld = FALSE]
    [] f[1] = "profile" -> [p EXCEPT !.pf = FALSE, !.profile = f[2]]
    [] f[1] = "layers"  -> Layers(p, f[2])
    [] f[1] = "match"   -> [p EXCEPT !.detail = f[2]]
    [] f[1] = "search"  -> [p EXCEPT !.results = f[2]]

-----------------------------------------------------------------------------
(* What the visitor does *)

Does(next) == asks < MaxAsks /\ asks' = asks + 1 /\ page' = Commit(next)
Visitor(next) == page.open /\ Does(next) /\ UNCHANGED clicked

PickTab(tab) ==
  /\ Landing(page)
  /\ Visitor(LoadTab([page EXCEPT !.tab = tab], tab, page.layer))

PickPeriod == Landing(page) /\ page.tab # "elo" /\ Visitor(LoadTab(page, page.tab, page.layer))

ChooseLayer(layer) ==
  /\ HeatTabShown(page) /\ page.heat.opts # None /\ ~page.heat.err
  /\ layer \in Range(page.heat.opts)
  /\ Visitor(PickLayer(page, layer))

PickServer(server) ==
  /\ page.inline /\ server # page.server
  /\ LET p == LoadTab([page EXCEPT !.server = server], page.tab, page.layer)
         q == IF page.profile # None THEN AskProfile(p, page.profile) ELSE p
     IN  Visitor(SearchEffect(q))

OpenProfile(player) ==
  page.open /\ PlayerRows(page) /\ clicked' = player /\ Does(AskProfile(page, player))

OpenMatch ==
  Landing(page) /\ ~page.ld /\ page.tab = "matchlist" /\ Visitor(Ask(page, "match", "m"))

Back ==
  \/ page.profile # None /\ Visitor([page EXCEPT !.profile = None])
  \/ page.profile = None /\ page.detail # None /\ Visitor([page EXCEPT !.detail = None])

TypeSearch(q) == q # page.q /\ Visitor(SearchEffect([page EXCEPT !.q = q]))

(* 250 ms without another letter. *)
TimerFires ==
  /\ page.timer
  /\ page' = Ask([page EXCEPT !.timer = FALSE], "search", page.q)
  /\ UNCHANGED <<clicked, asks>>

(* The dialog opens again: what was open in it is put away. *)
OpenDialog ==
  /\ ~page.open
  /\ LET p == [page EXCEPT !.open = TRUE, !.profile = None, !.detail = None, !.q = None, !.results = None]
     IN  Does(LoadTab(SearchEffect(p), page.tab, None)) /\ UNCHANGED clicked

CloseDialog == ~page.inline /\ Visitor([page EXCEPT !.open = FALSE])

Answer ==
  \E f \in BagToSet(page.flights) :
    LET p == [page EXCEPT !.flights = @ (-) SetToBag({f})]
    IN  /\ page' = Commit(Answered(p, f)) \/ page' = Commit(Failed(p, f))
        /\ UNCHANGED <<clicked, asks>>

Mounted(inline, tab, server) ==
  [inline |-> inline, open |-> inline, tab |-> tab, server |-> server, layer |-> None, q |-> None,
   timer |-> FALSE, ld |-> FALSE, pf |-> FALSE, profile |-> None, detail |-> None, results |-> None,
   heat |-> None, flights |-> EmptyBag]

(* The page loads a board when it comes up, the dialog when it is opened;  *)
(* a link may name the tab and the server.                                 *)
PageInit ==
  /\ \E inline \in BOOLEAN, tab \in Tabs, server \in Servers :
       /\ ~inline => tab = "elo" /\ server = "global"
       /\ LET p == Mounted(inline, tab, server)
          IN  page = Commit(IF inline THEN LoadTab(p, tab, None) ELSE p)
  /\ clicked = None /\ asks = 0

PageOff == page = None /\ clicked = None /\ asks = 0

PageNext ==
  /\ page # None
  /\ \/ \E tab \in Tabs : PickTab(tab)
     \/ \E server \in Servers : PickServer(server)
     \/ \E layer \in UNION {Range(Offers[s]) : s \in Servers} : ChooseLayer(layer)
     \/ \E player \in Players : OpenProfile(player)
     \/ \E q \in {None, "name"} : TypeSearch(q)
     \/ PickPeriod \/ OpenMatch \/ Back \/ OpenDialog \/ CloseDialog \/ TimerFires \/ Answer

-----------------------------------------------------------------------------
(* Properties *)

(* No spinner outlives its request: while a board or a profile is shown as *)
(* loading, a request for it is out (the .finally of loadTab and           *)
(* openProfile, PlayerStats.tsx).                                          *)
SpinnersEnd ==
  page # None =>
    /\ page.ld => Waiting(page, "board")
    /\ page.pf => Waiting(page, "profile")

(* Once the answers are in, the heat map tab offers the layers of the      *)
(* server chosen, and the layer chosen is one of them: a server without    *)
(* the layer looked at on another leaves no stale choice behind.           *)
HeatmapSettles ==
  page # None /\ HeatTabShown(page) /\ ~page.heat.err
    /\ ~Waiting(page, "layers") /\ ~Waiting(page, "board") =>
      /\ page.heat.opts = Offers[page.server]
      /\ page.heat.opts # << >> => page.layer \in Range(page.heat.opts)

(* The profile that comes up is of the player clicked last, in whatever    *)
(* order the answers come in.                                              *)
ProfileAsClicked == page # None => page.profile \in {None, clicked}

(* The dashboard settles: whatever is clicked while answers are on their   *)
(* way, and whichever of them fail, no spinner stays, the heat map is of   *)
(* the server chosen and a profile of the player clicked.                  *)
PagesSettle == SpinnersEnd /\ HeatmapSettles /\ ProfileAsClicked
=============================================================================
