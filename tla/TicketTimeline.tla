--------------------------- MODULE TicketTimeline ---------------------------
(***************************************************************************)
(* The ticket-loss analysis of a replay (state/ticketTimeline.ts,          *)
(* state/ticketCosts.ts): each drop of a team's tickets between two frames *)
(* is split over the vehicles that died on that frame, the deaths counted  *)
(* since the last drop, and bleed.                                         *)
(*                                                                         *)
(* A frame has phase, vehicles (records with id, team, health, kind and    *)
(* class, the class name in its short form) and teams, a function to       *)
(* [tickets, deaths], either None when not read.                           *)
(***************************************************************************)
EXTENDS ReplayBasics

CONSTANTS
  TicketTeams,
  VehicleTickets,      \* what a vehicle of a kind costs ...
  ClassTickets,        \* ... unless its class is listed here
  DefaultVehicleCost

DeathCost == 1

VehicleTicketCost(v) ==
  CASE v.class \in DOMAIN ClassTickets -> ClassTickets[v.class]
    [] v.class \notin DOMAIN ClassTickets /\ v.kind \in DOMAIN VehicleTickets
         -> VehicleTickets[v.kind]
    [] OTHER -> DefaultVehicleCost

NewTickets ==
  [acc |-> [t \in TicketTeams |-> 0],
   events |-> [t \in TicketTeams |-> << >>],
   bk |-> [t \in TicketTeams |-> [death |-> 0, vehicle |-> 0, bleed |-> 0, total |-> 0]]]

(* The places of the vehicles destroyed: one is, on the frame its health   *)
(* reaches zero; the wreck it leaves is not destroyed again.               *)
DestroyedNow(prev, cur, t) ==
  {i \in 1..Len(cur.vehicles) :
     LET v == cur.vehicles[i]
     IN  /\ v.team = t /\ v.health # None /\ v.health <= 0
         /\ \E p \in Range(prev.vehicles) :
              p.id = v.id /\ p.health # None /\ p.health > 0}

(* What they cost, in their order. *)
CostsNow(prev, cur, t) ==
  LET D == DestroyedNow(prev, cur, t)
  IN  [n \in 1..Cardinality(D) |-> VehicleTicketCost(cur.vehicles[NthOf(D, n)])]

(* What the destroyed vehicles are billed, first come, first served, while *)
(* anything of the drop is left.                                           *)
Bills(drop, costs) ==
  LET Before(i) == SumSeqOf(SubSeq(costs, 1, i - 1))
  IN  [i \in 1..Cardinality({j \in 1..Len(costs) : Before(j) < drop}) |->
         MinOf(costs[i], drop - Before(i))]

Loss(cause, amount) == [cause |-> cause, amount |-> amount]

(* As Split, but the deaths leave the whole rest to bleed. *)
SplitTwice(drop, costs, acc) ==
  LET bills == Bills(drop, costs)
      rest == drop - SumSeqOf(bills)
  IN  [vehicles |-> bills, death |-> MinOf(rest, acc), bleed |-> rest]

(* What a drop is split into: vehicles, then deaths, the rest is bleed. *)
Split(drop, costs, acc) ==
  LET bills == Bills(drop, costs)
      rest == drop - SumSeqOf(bills)
      d == MinOf(rest, acc)
  IN  [vehicles |-> bills, death |-> d, bleed |-> rest - d]

(* The losses listed for a drop. *)
Losses(s) ==
  [i \in 1..Len(s.vehicles) |-> Loss("vehicle", s.vehicles[i])]
  \o (IF s.death > 0 THEN <<Loss("death", s.death)>> ELSE << >>)
  \o (IF s.bleed > 0 THEN <<Loss("bleed", s.bleed)>> ELSE << >>)

(* The breakdown with a drop's losses added. *)
Billed(b, s) ==
  LET v == SumSeqOf(s.vehicles)
  IN  [death |-> b.death + s.death, vehicle |-> b.vehicle + v, bleed |-> b.bleed + s.bleed,
       total |-> b.total + v + s.death + s.bleed]

(* Deaths of a team counted between the two frames, when both read them. *)
NewDeaths(prev, cur, t) ==
  LET a == prev.teams[t].deaths  b == cur.teams[t].deaths
  IN  IF a # None /\ b # None /\ b > a THEN (b - a) * DeathCost ELSE 0

(* The drop to split: none over a bad read, a gain or a flat count. *)
Drop(prev, cur, t) ==
  LET a == prev.teams[t].tickets  b == cur.teams[t].tickets
  IN  IF a = None \/ b = None THEN 0 ELSE MaxOf(0, a - b)

BothInProgress(prev, cur) == prev.phase = "InProgress" /\ cur.phase = "InProgress"

(* One step of the pass; outside a running match all carry is dropped. *)
TicketStep(s, prev, cur) ==
  LET acc(t) == s.acc[t] + NewDeaths(prev, cur, t)
      split(t) == Split(Drop(prev, cur, t), CostsNow(prev, cur, t), acc(t))
  IN  IF ~BothInProgress(prev, cur)
      THEN [acc |-> [t \in TicketTeams |-> 0],
            events |-> [t \in TicketTeams |-> << >>], bk |-> s.bk]
      ELSE [acc |-> [t \in TicketTeams |-> acc(t) - split(t).death],
            events |-> [t \in TicketTeams |-> Losses(split(t))],
            bk |-> [t \in TicketTeams |-> Billed(s.bk[t], split(t))]]
=============================================================================
