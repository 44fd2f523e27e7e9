------------------------------- MODULE Motion -------------------------------
(***************************************************************************)
(* What is on display between two recorded frames                          *)
(* (canvas/interpolation.ts and the replay branch of the paint loop in     *)
(* canvas/MapCanvas.tsx): places and headings glide from the frame the     *)
(* playhead is in to the next, everything else is that of the former.      *)
(*                                                                         *)
(* A frame is [man, truck, shell, flag, mark]: a man [at, addr, aboard],   *)
(* addr being his pawn, a vehicle [at, yaw, gun], gun being where its      *)
(* turret points, a round in flight [id, at], how far a flag is captured,  *)
(* and a thing that is there or not.  Places are on a line; what is on     *)
(* display is given in halves, as the playhead is at 0, 1 or 2 halves of   *)
(* the way.  The headings of men are left out: they turn as vehicles do.   *)
(***************************************************************************)
EXTENDS ReplayBasics

CONSTANTS
  Places, Yaws, \* where things may be, and point to (degrees)
  FootMax, RideMax,     \* how far a man, a vehicle gets in one time unit
  FootFloor, RideFloor, \* and what no jump is, however short the time
  Rests,        \* what turret, round and flag may be like in a frame
  Ticks         \* times between two frames

(* Whole places and degrees; a vehicle is no slower than a man, and its    *)
(* floor no lower (SOLDIER_MAX_CMS, VEHICLE_MAX_CMS and the floors of      *)
(* lerpSnap; the safety factor is in FootMax and RideMax).                 *)
ASSUME MotionAssumption ==
  /\ Places \subseteq Int /\ Yaws \subseteq Int /\ Ticks \subseteq Nat
  /\ FootMax \in Nat /\ RideMax \in Nat /\ FootMax <= RideMax
  /\ FootFloor \in Nat /\ RideFloor \in Nat /\ FootFloor <= RideFloor
  /\ None \notin Int /\ None \notin [id : Int, at : Int]
  /\ Rests \subseteq [gun : Int \cup {None}, shell : [id : Int, at : Int] \cup {None},
                     flag : Int \cup {None}]

VARIABLES
  was, now,     \* the frames either side of the playhead; None: not under study
  half,         \* how far the playhead is between them
  tick          \* the time between them

motionVars == <<was, now, half, tick>>


-----------------------------------------------------------------------------
(* Interpolation *)

Lerp(a, b, t) == 2 * a + (b - a) * t

(* x % n as the language has it: of the sign of x. *)
JsMod(x, n) == IF x >= 0 THEN x % n ELSE -((-x) % n)

(* The shorter way round. *)
ShortWay(a, b) == JsMod(JsMod(b - a, 360) + 540, 360) - 180
LerpAngle(a, b, t) == 2 * a + ShortWay(a, b) * t

(* Too far to have got there in the time between the frames; a floor      *)
(* keeps short times from making a jump of every step.                     *)
IsTeleport(a, b, max, least) == Far(a, b) > MaxOf(least, max * tick)

ManJumps(a, b, aboard) ==
  IF aboard THEN IsTeleport(a, b, RideMax, RideFloor) ELSE IsTeleport(a, b, FootMax, FootFloor)

Still(m) == [m EXCEPT !.at = 2 * @]
Twice(x) == IF x = None THEN None ELSE 2 * x

LerpManOnFoot(p, c, t) ==
  IF c.addr # p.addr \/ ManJumps(p.at, c.at, FALSE) THEN Still(c)
  ELSE [c EXCEPT !.at = Lerp(p.at, c.at, t)]

(* A man: not across a new pawn, nor further than he could have got - by   *)
(* the measure of vehicles when he is in one.                              *)
LerpMan(p, c, t) ==
  IF c.addr # p.addr \/ ManJumps(p.at, c.at, c.aboard) THEN Still(c)
  ELSE [c EXCEPT !.at = Lerp(p.at, c.at, t)]

(* A turret follows its vehicle's frames only where both were read. *)
LerpTurret(p, c, t) == IF p = None \/ c = None THEN Twice(c) ELSE LerpAngle(p, c, t)

StillTruck(v) == [at |-> 2 * v.at, yaw |-> 2 * v.yaw, gun |-> Twice(v.gun)]

LerpTruck(p, c, t) ==
  IF IsTeleport(p.at, c.at, RideMax, RideFloor) THEN StillTruck(c)
  ELSE [at |-> Lerp(p.at, c.at, t), yaw |-> LerpAngle(p.yaw, c.yaw, t),
        gun |-> LerpTurret(p.gun, c.gun, t)]

(* A round in flight glides however far it gets. *)
StillShell(s) == IF s = None THEN None ELSE Still(s)
LerpShell(p, c, t) ==
  IF c = None \/ p = None THEN StillShell(c)
  ELSE IF p.id # c.id THEN Still(c) ELSE [c EXCEPT !.at = Lerp(p.at, c.at, t)]

LerpFlag(p, c, t) == IF p = None \/ c = None THEN Twice(c) ELSE Lerp(p, c, t)

Doubled(f) == [man |-> Still(f.man), truck |-> StillTruck(f.truck),
               shell |-> StillShell(f.shell), flag |-> Twice(f.flag), mark |-> f.mark]

LerpSnap(p, c, t) ==
  [man |-> LerpMan(p.man, c.man, t), truck |-> LerpTruck(p.truck, c.truck, t),
   shell |-> LerpShell(p.shell, c.shell, t), flag |-> LerpFlag(p.flag, c.flag, t),
   mark |-> c.mark]

(* What the paint loop shows: on a frame that frame; between two what      *)
(* glides of LerpSnap with all the rest of the frame behind.               *)
Display ==
  IF half = 0 THEN Doubled(was)
  ELSE [LerpSnap(was, now, half) EXCEPT !.mark = was.mark]

-----------------------------------------------------------------------------
(* Playing *)

MotionInit ==
  /\ was \in {[man |-> [at |-> p, addr |-> 1, aboard |-> FALSE],
               truck |-> [at |-> q, yaw |-> 0, gun |-> None],
               shell |-> None, flag |-> None, mark |-> FALSE] : p \in Places, q \in Places}
  /\ now = was /\ half = 0 /\ tick \in Ticks

MotionOff == was = None /\ now = None /\ half = 0 /\ tick = 0

PlayheadMoves(t) == /\ was # None /\ t # half /\ half' = t
                    /\ UNCHANGED <<was, now, tick>>

Frame(f) ==
  /\ half = 2
  /\ was' = now /\ half' = 0
  /\ now' = [f EXCEPT !.mark = ~now.mark]
  /\ UNCHANGED tick

(* He walks, is put elsewhere, dies and comes back with a new pawn. *)
ManGoes(p, addr) ==
  /\ was # None /\ ~now.man.aboard
  /\ Frame([now EXCEPT !.man = [now.man EXCEPT !.at = p, !.addr = addr]])

Boards == /\ was # None /\ ~now.man.aboard
          /\ Frame([now EXCEPT !.man = [now.man EXCEPT !.at = now.truck.at, !.aboard = TRUE]])

Alights == /\ was # None /\ now.man.aboard
           /\ Frame([now EXCEPT !.man = [now.man EXCEPT !.aboard = FALSE]])

TruckGoes(q, yaw) ==
  /\ was # None
  /\ Frame([now EXCEPT !.man = IF now.man.aboard THEN [now.man EXCEPT !.at = q] ELSE now.man,
                       !.truck = [now.truck EXCEPT !.at = q, !.yaw = yaw]])

(* The turret traverses, a round is fired, flies or strikes, a flag is     *)
(* worked at or not read.                                                  *)
RestGoes(r) ==
  /\ was # None
  /\ Frame([now EXCEPT !.truck = [now.truck EXCEPT !.gun = r.gun], !.shell = r.shell, !.flag = r.flag])

MotionNext ==
  \/ \E t \in {0, 1, 2} : PlayheadMoves(t)
  \/ Boards \/ Alights
  \/ \E p \in Places, a \in {1, 2} : ManGoes(p, a)
  \/ \E q \in Places, yaw \in Yaws : TruckGoes(q, yaw)
  \/ \E r \in Rests : RestGoes(r)

-----------------------------------------------------------------------------
(* Properties *)

FootReach == MaxOf(FootFloor, FootMax * tick)
RideReach == MaxOf(RideFloor, RideMax * tick)

(* Nobody slides over the map: on display a man is between the places of   *)
(* his two frames, and where the next frame has him when he has come back  *)
(* to life in between or has been put further than a man gets, or than the *)
(* vehicle he is in does ("sliding corpse", interpolation.ts).  Who has    *)
(* gone no further than that glides all the way, in short times too.       *)
NoSliding ==
  (was # None /\ half > 0) =>
    LET at    == Display.man.at
        far   == Far(was.man.at, now.man.at)
        reach == IF now.man.aboard THEN RideReach ELSE FootReach
    IN  /\ at \in 2 * MinOf(was.man.at, now.man.at)..2 * MaxOf(was.man.at, now.man.at)
        /\ was.man.addr # now.man.addr \/ far > reach => at = 2 * now.man.at
        /\ was.man.addr = now.man.addr /\ far <= FootFloor /\ half = 1 =>
             at = was.man.at + now.man.at

(* Who rides in a vehicle stays in it on display at any speed: their       *)
(* places glide alike (the order lines start at him).                      *)
RidersGlide ==
  (was # None /\ was.man.aboard /\ now.man.aboard) => Display.man.at = Display.truck.at

(* A heading turns by at most half a turn - a vehicle's, and its turret's  *)
(* where both frames read it.                                              *)
TurnsShortWay ==
  (was # None /\ half > 0 /\ Far(was.truck.at, now.truck.at) <= RideReach) =>
    /\ Far(Display.truck.yaw, 2 * was.truck.yaw) <= 180 * half
    /\ None \notin {was.truck.gun, now.truck.gun} =>
         Far(Display.truck.gun, 2 * was.truck.gun) <= 180 * half

SameHeading(a, b) == IF b = None THEN a = None ELSE (a - b) % 720 = 0

(* The picture does not jump when the playhead crosses into the next       *)
(* frame: at the end of the way all that glides is as that frame will show *)
(* it, whatever appeared, vanished or was not read in between; what does   *)
(* not glide turns over only then ("play == pause", MapCanvas.tsx).        *)
EndsMeet ==
  (was # None /\ half = 2) =>
    LET next == Doubled(now)
    IN  /\ Display.man = next.man /\ Display.shell = next.shell /\ Display.flag = next.flag
        /\ Display.truck.at = next.truck.at
        /\ SameHeading(Display.truck.yaw, next.truck.yaw)
        /\ SameHeading(Display.truck.gun, next.truck.gun)
        /\ Display.mark = was.mark

(* Between two frames men, riders, vehicles and their turrets are where    *)
(* they could have been, and each frame takes over from the last           *)
(* (interpolation.ts).                                                     *)
MotionAgrees == NoSliding /\ RidersGlide /\ TurnsShortWay /\ EndsMeet
=============================================================================
