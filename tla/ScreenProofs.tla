---------------------------- MODULE ScreenProofs ----------------------------
(***************************************************************************)
(* Proofs about the parts of the screen around the map.  The parts stand   *)
(* side by side, so each proof is about one of them: Parts says that a     *)
(* step of the screen is a step of the part or leaves it alone.            *)
(***************************************************************************)
EXTENDS Screen, DataLemmas

-----------------------------------------------------------------------------
(* From the screen to its parts *)

MotionOn == [MotionNext]_motionVars
CatalogOn == [CatalogNext]_catalogVars
ClipOn == [ClipNext]_clip
PageOn == [PageNext]_pageVars
HudOn == [HudNext]_hudVars
RoundsOn == [RoundsNext]_roundVars
CapsOn == [CapNext]_capVars

LEMMA PartsInit ==
  ASSUME ScreenInit
  PROVE  /\ MotionInit \/ MotionOff
         /\ CatalogInit \/ CatalogOff
         /\ ClipInit \/ ClipOff
         /\ PageInit \/ PageOff
         /\ HudInit \/ HudOff
         /\ RoundsInit \/ RoundsOff
         /\ CapInit \/ CapOff
BY DEF ScreenInit

LEMMA PartsNext ==
  ASSUME [ScreenNext]_screenVars
  PROVE  MotionOn /\ CatalogOn /\ ClipOn /\ PageOn /\ HudOn /\ RoundsOn /\ CapsOn
<1>1. CASE UNCHANGED screenVars
  BY <1>1 DEF screenVars, MotionOn, CatalogOn, ClipOn, PageOn, HudOn, RoundsOn, CapsOn
<1>2. CASE ScreenNext
  BY <1>2 DEF ScreenNext, MotionOn, CatalogOn, ClipOn, PageOn, HudOn, RoundsOn, CapsOn
<1> QED
  BY <1>1, <1>2

-----------------------------------------------------------------------------
(* Gliding *)


ManRec == [at : Int, addr : Int, aboard : BOOLEAN]
TruckRec == [at : Int, yaw : Int, gun : Int \cup {None}]
Shells == [id : Int, at : Int] \cup {None}
FrameRec == [man : ManRec, truck : TruckRec, shell : Shells, flag : Int \cup {None}, mark : BOOLEAN]

Riding(f) == f.man.aboard => f.man.at = f.truck.at

(* A rider is where his vehicle is in either frame, and keeps his pawn     *)
(* while he rides.                                                         *)
MotionInv ==
  was # None =>
    /\ was \in FrameRec /\ now \in FrameRec /\ half \in 0..2 /\ tick \in Nat
    /\ Riding(was) /\ Riding(now)
    /\ was.man.aboard /\ now.man.aboard => was.man.addr = now.man.addr

LEMMA MotionStarts ==
  ASSUME MotionInit \/ MotionOff
  PROVE  MotionInv
<1>1. CASE MotionInit
  <2>1. PICK p \in Places, q \in Places :
          was = [man |-> [at |-> p, addr |-> 1, aboard |-> FALSE],
                 truck |-> [at |-> q, yaw |-> 0, gun |-> None],
                 shell |-> None, flag |-> None, mark |-> FALSE]
    BY <1>1 DEF MotionInit
  <2>2. p \in Int /\ q \in Int
    BY MotionAssumption
  <2>3. was \in FrameRec
    BY <2>1, <2>2 DEF FrameRec, ManRec, TruckRec, Shells
  <2>4. ~was.man.aboard
    BY <2>1
  <2> QED
    BY <1>1, <2>3, <2>4, MotionAssumption DEF MotionInit, MotionInv, Riding
<1>2. CASE MotionOff
  BY <1>2 DEF MotionOff, MotionInv
<1> QED
  BY <1>1, <1>2

(* A new frame: what must be shown of it. *)
LEMMA NewFrame ==
  ASSUME MotionInv, was # None, NEW f \in FrameRec, Frame(f), Riding(f),
         now.man.aboard /\ f.man.aboard => now.man.addr = f.man.addr
  PROVE  MotionInv'
<1> DEFINE g == [f EXCEPT !.mark = ~now.mark]
<1>1. was' = now /\ half' = 0 /\ tick' = tick /\ now' = g
  BY DEF Frame
<1>2. now \in FrameRec /\ tick \in Nat /\ Riding(now)
  BY DEF MotionInv
<1>3. g \in FrameRec /\ g.man = f.man /\ g.truck = f.truck
  BY <1>2 DEF FrameRec
<1>4. Riding(g)
  BY <1>3 DEF Riding
<1> HIDE DEF g
<1> QED
  BY <1>1, <1>2, <1>3, <1>4 DEF MotionInv, Riding

LEMMA MotionKeeps ==
  ASSUME MotionInv, MotionOn
  PROVE  MotionInv'
<1>1. CASE UNCHANGED motionVars
  BY <1>1 DEF motionVars, MotionInv, Riding
<1>2. ASSUME NEW t \in {0, 1, 2}, PlayheadMoves(t) PROVE MotionInv'
  BY <1>2 DEF PlayheadMoves, MotionInv, Riding
<1>3. was # None => now \in FrameRec /\ Riding(now)
  BY DEF MotionInv
<1>4. CASE Boards
  <2> DEFINE man == [now.man EXCEPT !.at = now.truck.at, !.aboard = TRUE]
             f == [now EXCEPT !.man = man]
  <2>1. was # None /\ ~now.man.aboard /\ Frame(f)
    BY <1>4 DEF Boards
  <2>2. now \in FrameRec /\ man \in ManRec /\ man.at = now.truck.at
    BY <1>3, <2>1 DEF FrameRec, ManRec, TruckRec
  <2>3. f \in FrameRec /\ f.man = man /\ f.truck = now.truck
    BY <2>2 DEF FrameRec
  <2>4. Riding(f)
    BY <2>2, <2>3 DEF Riding
  <2> HIDE DEF f
  <2> QED
    BY <2>1, <2>3, <2>4, NewFrame
<1>5. CASE Alights
  <2> DEFINE man == [now.man EXCEPT !.aboard = FALSE]
             f == [now EXCEPT !.man = man]
  <2>1. was # None /\ Frame(f)
    BY <1>5 DEF Alights
  <2>2. now \in FrameRec /\ man \in ManRec /\ ~man.aboard
    BY <1>3, <2>1 DEF FrameRec, ManRec
  <2>3. f \in FrameRec /\ f.man = man
    BY <2>2 DEF FrameRec
  <2>4. Riding(f)
    BY <2>2, <2>3 DEF Riding
  <2> HIDE DEF f
  <2> QED
    BY <2>1, <2>2, <2>3, <2>4, NewFrame
<1>6. ASSUME NEW p \in Places, NEW a \in {1, 2}, ManGoes(p, a) PROVE MotionInv'
  <2> DEFINE man == [now.man EXCEPT !.at = p, !.addr = a]
             f == [now EXCEPT !.man = man]
  <2>1. was # None /\ ~now.man.aboard /\ Frame(f)
    BY <1>6 DEF ManGoes
  <2>2. p \in Int /\ a \in Int
    BY MotionAssumption
  <2>3. now \in FrameRec /\ man \in ManRec /\ ~man.aboard
    BY <1>3, <2>1, <2>2 DEF FrameRec, ManRec
  <2>4. f \in FrameRec /\ f.man = man
    BY <2>3 DEF FrameRec
  <2>5. Riding(f)
    BY <2>3, <2>4 DEF Riding
  <2> HIDE DEF f
  <2> QED
    BY <2>1, <2>3, <2>4, <2>5, NewFrame
<1>7. ASSUME NEW q \in Places, NEW yaw \in Yaws, TruckGoes(q, yaw) PROVE MotionInv'
  <2> DEFINE man == IF now.man.aboard THEN [now.man EXCEPT !.at = q] ELSE now.man
             there == [now.truck EXCEPT !.at = q, !.yaw = yaw]
             f == [now EXCEPT !.man = man, !.truck = there]
  <2>1. was # None /\ Frame(f)
    BY <1>7 DEF TruckGoes
  <2>2. q \in Int /\ yaw \in Int
    BY MotionAssumption
  <2>3. now \in FrameRec /\ now.man \in ManRec /\ now.truck \in TruckRec
    BY <1>3, <2>1 DEF FrameRec
  <2>4. man \in ManRec /\ there \in TruckRec /\ there.at = q
    BY <2>2, <2>3 DEF ManRec, TruckRec
  <2>5. (man.aboard => man.at = q) /\ (now.man.aboard => man.addr = now.man.addr)
    BY <2>3 DEF ManRec
  <2>6. f \in FrameRec /\ f.man = man /\ f.truck = there
    <3> HIDE DEF man, there
    <3> QED
      BY <2>3, <2>4 DEF FrameRec
  <2>7. Riding(f)
    <3> HIDE DEF man, there, f
    <3> QED
      BY <2>4, <2>5, <2>6 DEF Riding
  <2> HIDE DEF man, there, f
  <2> QED
    BY <2>1, <2>5, <2>6, <2>7, NewFrame
<1>8. ASSUME NEW r \in Rests, RestGoes(r) PROVE MotionInv'
  <2> DEFINE there == [now.truck EXCEPT !.gun = r.gun]
             f == [now EXCEPT !.truck = there, !.shell = r.shell, !.flag = r.flag]
  <2>1. was # None /\ Frame(f)
    BY <1>8 DEF RestGoes
  <2>2. r.gun \in Int \cup {None} /\ r.shell \in Shells /\ r.flag \in Int \cup {None}
    BY MotionAssumption DEF Shells
  <2>3. now \in FrameRec /\ now.truck \in TruckRec /\ Riding(now)
    BY <1>3, <2>1 DEF FrameRec
  <2>4. there \in TruckRec /\ there.at = now.truck.at
    BY <2>2, <2>3 DEF TruckRec
  <2>5. f \in FrameRec /\ f.man = now.man /\ f.truck = there
    <3> HIDE DEF there
    <3> QED
      BY <2>2, <2>3, <2>4 DEF FrameRec
  <2>6. Riding(f)
    BY <2>3, <2>4, <2>5 DEF Riding
  <2> HIDE DEF f
  <2> QED
    BY <2>1, <2>5, <2>6, NewFrame
<1> QED
  BY <1>1, <1>2, <1>4, <1>5, <1>6, <1>7, <1>8 DEF MotionOn, MotionNext

LEMMA Remainder ==
  ASSUME NEW z \in Int
  PROVE  \E q \in Int : q = z \div 360 /\ z % 360 = z - 360 * q /\ z % 360 \in 0..359
<1> DEFINE q == z \div 360
<1>1. q \in Int /\ z % 360 = z - 360 * q /\ z % 360 \in 0..359
  OBVIOUS
<1> QED
  BY <1>1

(* Less than once round, in either direction. *)
TurnedBack(x) == \E k \in Int : JsMod(x, 360) = x + 360 * k /\ JsMod(x, 360) \in -359..359

LEMMA WithinTurn ==
  ASSUME NEW x \in Int
  PROVE  TurnedBack(x)
<1>1. CASE x >= 0
  <2> DEFINE k == -(x \div 360)
  <2>1. JsMod(x, 360) = x + 360 * k /\ JsMod(x, 360) \in -359..359 /\ k \in Int
    BY <1>1 DEF JsMod
  <2> HIDE DEF k
  <2> QED
    BY <2>1 DEF TurnedBack
<1>2. CASE ~(x >= 0)
  <2> DEFINE k == (-x) \div 360
  <2>1. JsMod(x, 360) = x + 360 * k /\ JsMod(x, 360) \in -359..359 /\ k \in Int
    BY <1>2 DEF JsMod
  <2> HIDE DEF k
  <2> QED
    BY <2>1 DEF TurnedBack
<1> QED
  BY <1>1, <1>2

LEMMA TurnIsBetween ==
  ASSUME NEW a \in Int, NEW b \in Int, NEW t \in 1..2
  PROVE  /\ Far(LerpAngle(a, b, t), 2 * a) <= 180 * t
         /\ t = 2 => (LerpAngle(a, b, t) - 2 * b) % 720 = 0
<1>a. PICK x \in Int : x = b - a
  OBVIOUS
<1> DEFINE y == JsMod(x, 360)
           d == ShortWay(a, b)
<1>1. PICK k \in Int : y = x + 360 * k /\ y \in -359..359
  <2>1. TurnedBack(x)
    BY <1>a, WithinTurn
  <2> QED
    BY <2>1 DEF TurnedBack
<1>2. d = JsMod(y + 540, 360) - 180
  BY <1>a DEF ShortWay
<1> DEFINE m == k + 1 - (y + 540) \div 360
<1> HIDE DEF y
<1>3. d \in -180..180 /\ m \in Int /\ d = b - a + 360 * m
  <2>1. y + 540 > 0
    BY <1>1
  <2>2. d = ((y + 540) % 360) - 180
    BY <1>1, <1>2, <2>1 DEF JsMod
  <2> HIDE DEF d
  <2>3. PICK z \in Int : z = y + 540
    BY <1>1
  <2>4. PICK q \in Int : q = z \div 360 /\ z % 360 = z - 360 * q /\ z % 360 \in 0..359
    BY <2>3, Remainder
  <2>5. m \in Int /\ m = k + 1 - q
    BY <1>1, <2>3, <2>4
  <2>6. d = z - 360 * q - 180 /\ d \in -180..179
    BY <2>2, <2>3, <2>4
  <2> HIDE DEF m
  <2>7. d = b - a + (360 * k + 360 - 360 * q)
    BY <1>a, <1>1, <2>3, <2>4, <2>6
  <2>8. 360 * m = 360 * k + 360 - 360 * q
    BY <1>1, <2>4, <2>5
  <2> QED
    BY <2>5, <2>6, <2>7, <2>8
<1> HIDE DEF m
<1>4. LerpAngle(a, b, t) = 2 * a + d * t
  BY DEF LerpAngle
<1> HIDE DEF d
<1>5. CASE t = 1
  BY <1>3, <1>4, <1>5 DEF Far
<1>6. CASE t = 2
  <2>1. LerpAngle(a, b, t) - 2 * b = 720 * m
    BY <1>3, <1>4, <1>6
  <2>2. (720 * m) % 720 = 0
    BY <1>3
  <2>3. Far(LerpAngle(a, b, t), 2 * a) <= 360
    BY <1>3, <1>4, <1>6 DEF Far
  <2> QED
    BY <1>6, <2>1, <2>2, <2>3
<1> QED
  BY <1>5, <1>6

LEMMA GlideIsBetween ==
  ASSUME NEW a \in Int, NEW b \in Int, NEW t \in 1..2
  PROVE  /\ Lerp(a, b, t) \in 2 * MinOf(a, b)..2 * MaxOf(a, b)
         /\ 2 * b \in 2 * MinOf(a, b)..2 * MaxOf(a, b)
<1>1. CASE t = 1
  BY <1>1 DEF Lerp, MinOf, MaxOf
<1>2. CASE t = 2
  BY <1>2 DEF Lerp, MinOf, MaxOf
<1> QED
  BY <1>1, <1>2

(* At the end of the way. *)
LEMMA ManArrives ==
  ASSUME NEW p \in ManRec, NEW c \in ManRec
  PROVE  LerpMan(p, c, 2) = Still(c)
<1>1. c.at \in Int /\ p.at \in Int
  BY DEF ManRec
<1>2. Lerp(p.at, c.at, 2) = 2 * c.at
  BY <1>1 DEF Lerp
<1> QED
  BY <1>2 DEF LerpMan, Still

LEMMA ShellArrives ==
  ASSUME NEW p \in Shells, NEW c \in Shells
  PROVE  LerpShell(p, c, 2) = StillShell(c)
<1>1. CASE c = None \/ p = None
  BY <1>1 DEF LerpShell
<1>2. CASE c # None /\ p # None
  <2>1. c.at \in Int /\ p.at \in Int
    BY <1>2 DEF Shells
  <2>2. Lerp(p.at, c.at, 2) = 2 * c.at
    BY <2>1 DEF Lerp
  <2> QED
    BY <1>2, <2>2 DEF LerpShell, StillShell, Still
<1> QED
  BY <1>1, <1>2

LEMMA FlagArrives ==
  ASSUME NEW p \in Int \cup {None}, NEW c \in Int \cup {None}
  PROVE  LerpFlag(p, c, 2) = Twice(c)
BY DEF LerpFlag, Twice, Lerp

LEMMA TurretTurns ==
  ASSUME NEW p \in Int \cup {None}, NEW c \in Int \cup {None}, NEW t \in 1..2
  PROVE  /\ None \notin {p, c} => Far(LerpTurret(p, c, t), 2 * p) <= 180 * t
         /\ t = 2 => SameHeading(LerpTurret(p, c, t), Twice(c))
<1>1. None \notin Int
  BY MotionAssumption
<1>2. CASE p = None \/ c = None
  <2>1. LerpTurret(p, c, t) = Twice(c)
    BY <1>2 DEF LerpTurret
  <2>2. c # None => (2 * c - 2 * c) % 720 = 0
    OBVIOUS
  <2> QED
    BY <1>1, <1>2, <2>1, <2>2 DEF SameHeading, Twice
<1>3. CASE p # None /\ c # None
  <2>1. LerpTurret(p, c, t) = LerpAngle(p, c, t) /\ Twice(c) = 2 * c /\ p \in Int /\ c \in Int
    BY <1>3 DEF LerpTurret, Twice
  <2>2. /\ Far(LerpAngle(p, c, t), 2 * p) <= 180 * t
        /\ t = 2 => (LerpAngle(p, c, t) - 2 * c) % 720 = 0
    BY <2>1, TurnIsBetween
  <2>3. Twice(c) # None
    BY <1>1, <2>1
  <2> QED
    BY <2>1, <2>2, <2>3 DEF SameHeading
<1> QED
  BY <1>2, <1>3

LEMMA Reaches ==
  ASSUME tick \in Nat
  PROVE  /\ FootReach \in Int /\ RideReach \in Int /\ FootFloor <= FootReach /\ RideFloor <= RideReach
         /\ FootFloor \in Int /\ RideFloor \in Int /\ FootFloor <= RideReach
         /\ \A a, b \in Int : /\ IsTeleport(a, b, FootMax, FootFloor) <=> Far(a, b) > FootReach
                              /\ IsTeleport(a, b, RideMax, RideFloor) <=> Far(a, b) > RideReach
<1>1. FootMax * tick \in Int /\ RideMax * tick \in Int /\ FootFloor \in Int /\ RideFloor \in Int
      /\ FootFloor <= RideFloor
  BY MotionAssumption
<1> QED
  BY <1>1 DEF FootReach, RideReach, MaxOf, IsTeleport

LEMMA MotionShows ==
  ASSUME MotionInv
  PROVE  MotionAgrees
<1> SUFFICES ASSUME was # None PROVE MotionAgrees
  BY DEF MotionAgrees, NoSliding, RidersGlide, TurnsShortWay, EndsMeet
<1> DEFINE p == was.man
           c == now.man
           v == was.truck
           w == now.truck
<1>1. /\ p \in ManRec /\ c \in ManRec /\ v \in TruckRec /\ w \in TruckRec
      /\ half \in 0..2 /\ tick \in Nat /\ was.mark \in BOOLEAN
      /\ was.shell \in Shells /\ now.shell \in Shells
      /\ was.flag \in Int \cup {None} /\ now.flag \in Int \cup {None}
      /\ p.aboard => p.at = v.at
      /\ c.aboard => c.at = w.at
      /\ p.aboard /\ c.aboard => p.addr = c.addr
  BY DEF MotionInv, FrameRec, Riding
<1>2. /\ p.at \in Int /\ c.at \in Int /\ v.at \in Int /\ w.at \in Int /\ v.yaw \in Int /\ w.yaw \in Int
      /\ p.aboard \in BOOLEAN /\ c.aboard \in BOOLEAN
      /\ v.gun \in Int \cup {None} /\ w.gun \in Int \cup {None}
  BY <1>1 DEF ManRec, TruckRec
<1>3. Display.mark = was.mark
  BY DEF Display, Doubled, LerpSnap
<1>4. half = 0 => Display.man.at = 2 * p.at /\ Display.truck.at = 2 * v.at
  BY <1>1, <1>2 DEF Display, Doubled, Still, StillTruck, ManRec
<1>5. half # 0 => /\ Display.man = LerpMan(p, c, half)
                  /\ Display.truck = LerpTruck(v, w, half)
                  /\ Display.shell = LerpShell(was.shell, now.shell, half)
                  /\ Display.flag = LerpFlag(was.flag, now.flag, half)
  BY DEF Display, LerpSnap
<1> DEFINE reach == IF c.aboard THEN RideReach ELSE FootReach
           jump == c.addr # p.addr \/ Far(p.at, c.at) > reach
<1>6. ManJumps(p.at, c.at, c.aboard) <=> Far(p.at, c.at) > reach
  BY <1>1, <1>2, Reaches DEF ManJumps
<1>7. LerpMan(p, c, half).at = IF jump THEN 2 * c.at ELSE Lerp(p.at, c.at, half)
  BY <1>1, <1>6 DEF LerpMan, Still, ManRec
<1>8. IsTeleport(v.at, w.at, RideMax, RideFloor) <=> Far(v.at, w.at) > RideReach
  BY <1>1, <1>2, Reaches
<1>9. LerpTruck(v, w, half) =
        IF Far(v.at, w.at) > RideReach THEN StillTruck(w)
        ELSE [at |-> Lerp(v.at, w.at, half), yaw |-> LerpAngle(v.yaw, w.yaw, half),
              gun |-> LerpTurret(v.gun, w.gun, half)]
  BY <1>8 DEF LerpTruck
<1>10. LerpTruck(v, w, half).at = IF Far(v.at, w.at) > RideReach THEN 2 * w.at ELSE Lerp(v.at, w.at, half)
  BY <1>9 DEF StillTruck
<1>11. NoSliding
  <2> SUFFICES ASSUME half > 0
               PROVE  /\ Display.man.at \in 2 * MinOf(p.at, c.at)..2 * MaxOf(p.at, c.at)
                      /\ p.addr # c.addr \/ Far(p.at, c.at) > reach => Display.man.at = 2 * c.at
                      /\ p.addr = c.addr /\ Far(p.at, c.at) <= FootFloor /\ half = 1 =>
                           Display.man.at = p.at + c.at
    BY DEF NoSliding
  <2>1. Display.man.at = IF jump THEN 2 * c.at ELSE Lerp(p.at, c.at, half)
    BY <1>1, <1>5, <1>7
  <2>2. half \in 1..2
    BY <1>1
  <2>3. Display.man.at \in 2 * MinOf(p.at, c.at)..2 * MaxOf(p.at, c.at)
    BY <1>2, <2>1, <2>2, GlideIsBetween
  <2>4. Far(p.at, c.at) <= FootFloor => ~(Far(p.at, c.at) > reach)
    <3>1. Far(p.at, c.at) \in Int
      BY <1>2 DEF Far
    <3> QED
      BY <1>1, <3>1, Reaches
  <2>5. half = 1 => Lerp(p.at, c.at, half) = p.at + c.at
    BY <1>2 DEF Lerp
  <2> HIDE DEF reach
  <2> QED
    BY <2>1, <2>3, <2>4, <2>5
<1>12. RidersGlide
  <2> SUFFICES ASSUME p.aboard, c.aboard PROVE Display.man.at = Display.truck.at
    BY DEF RidersGlide
  <2>1. p.at = v.at /\ c.at = w.at /\ p.addr = c.addr
    BY <1>1
  <2>2. jump <=> Far(v.at, w.at) > RideReach
    BY <2>1
  <2> HIDE DEF jump
  <2> QED
    BY <1>4, <1>5, <1>7, <1>10, <2>1, <2>2
<1>13. TurnsShortWay
  <2> SUFFICES ASSUME half > 0, Far(v.at, w.at) <= RideReach
               PROVE  /\ Far(Display.truck.yaw, 2 * v.yaw) <= 180 * half
                      /\ None \notin {v.gun, w.gun} => Far(Display.truck.gun, 2 * v.gun) <= 180 * half
    BY DEF TurnsShortWay
  <2>1. ~(Far(v.at, w.at) > RideReach)
    <3>1. Far(v.at, w.at) \in Int /\ RideReach \in Int
      BY <1>1, <1>2, Reaches DEF Far
    <3> QED
      BY <3>1
  <2>2. /\ Display.truck.yaw = LerpAngle(v.yaw, w.yaw, half)
        /\ Display.truck.gun = LerpTurret(v.gun, w.gun, half)
    BY <1>1, <1>5, <1>9, <2>1
  <2>3. half \in 1..2
    BY <1>1
  <2>4. Far(LerpAngle(v.yaw, w.yaw, half), 2 * v.yaw) <= 180 * half
    BY <1>2, <2>3, TurnIsBetween
  <2>5. None \notin {v.gun, w.gun} => Far(LerpTurret(v.gun, w.gun, half), 2 * v.gun) <= 180 * half
    BY <1>2, <2>3, TurretTurns
  <2> QED
    BY <2>2, <2>4, <2>5
<1>14. EndsMeet
  <2> SUFFICES ASSUME half = 2
               PROVE  /\ Display.man = Still(c)
                      /\ Display.shell = StillShell(now.shell)
                      /\ Display.flag = Twice(now.flag)
                      /\ Display.truck.at = 2 * w.at
                      /\ SameHeading(Display.truck.yaw, 2 * w.yaw)
                      /\ SameHeading(Display.truck.gun, Twice(w.gun))
    BY <1>3 DEF EndsMeet, Doubled, StillTruck
  <2>a. /\ LerpMan(p, c, 2) = Still(c)
        /\ LerpShell(was.shell, now.shell, 2) = StillShell(now.shell)
        /\ LerpFlag(was.flag, now.flag, 2) = Twice(now.flag)
    BY <1>1, ManArrives, ShellArrives, FlagArrives
  <2>1. Display.man = Still(c) /\ Display.shell = StillShell(now.shell) /\ Display.flag = Twice(now.flag)
    BY <1>5, <2>a
  <2>2. Display.truck = LerpTruck(v, w, 2)
    BY <1>5
  <2>3. None \notin Int
    BY MotionAssumption
  <2>4. (2 * w.yaw - 2 * w.yaw) % 720 = 0 /\ 2 * w.yaw # None
    BY <1>2, <2>3
  <2>5. CASE Far(v.at, w.at) > RideReach
    <3>1. Display.truck = StillTruck(w)
      BY <1>9, <2>2, <2>5
    <3>2. Display.truck.at = 2 * w.at /\ Display.truck.yaw = 2 * w.yaw /\ Display.truck.gun = Twice(w.gun)
      BY <3>1 DEF StillTruck
    <3>3. SameHeading(Twice(w.gun), Twice(w.gun))
      BY <1>2, <2>3 DEF SameHeading, Twice
    <3> QED
      BY <2>1, <2>4, <3>2, <3>3 DEF SameHeading
  <2>6. CASE ~(Far(v.at, w.at) > RideReach)
    <3>1. /\ Display.truck.at = Lerp(v.at, w.at, 2) /\ Display.truck.yaw = LerpAngle(v.yaw, w.yaw, 2)
          /\ Display.truck.gun = LerpTurret(v.gun, w.gun, 2)
      BY <1>9, <2>2, <2>6
    <3>2. Lerp(v.at, w.at, 2) = 2 * w.at
      BY <1>2 DEF Lerp
    <3>a. PICK t \in 1..2 : t = 2
      OBVIOUS
    <3>3. (LerpAngle(v.yaw, w.yaw, 2) - 2 * w.yaw) % 720 = 0
      <4>1. (LerpAngle(v.yaw, w.yaw, t) - 2 * w.yaw) % 720 = 0
        BY <1>2, <3>a, TurnIsBetween
      <4> QED
        BY <3>a, <4>1
    <3>4. SameHeading(LerpTurret(v.gun, w.gun, 2), Twice(w.gun))
      BY <1>2, <3>a, TurretTurns
    <3> QED
      BY <2>1, <2>4, <3>1, <3>2, <3>3, <3>4 DEF SameHeading
  <2> QED
    BY <2>5, <2>6
<1> QED
  BY <1>11, <1>12, <1>13, <1>14 DEF MotionAgrees

(* Men, riders, vehicles and their turrets are on display where they can   *)
(* have been - across a new pawn and across what is too far and above the  *)
(* floor they are snapped, else they glide - and each frame takes over     *)
(* from the last, whatever the places, the speeds, the floors and the      *)
(* times between frames (canvas/interpolation.ts).                         *)
THEOREM PlacesGlide == ScreenSpec => []MotionAgrees
<1>1. ScreenInit => MotionInv
  BY PartsInit, MotionStarts
<1>2. MotionInv /\ [ScreenNext]_screenVars => MotionInv'
  BY PartsNext, MotionKeeps
<1>3. MotionInv => MotionAgrees
  BY MotionShows
<1> QED
  BY <1>1, <1>2, <1>3, PTL DEF ScreenSpec

-----------------------------------------------------------------------------
(* Catalogues and clips *)

(* Once the imports were started each catalogue is in or on its way. *)
CatalogInv ==
  loaded # None /\ started =>
    \A c \in Catalogues : c \in loaded \/ \E i \in imports : i.which = c

LEMMA CatalogKeeps ==
  ASSUME CatalogInv, CatalogOn
  PROVE  CatalogInv'
<1>1. CASE UNCHANGED catalogVars
  BY <1>1 DEF catalogVars, CatalogInv
<1>2. CASE loaded # None /\ PanelMounts
  <2>1. CASE started
    BY <1>2, <2>1 DEF PanelMounts, CatalogInv
  <2>2. CASE ~started
    <3> SUFFICES ASSUME NEW c \in Catalogues PROVE \E i \in imports' : i.which = c
      BY <1>2 DEF PanelMounts, CatalogInv
    <3> DEFINE i == [which |-> c, mount |-> mounts + 1]
    <3>1. i \in imports'
      BY <1>2, <2>2 DEF PanelMounts
    <3> QED
      BY <3>1
  <2> QED
    BY <2>1, <2>2
<1>3. ASSUME loaded # None, NEW i \in imports, Imported(i) PROVE CatalogInv'
  <2>1. imports' = imports \ {i} /\ loaded' = loaded \cup {i.which} /\ started' = started
    BY <1>3 DEF Imported
  <2> SUFFICES ASSUME started, NEW c \in Catalogues
               PROVE  c \in loaded' \/ \E j \in imports' : j.which = c
    BY <2>1 DEF CatalogInv
  <2>2. c \in loaded \/ \E j \in imports : j.which = c
    BY <1>3 DEF CatalogInv
  <2> QED
    BY <2>1, <2>2
<1>4. ASSUME NEW i \in imports, ImportFails(i) PROVE CatalogInv'
  BY <1>4 DEF ImportFails, CatalogInv
<1> QED
  BY <1>1, <1>2, <1>3, <1>4 DEF CatalogOn, CatalogNext

RecorderRec == [component : 1..2, of : Nat, state : {"recording", "stopping"}]
FileRec == [of : Nat, chunks : Seq(Nat)]
ClipRec ==
  [component : 1..2, recording : BOOLEAN, recorders : SUBSET RecorderRec,
   chunks : [1..2 -> Seq(Nat)], made : Seq(Nat), saved : SUBSET FileRec]

(* The pieces are those of recording n, all of them. *)
Whole(c, pieces, n) == Range(pieces) \subseteq {n} /\ Len(pieces) = c.made[n]

RecordersOK(c) ==
  /\ \A r \in c.recorders :
       /\ r.of \in 1..Len(c.made) /\ r.component <= c.component
       /\ Whole(c, c.chunks[r.component], r.of)
  /\ \A r, s \in c.recorders : r.component = s.component \/ r.of = s.of => r = s
  /\ c.recording <=> \E r \in c.recorders : r.component = c.component

FilesOK(c) ==
  \A file \in c.saved :
    /\ file.of \in 1..Len(c.made) /\ Whole(c, file.chunks, file.of)
    /\ \A r \in c.recorders : r.of # file.of

(* A component has one recorder at most, and the pieces kept for it are    *)
(* that recorder's; nothing is added to a recording that was saved.        *)
ClipOK(c) == c \in ClipRec /\ RecordersOK(c) /\ FilesOK(c)
ClipInv == clip # None => ClipOK(clip)

LEMMA ClipStarts ==
  ASSUME ClipInit \/ ClipOff
  PROVE  ClipInv
<1>1. CASE ClipInit
  <2>1. clip \in ClipRec
    <3>1. << >> \in Seq(Nat)
      OBVIOUS
    <3>2. [c \in 1..2 |-> << >>] \in [1..2 -> Seq(Nat)]
      BY <3>1
    <3> QED
      BY <1>1, <3>1, <3>2 DEF ClipInit, ClipRec
  <2>2. clip.recorders = {} /\ clip.saved = {} /\ ~clip.recording
    BY <1>1 DEF ClipInit
  <2> QED
    BY <2>1, <2>2 DEF ClipInv, ClipOK, RecordersOK, FilesOK
<1>2. CASE ClipOff
  BY <1>2 DEF ClipOff, ClipInv
<1> QED
  BY <1>1, <1>2

(* Recorders that change their state are the same recorders. *)
LEMMA BecomesIs ==
  ASSUME clip \in ClipRec, NEW rs \in SUBSET clip.recorders, NEW state \in {"recording", "stopping"}
  PROVE  /\ Becomes(rs, state) \in SUBSET RecorderRec
         /\ \A n \in Becomes(rs, state) :
              \E r \in clip.recorders : r.component = n.component /\ r.of = n.of
         /\ \A r \in clip.recorders :
              \E n \in Becomes(rs, state) : r.component = n.component /\ r.of = n.of
         /\ (\A r, s \in clip.recorders : r.component = s.component \/ r.of = s.of => r = s) =>
              \A m, n \in Becomes(rs, state) : m.component = n.component \/ m.of = n.of => m = n
<1> DEFINE R == clip.recorders
           New(r) == [r EXCEPT !.state = state]
           B == (R \ rs) \cup {New(r) : r \in rs}
<1>1. R \in SUBSET RecorderRec
  BY DEF ClipRec
<1>2. \A r \in R : New(r) \in RecorderRec /\ New(r).component = r.component /\ New(r).of = r.of
  BY <1>1 DEF RecorderRec
<1>3. Becomes(rs, state) = B
  BY DEF Becomes
<1> HIDE DEF R, New
<1>4. \A n \in B : \E r \in R : /\ r.component = n.component /\ r.of = n.of /\ n \in RecorderRec
                               /\ IF r \in rs THEN n = New(r) ELSE n = r
  BY <1>1, <1>2 DEF R
<1>5. \A r \in R : \E n \in B : r.component = n.component /\ r.of = n.of
  <2> SUFFICES ASSUME NEW r \in R PROVE \E n \in B : r.component = n.component /\ r.of = n.of
    OBVIOUS
  <2>1. CASE r \in rs
    <3>1. New(r) \in B
      BY <2>1
    <3> QED
      BY <1>2, <3>1
  <2>2. CASE r \notin rs
    BY <2>2
  <2> QED
    BY <2>1, <2>2
<1>6. ASSUME \A r, s \in R : r.component = s.component \/ r.of = s.of => r = s,
             NEW m \in B, NEW n \in B, m.component = n.component \/ m.of = n.of
      PROVE  m = n
  <2>1. PICK r \in R : /\ r.component = m.component /\ r.of = m.of
                       /\ IF r \in rs THEN m = New(r) ELSE m = r
    BY <1>4
  <2>2. PICK s \in R : /\ s.component = n.component /\ s.of = n.of
                       /\ IF s \in rs THEN n = New(s) ELSE n = s
    BY <1>4
  <2>3. r = s
    BY <1>6, <2>1, <2>2
  <2> QED
    BY <2>1, <2>2, <2>3
<1> HIDE DEF B
<1> QED
  BY <1>3, <1>4, <1>5, <1>6 DEF R

(* What is said of a recorder but its state still holds when states, the   *)
(* component and its button change.                                        *)
LEMMA StatesOnly ==
  ASSUME ClipOK(clip), NEW rs \in SUBSET clip.recorders,
         clip' = [clip EXCEPT !.component = clip'.component, !.recording = clip'.recording,
                              !.recorders = Becomes(rs, "stopping")],
         clip'.component \in 1..2, clip'.component >= clip.component, clip'.recording \in BOOLEAN,
         clip'.recording <=> \E r \in clip.recorders : r.component = clip'.component
  PROVE  ClipOK(clip')
<1> DEFINE B == Becomes(rs, "stopping")
           component == clip'.component
           recording == clip'.recording
           d == clip'
<1>1. clip \in ClipRec /\ RecordersOK(clip) /\ FilesOK(clip)
  BY DEF ClipOK
<1>2. /\ B \in SUBSET RecorderRec
      /\ \A n \in B : \E r \in clip.recorders : r.component = n.component /\ r.of = n.of
      /\ \A r \in clip.recorders : \E n \in B : r.component = n.component /\ r.of = n.of
      /\ \A m, n \in B : m.component = n.component \/ m.of = n.of => m = n
  BY <1>1, BecomesIs DEF RecordersOK
<1>0. d = [clip EXCEPT !.component = component, !.recording = recording, !.recorders = B]
  OBVIOUS
<1> HIDE DEF B, d, component, recording
<1>b. component \in 1..2 /\ component >= clip.component /\ recording \in BOOLEAN
  BY DEF component, recording
<1>3. d \in ClipRec
  BY <1>0, <1>1, <1>2, <1>b DEF ClipRec
<1>4. /\ d.recorders = B /\ d.component = component /\ d.recording = recording
      /\ d.chunks = clip.chunks /\ d.made = clip.made /\ d.saved = clip.saved
  BY <1>0, <1>1 DEF ClipRec
<1>c. recording <=> \E r \in clip.recorders : r.component = component
  BY DEF component, recording
<1>5. RecordersOK(d)
  <2>1. ASSUME NEW n \in B
        PROVE  /\ n.of \in 1..Len(d.made) /\ n.component <= d.component
               /\ Whole(d, d.chunks[n.component], n.of)
    <3>1. PICK r \in clip.recorders : r.component = n.component /\ r.of = n.of
      BY <1>2
    <3>2. /\ r.of \in 1..Len(clip.made) /\ r.component <= clip.component
          /\ Whole(clip, clip.chunks[r.component], r.of)
      BY <1>1 DEF RecordersOK
    <3>3. r.component \in 1..2 /\ clip.component \in 1..2
      BY <1>1 DEF ClipRec, RecorderRec
    <3> QED
      BY <1>4, <1>b, <3>1, <3>2, <3>3 DEF Whole
  <2>2. d.recording <=> \E n \in B : n.component = component
    BY <1>2, <1>4, <1>c
  <2> QED
    BY <1>2, <1>4, <2>1, <2>2 DEF RecordersOK
<1>6. FilesOK(d)
  BY <1>1, <1>2, <1>4 DEF FilesOK, Whole
<1> QED
  BY <1>3, <1>5, <1>6 DEF ClipOK, d

LEMMA StartKeeps ==
  ASSUME ClipOK(clip), StartClip
  PROVE  ClipOK(clip')
<1> DEFINE n == Len(clip.made) + 1
           c0 == clip.component
           new == [component |-> c0, of |-> n, state |-> "recording"]
           R == clip.recorders \cup {new}
           made == Append(clip.made, 0)
           chunks == [clip.chunks EXCEPT ![c0] = << >>]
<1>1. clip \in ClipRec /\ RecordersOK(clip) /\ FilesOK(clip)
  BY DEF ClipOK
<1>2. /\ c0 \in 1..2 /\ clip.made \in Seq(Nat) /\ clip.recorders \in SUBSET RecorderRec
      /\ clip.chunks \in [1..2 -> Seq(Nat)] /\ n \in Nat /\ n > 0
  BY <1>1 DEF ClipRec
<1>3. new \in RecorderRec /\ R \in SUBSET RecorderRec /\ made \in Seq(Nat) /\ chunks \in [1..2 -> Seq(Nat)]
  BY <1>2 DEF RecorderRec
<1>4. Len(made) = n /\ made[n] = 0 /\ \A k \in 1..n - 1 : made[k] = clip.made[k]
  BY <1>2
<1>5. ~clip.recording /\ \A r \in clip.recorders : r.component # c0
  BY <1>1 DEF StartClip, RecordersOK
<1>6. clip' = [clip EXCEPT !.recording = TRUE, !.made = made, !.chunks = chunks, !.recorders = R]
  BY <1>1 DEF StartClip, ClipRec
<1> HIDE DEF made, chunks, R
<1>7. clip' \in ClipRec
  BY <1>1, <1>3, <1>6 DEF ClipRec
<1>8. /\ clip'.recorders = R /\ clip'.component = c0 /\ clip'.recording = TRUE
      /\ clip'.chunks = chunks /\ clip'.made = made /\ clip'.saved = clip.saved
  BY <1>1, <1>6 DEF ClipRec
<1>9. RecordersOK(clip')
  <2>1. ASSUME NEW r \in R
        PROVE  /\ r.of \in 1..Len(made) /\ r.component <= c0
               /\ Range(chunks[r.component]) \subseteq {r.of} /\ Len(chunks[r.component]) = made[r.of]
    <3>1. CASE r = new
      <4>1. chunks[c0] = << >>
        BY <1>2 DEF chunks
      <4> QED
        BY <1>2, <1>4, <3>1, <4>1 DEF Range
    <3>2. CASE r \in clip.recorders
      <4>1. /\ r.of \in 1..Len(clip.made) /\ r.component <= c0
            /\ Range(clip.chunks[r.component]) \subseteq {r.of}
            /\ Len(clip.chunks[r.component]) = clip.made[r.of]
        BY <1>1, <3>2 DEF RecordersOK, Whole
      <4>2. r.component \in 1..2 /\ r.component # c0
        BY <1>2, <1>5, <3>2 DEF RecorderRec
      <4>3. chunks[r.component] = clip.chunks[r.component]
        BY <1>2, <4>2 DEF chunks
      <4> QED
        BY <1>2, <1>4, <4>1, <4>3
    <3> QED
      BY <3>1, <3>2 DEF R
  <2>2. ASSUME NEW r \in R, NEW s \in R, r.component = s.component \/ r.of = s.of PROVE r = s
    <3>1. \A q \in clip.recorders : q.component # c0 /\ q.of # n
      BY <1>1, <1>2, <1>5 DEF RecordersOK
    <3>2. \A q, t \in clip.recorders : q.component = t.component \/ q.of = t.of => q = t
      BY <1>1 DEF RecordersOK
    <3> QED
      BY <2>2, <3>1, <3>2 DEF R
  <2>3. \E r \in R : r.component = c0
    <3>1. new \in R
      BY DEF R
    <3> QED
      BY <3>1
  <2> QED
    BY <1>8, <2>1, <2>2, <2>3 DEF RecordersOK, Whole
<1>10. FilesOK(clip')
  <2> SUFFICES ASSUME NEW file \in clip.saved
               PROVE  /\ file.of \in 1..Len(made)
                      /\ Range(file.chunks) \subseteq {file.of} /\ Len(file.chunks) = made[file.of]
                      /\ \A r \in R : r.of # file.of
    BY <1>8 DEF FilesOK, Whole
  <2>1. /\ file.of \in 1..Len(clip.made)
        /\ Range(file.chunks) \subseteq {file.of} /\ Len(file.chunks) = clip.made[file.of]
        /\ \A r \in clip.recorders : r.of # file.of
    BY <1>1 DEF FilesOK, Whole
  <2>2. file.of \in 1..n - 1 /\ file.of \in 1..Len(made) /\ file.of # n
    BY <1>2, <1>4, <2>1
  <2>3. made[file.of] = clip.made[file.of]
    BY <1>4, <2>2
  <2>4. \A r \in R : r.of # file.of
    BY <2>1, <2>2 DEF R
  <2> QED
    BY <2>1, <2>2, <2>3, <2>4
<1> QED
  BY <1>7, <1>9, <1>10 DEF ClipOK

LEMMA Longer ==
  ASSUME NEW s \in Seq(Nat), NEW x \in Nat
  PROVE  /\ Append(s, x) \in Seq(Nat) /\ Len(Append(s, x)) = Len(s) + 1
         /\ DOMAIN Append(s, x) = 1..Len(s) + 1
         /\ Append(s, x)[Len(s) + 1] = x /\ \A k \in 1..Len(s) : Append(s, x)[k] = s[k]
OBVIOUS

LEMMA OneMore ==
  ASSUME NEW s \in Seq(Nat), NEW i \in 1..Len(s)
  PROVE  /\ [s EXCEPT ![i] = @ + 1] \in Seq(Nat) /\ Len([s EXCEPT ![i] = @ + 1]) = Len(s)
         /\ [s EXCEPT ![i] = @ + 1][i] = s[i] + 1
         /\ \A k \in 1..Len(s) : k # i => [s EXCEPT ![i] = @ + 1][k] = s[k]
OBVIOUS

LEMMA DataKeeps ==
  ASSUME ClipOK(clip), NEW r \in clip.recorders, Data(r)
  PROVE  ClipOK(clip')
<1> DEFINE mine == clip.chunks[r.component]
           more == Append(mine, r.of)
           made == [clip.made EXCEPT ![r.of] = @ + 1]
           chunks == [clip.chunks EXCEPT ![r.component] = more]
<1>1. clip \in ClipRec /\ RecordersOK(clip) /\ FilesOK(clip)
  BY DEF ClipOK
<1>2. /\ clip.made \in Seq(Nat) /\ clip.recorders \in SUBSET RecorderRec
      /\ clip.chunks \in [1..2 -> Seq(Nat)] /\ r.component \in 1..2 /\ r.of \in Nat
  BY <1>1 DEF ClipRec, RecorderRec
<1>3. r.of \in 1..Len(clip.made) /\ Range(mine) \subseteq {r.of} /\ Len(mine) = clip.made[r.of]
  BY <1>1 DEF RecordersOK, Whole
<1>4. mine \in Seq(Nat) /\ more \in Seq(Nat) /\ Len(more) = clip.made[r.of] + 1 /\ Range(more) \subseteq {r.of}
  <2>1. mine \in Seq(Nat)
    BY <1>2
  <2> HIDE DEF mine
  <2>2. /\ more \in Seq(Nat) /\ Len(more) = Len(mine) + 1 /\ DOMAIN more = 1..Len(mine) + 1
        /\ more[Len(mine) + 1] = r.of /\ \A k \in 1..Len(mine) : more[k] = mine[k]
    BY <1>2, <2>1, Longer
  <2>3. ASSUME NEW k \in 1..Len(mine) PROVE mine[k] = r.of
    <3>1. k \in DOMAIN mine
      BY <2>1
    <3>2. mine[k] \in Range(mine)
      BY <3>1 DEF Range
    <3> QED
      BY <1>3, <3>2
  <2>4. Len(mine) \in Nat
    BY <2>1
  <2>5. \A k \in DOMAIN more : more[k] = r.of
    <3> SUFFICES ASSUME NEW k \in 1..Len(mine) + 1 PROVE more[k] = r.of
      BY <2>2
    <3>1. k \in 1..Len(mine) \/ k = Len(mine) + 1
      BY <2>4
    <3> QED
      BY <2>2, <2>3, <3>1
  <2>6. Range(more) \subseteq {r.of}
    BY <2>5 DEF Range
  <2>7. Len(mine) = clip.made[r.of]
    BY <1>3
  <2> QED
    BY <2>1, <2>2, <2>6, <2>7
<1>5. /\ made \in Seq(Nat) /\ Len(made) = Len(clip.made) /\ made[r.of] = clip.made[r.of] + 1
      /\ \A k \in 1..Len(clip.made) : k # r.of => made[k] = clip.made[k]
  BY <1>2, <1>3, OneMore
<1> HIDE DEF more
<1>6. chunks \in [1..2 -> Seq(Nat)]
  BY <1>2, <1>4
<1>7. clip' = [clip EXCEPT !.made = made, !.chunks = chunks]
  BY <1>1 DEF Data, ClipRec, more
<1> HIDE DEF made, chunks
<1>8. clip' \in ClipRec
  BY <1>1, <1>5, <1>6, <1>7 DEF ClipRec
<1>9. /\ clip'.recorders = clip.recorders /\ clip'.component = clip.component
      /\ clip'.recording = clip.recording
      /\ clip'.chunks = chunks /\ clip'.made = made /\ clip'.saved = clip.saved
  BY <1>1, <1>7 DEF ClipRec
<1>10. RecordersOK(clip')
  <2>1. ASSUME NEW s \in clip.recorders
        PROVE  /\ s.of \in 1..Len(made) /\ s.component <= clip.component
               /\ Range(chunks[s.component]) \subseteq {s.of} /\ Len(chunks[s.component]) = made[s.of]
    <3>1. /\ s.of \in 1..Len(clip.made) /\ s.component <= clip.component /\ s.component \in 1..2
          /\ Range(clip.chunks[s.component]) \subseteq {s.of}
          /\ Len(clip.chunks[s.component]) = clip.made[s.of]
      BY <1>1, <1>2 DEF RecordersOK, Whole, RecorderRec
    <3>2. CASE s = r
      <4>1. chunks[s.component] = more
        BY <1>2, <3>2 DEF chunks
      <4> QED
        BY <1>3, <1>4, <1>5, <3>1, <3>2, <4>1
    <3>3. CASE s # r
      <4>1. s.component # r.component /\ s.of # r.of
        BY <1>1, <3>3 DEF RecordersOK
      <4>2. chunks[s.component] = clip.chunks[s.component]
        BY <1>2, <3>1, <4>1 DEF chunks
      <4> QED
        BY <1>5, <3>1, <4>1, <4>2
    <3> QED
      BY <3>2, <3>3
  <2> QED
    BY <1>1, <1>9, <2>1 DEF RecordersOK, Whole
<1>11. FilesOK(clip')
  <2> SUFFICES ASSUME NEW file \in clip.saved
               PROVE  /\ file.of \in 1..Len(made)
                      /\ Range(file.chunks) \subseteq {file.of} /\ Len(file.chunks) = made[file.of]
                      /\ \A s \in clip.recorders : s.of # file.of
    BY <1>9 DEF FilesOK, Whole
  <2>1. /\ file.of \in 1..Len(clip.made)
        /\ Range(file.chunks) \subseteq {file.of} /\ Len(file.chunks) = clip.made[file.of]
        /\ \A s \in clip.recorders : s.of # file.of
    BY <1>1 DEF FilesOK, Whole
  <2> QED
    BY <1>5, <2>1
<1> QED
  BY <1>8, <1>10, <1>11 DEF ClipOK

LEMMA StoppedKeeps ==
  ASSUME ClipOK(clip), NEW r \in clip.recorders, Stopped(r)
  PROVE  ClipOK(clip')
<1> DEFINE R == clip.recorders \ {r}
           chunks == [clip.chunks EXCEPT ![r.component] = << >>]
           new == [of |-> r.of, chunks |-> clip.chunks[r.component]]
           saved == clip.saved \cup {new}
           recording == clip.recording /\ r.component # clip.component
<1>1. clip \in ClipRec /\ RecordersOK(clip) /\ FilesOK(clip)
  BY DEF ClipOK
<1>2. /\ clip.made \in Seq(Nat) /\ clip.recorders \in SUBSET RecorderRec /\ clip.component \in 1..2
      /\ clip.saved \in SUBSET FileRec /\ clip.recording \in BOOLEAN
      /\ clip.chunks \in [1..2 -> Seq(Nat)] /\ r.component \in 1..2 /\ r.of \in Nat
  BY <1>1 DEF ClipRec, RecorderRec
<1>3. /\ r.of \in 1..Len(clip.made) /\ Range(clip.chunks[r.component]) \subseteq {r.of}
      /\ Len(clip.chunks[r.component]) = clip.made[r.of]
  BY <1>1 DEF RecordersOK, Whole
<1>4. /\ R \in SUBSET RecorderRec /\ chunks \in [1..2 -> Seq(Nat)] /\ saved \in SUBSET FileRec
      /\ recording \in BOOLEAN
  BY <1>2 DEF FileRec
<1>5. \A s \in R : s.component # r.component /\ s.of # r.of
  BY <1>1 DEF RecordersOK
<1>6. clip' = [clip EXCEPT !.recorders = R, !.chunks = chunks, !.saved = saved, !.recording = recording]
  BY <1>1 DEF Stopped, ClipRec
<1>7. \A s \in R : chunks[s.component] = clip.chunks[s.component]
  BY <1>2, <1>5 DEF RecorderRec
<1> HIDE DEF chunks, saved, recording
<1>8. clip' \in ClipRec
  <2> HIDE DEF R
  <2> QED
    BY <1>1, <1>4, <1>6 DEF ClipRec
<1>9. /\ clip'.recorders = R /\ clip'.component = clip.component /\ clip'.recording = recording
      /\ clip'.chunks = chunks /\ clip'.made = clip.made /\ clip'.saved = saved
  BY <1>1, <1>6 DEF ClipRec
<1>10. RecordersOK(clip')
  <2>1. recording <=> \E s \in R : s.component = clip.component
    BY <1>1, <1>5 DEF RecordersOK, recording
  <2>2. ASSUME NEW s \in R
        PROVE  /\ s.of \in 1..Len(clip.made) /\ s.component <= clip.component
               /\ Range(chunks[s.component]) \subseteq {s.of}
               /\ Len(chunks[s.component]) = clip.made[s.of]
    BY <1>1, <1>7, <2>2 DEF RecordersOK, Whole
  <2>3. \A s, t \in R : s.component = t.component \/ s.of = t.of => s = t
    BY <1>1 DEF RecordersOK
  <2> HIDE DEF R
  <2>4. ASSUME NEW s \in R
        PROVE  /\ s.of \in 1..Len(clip'.made) /\ s.component <= clip'.component
               /\ Whole(clip', clip'.chunks[s.component], s.of)
    BY <1>9, <2>2 DEF Whole
  <2> QED
    BY <1>9, <2>1, <2>3, <2>4 DEF RecordersOK
<1>11. FilesOK(clip')
  <2> SUFFICES ASSUME NEW file \in saved
               PROVE  /\ file.of \in 1..Len(clip.made)
                      /\ Range(file.chunks) \subseteq {file.of} /\ Len(file.chunks) = clip.made[file.of]
                      /\ \A s \in R : s.of # file.of
    BY <1>9 DEF FilesOK, Whole
  <2>1. CASE file \in clip.saved
    BY <1>1, <2>1 DEF FilesOK, Whole
  <2>2. CASE file = new
    BY <1>3, <1>5, <2>2
  <2> QED
    BY <2>1, <2>2 DEF saved
<1> QED
  BY <1>8, <1>10, <1>11 DEF ClipOK

LEMMA ClipKeeps ==
  ASSUME ClipInv, ClipOn
  PROVE  ClipInv'
<1>1. CASE UNCHANGED clip
  BY <1>1 DEF ClipInv, ClipOK, RecordersOK, FilesOK, Whole
<1>2. CASE ClipNext
  <2>1. ClipOK(clip) /\ clip \in ClipRec /\ RecordersOK(clip)
    BY <1>2 DEF ClipInv, ClipOK, ClipNext
  <2> SUFFICES ClipOK(clip')
    BY DEF ClipInv, ClipOK, RecordersOK, FilesOK, Whole
  <2> DEFINE rs == Recorder("recording")
             on == clip.recording
             c0 == clip.component
  <2>2. /\ rs \in SUBSET clip.recorders /\ on \in BOOLEAN /\ c0 \in 1..2
        /\ on <=> \E r \in clip.recorders : r.component = c0
    BY <2>1 DEF Recorder, ClipRec, RecordersOK
  <2> HIDE DEF rs
  <2>3. ASSUME NEW qs \in SUBSET clip.recorders,
               clip' = [clip EXCEPT !.recorders = Becomes(qs, "stopping")]
        PROVE  ClipOK(clip')
    <3>1. clip'.component = c0 /\ clip'.recording = on
      BY <2>1, <2>3 DEF ClipRec
    <3>2. clip' = [clip EXCEPT !.component = clip'.component, !.recording = clip'.recording,
                               !.recorders = Becomes(qs, "stopping")]
      BY <2>1, <2>3, <3>1 DEF ClipRec
    <3>3. c0 >= c0
      BY <2>2
    <3> HIDE DEF on, c0
    <3> QED
      BY <2>1, <2>2, <3>1, <3>2, <3>3, StatesOnly DEF c0
  <2>4. CASE ClipRemount
    <3>1. clip' = [clip EXCEPT !.component = 2, !.recording = FALSE, !.recorders = Becomes(rs, "stopping")]
      BY <2>4 DEF ClipRemount, rs
    <3>2. clip'.component = 2 /\ clip'.recording = FALSE
      BY <2>1, <3>1 DEF ClipRec
    <3>3. c0 = 1 /\ \A r \in clip.recorders : r.component <= 1
      BY <2>1, <2>4 DEF ClipRemount, RecordersOK
    <3>4. ~\E r \in clip.recorders : r.component = 2
      BY <3>3
    <3>5. clip' = [clip EXCEPT !.component = clip'.component, !.recording = clip'.recording,
                               !.recorders = Becomes(rs, "stopping")]
      BY <3>1, <3>2
    <3>6. clip'.component \in 1..2 /\ clip'.component >= clip.component /\ clip'.recording \in BOOLEAN
      <4>1. clip'.component \in 1..2 /\ clip'.component >= clip.component
        BY <3>2, <3>3
      <4>2. clip'.recording \in BOOLEAN
        BY <3>2, Zenon
      <4> QED
        BY <4>1, <4>2
    <3>7. clip'.recording <=> \E r \in clip.recorders : r.component = clip'.component
      BY <3>2, <3>4
    <3> QED
      BY <2>1, <2>2, <3>5, <3>6, <3>7, StatesOnly
  <2>5. StopClip => ClipOK(clip')
    BY <2>2, <2>3 DEF StopClip, rs
  <2>6. \A r \in clip.recorders : RecorderEnds(r) => ClipOK(clip')
    BY <2>3 DEF RecorderEnds
  <2> QED
    BY <1>2, <2>1, <2>4, <2>5, <2>6, StartKeeps, DataKeeps, StoppedKeeps DEF ClipNext
<1> QED
  BY <1>1, <1>2 DEF ClipOn

(* What is fetched or recorded in pieces is whole in the end or tried      *)
(* again, however many panels come up, clips are recorded and pieces the   *)
(* browser gives (data/staticCatalogs.ts, ui/ClipRecorder.tsx).            *)
THEOREM PiecesMakeWhole == ScreenSpec => []LoadsWhole
<1>1. ScreenInit => CatalogInv /\ ClipInv
  BY PartsInit, ClipStarts DEF CatalogInit, CatalogOff, CatalogInv
<1>2. CatalogInv /\ ClipInv /\ [ScreenNext]_screenVars => CatalogInv' /\ ClipInv'
  BY PartsNext, CatalogKeeps, ClipKeeps
<1>3. CatalogInv /\ ClipInv => LoadsWhole
  <2>1. CatalogInv => CatalogsRetried
    BY DEF CatalogInv, CatalogsRetried
  <2>2. ClipInv => ClipIsOneRecording
    BY DEF ClipInv, ClipOK, FilesOK, Whole, ClipIsOneRecording
  <2> QED
    BY <2>1, <2>2 DEF LoadsWhole
<1> QED
  BY <1>1, <1>2, <1>3, PTL DEF ScreenSpec

-----------------------------------------------------------------------------
(* The dashboard *)

LEMMA BagWith ==
  ASSUME NEW B, \A f \in DOMAIN B : B[f] \in Nat /\ B[f] > 0, NEW x
  PROVE  /\ DOMAIN (B (+) SetToBag({x})) = DOMAIN B \cup {x}
         /\ \A f \in DOMAIN B : f # x => (B (+) SetToBag({x}))[f] = B[f]
         /\ (B (+) SetToBag({x}))[x] = IF x \in DOMAIN B THEN B[x] + 1 ELSE 1
BY DEF (+), SetToBag

LEMMA BagWithout ==
  ASSUME NEW B, \A f \in DOMAIN B : B[f] \in Nat /\ B[f] > 0, NEW x \in DOMAIN B
  PROVE  /\ DOMAIN (B (-) SetToBag({x})) = IF B[x] = 1 THEN DOMAIN B \ {x} ELSE DOMAIN B
         /\ \A f \in DOMAIN B : f # x => (B (-) SetToBag({x}))[f] = B[f]
         /\ B[x] # 1 => (B (-) SetToBag({x}))[x] = B[x] - 1
BY DEF (-), SetToBag

PageFields ==
  {"inline", "open", "tab", "server", "layer", "q", "timer", "ld", "pf", "profile", "detail",
   "results", "heat", "flights"}

Kinds == {"board", "profile", "layers", "match", "search"}

HeatRec(h) ==
  /\ DOMAIN h = {"server", "opts", "err"} /\ h.err \in BOOLEAN
  /\ h.opts = None \/ \E s \in Servers : h.opts = Offers[s]

PageRec(p) ==
  /\ DOMAIN p = PageFields
  /\ p.server \in Servers /\ p.ld \in BOOLEAN /\ p.pf \in BOOLEAN
  /\ p.heat # None => HeatRec(p.heat)
  /\ \A f \in DOMAIN p.flights :
       f[1] \in Kinds /\ f = <<f[1], f[2]>> /\ p.flights[f] \in Nat /\ p.flights[f] > 0

Requests(p, kind) == {f \in DOMAIN p.flights : f[1] = kind}

SpinnerOK(p) == p.ld => Requests(p, "board") # {}

(* One profile at a time is asked for, of the player clicked last. *)
ProfileOK(p, who) ==
  /\ p.profile \in {None, who}
  /\ p.pf => p.profile = None
  /\ p.pf <=> Requests(p, "profile") # {}
  /\ \A f \in Requests(p, "profile") : f[2] = who /\ p.flights[f] = 1

(* The layers asked for are those of the server chosen, as seen from the   *)
(* layer chosen; with no answer missing the layer is one of them.          *)
LayersOK(p) ==
  /\ \A f \in Requests(p, "layers") : f[2] = [server |-> p.server, layer |-> p.layer]
  /\ ~p.heat.err /\ Requests(p, "layers") = {} =>
       /\ p.heat.opts = Offers[p.server]
       /\ p.heat.opts # << >> => p.layer \in Range(p.heat.opts)

(* Before the effects of a render run, and after. *)
Heated(p) == p.pf \/ p.heat = None \/ p.heat.server # p.server \/ LayersOK(p)
Rendered(p) == p.ld \/ Heated(p)
HeatOK(p) ==
  /\ p.heat # None <=> HeatTabShown(p)
  /\ p.heat # None => p.heat.server = p.server /\ LayersOK(p)
  /\ Requests(p, "layers") # {} => p.heat # None

Touched(p, who) == PageRec(p) /\ SpinnerOK(p) /\ ProfileOK(p, who) /\ Rendered(p)
PageOK(p, who) == PageRec(p) /\ SpinnerOK(p) /\ ProfileOK(p, who) /\ HeatOK(p)
PageInv == page # None => PageOK(page, clicked)

(* What asking does: q is p with one more request under way. *)
Asks(p, q, kind, of) ==
  /\ PageRec(q)
  /\ q = [p EXCEPT !.flights = q.flights]
  /\ Requests(q, kind) = Requests(p, kind) \cup {<<kind, of>>}
  /\ Requests(p, kind) = {} => q.flights[<<kind, of>>] = 1
  /\ \A k : k # kind => /\ Requests(q, k) = Requests(p, k)
                        /\ \A f \in Requests(p, k) : q.flights[f] = p.flights[f]

LEMMA AskIs ==
  ASSUME NEW p, PageRec(p), NEW kind \in Kinds, NEW of
  PROVE  Asks(p, Ask(p, kind, of), kind, of)
<1> DEFINE x == <<kind, of>>
           F == p.flights (+) SetToBag({x})
           q == [p EXCEPT !.flights = F]
<1>1. Ask(p, kind, of) = q
  BY DEF Ask
<1>2. /\ DOMAIN F = DOMAIN p.flights \cup {x}
      /\ \A f \in DOMAIN p.flights : f # x => F[f] = p.flights[f]
      /\ F[x] = IF x \in DOMAIN p.flights THEN p.flights[x] + 1 ELSE 1
  BY BagWith DEF PageRec
<1>3. x[1] = kind
  OBVIOUS
<1> HIDE DEF F, x
<1>4. DOMAIN q = PageFields /\ q.flights = F
  BY DEF PageRec, PageFields
<1>5. \A f \in DOMAIN F : f[1] \in Kinds /\ f = <<f[1], f[2]>> /\ F[f] \in Nat /\ F[f] > 0
  <2>1. x = <<x[1], x[2]>>
    BY DEF x
  <2> QED
    BY <1>2, <1>3, <2>1 DEF PageRec
<1>6. PageRec(q)
  BY <1>4, <1>5 DEF PageRec, PageFields
<1>7. q = [p EXCEPT !.flights = q.flights]
  BY <1>4
<1> HIDE DEF q
<1>8. Requests(q, kind) = Requests(p, kind) \cup {x}
  BY <1>2, <1>3, <1>4 DEF Requests
<1>9. Requests(p, kind) = {} => q.flights[x] = 1
  BY <1>2, <1>3, <1>4 DEF Requests
<1>10. \A k : k # kind => /\ Requests(q, k) = Requests(p, k)
                          /\ \A f \in Requests(p, k) : q.flights[f] = p.flights[f]
  BY <1>2, <1>3, <1>4 DEF Requests
<1> QED
  BY <1>1, <1>6, <1>7, <1>8, <1>9, <1>10 DEF Asks, x

LEMMA DiscardIs ==
  ASSUME NEW p, PageRec(p), NEW kind
  PROVE  /\ PageRec(Discard(p, kind))
         /\ Discard(p, kind) = [p EXCEPT !.flights = Discard(p, kind).flights]
         /\ Requests(Discard(p, kind), kind) = {}
         /\ \A k : k # kind => /\ Requests(Discard(p, kind), k) = Requests(p, k)
                               /\ \A f \in Requests(p, k) : Discard(p, kind).flights[f] = p.flights[f]
<1> DEFINE F == [f \in {g \in DOMAIN p.flights : g[1] # kind} |-> p.flights[f]]
           q == [p EXCEPT !.flights = F]
<1>1. Discard(p, kind) = q
  BY DEF Discard, BagToSet
<1>2. /\ DOMAIN F = {g \in DOMAIN p.flights : g[1] # kind}
      /\ \A f \in DOMAIN F : F[f] = p.flights[f]
  OBVIOUS
<1> HIDE DEF F
<1>3. DOMAIN q = PageFields /\ q.flights = F
  BY DEF PageRec, PageFields
<1>4. PageRec(q)
  BY <1>2, <1>3 DEF PageRec, PageFields
<1> HIDE DEF q
<1> QED
  BY <1>1, <1>2, <1>3, <1>4 DEF Requests, q

LEMMA CommitKeeps ==
  ASSUME NEW p, NEW who, Touched(p, who)
  PROVE  PageOK(Commit(p), who)
<1> DEFINE away == [p EXCEPT !.heat = None]
           gone == Discard(p, "layers")
           opts == IF p.heat = None THEN None ELSE p.heat.opts
           err == p.heat # None /\ p.heat.err
           heat == [server |-> p.server, opts |-> opts, err |-> err]
           asked == [gone EXCEPT !.heat = heat]
           what == [server |-> p.server, layer |-> p.layer]
<1>1. PageRec(p) /\ SpinnerOK(p) /\ ProfileOK(p, who) /\ Rendered(p)
  BY DEF Touched
<1>2. CASE ~HeatTabShown(p)
  <2>1. Commit(p) = Discard(away, "layers")
    BY <1>2 DEF Commit
  <2>2. PageRec(away) /\ away.heat = None /\ \A k : Requests(away, k) = Requests(p, k)
    BY <1>1 DEF PageRec, PageFields, Requests
  <2>3. /\ away.ld = p.ld /\ away.pf = p.pf /\ away.profile = p.profile /\ away.tab = p.tab
        /\ away.detail = p.detail /\ away.results = p.results /\ away.flights = p.flights
    BY <1>1 DEF PageRec, PageFields
  <2> DEFINE q == Discard(away, "layers")
  <2> HIDE DEF q, away
  <2>4. /\ PageRec(q) /\ q = [away EXCEPT !.flights = q.flights] /\ Requests(q, "layers") = {}
        /\ \A k : k # "layers" => /\ Requests(q, k) = Requests(away, k)
                                  /\ \A f \in Requests(away, k) : q.flights[f] = away.flights[f]
    BY <2>2, DiscardIs DEF q
  <2>5. /\ q.ld = p.ld /\ q.pf = p.pf /\ q.profile = p.profile /\ q.tab = p.tab
        /\ q.detail = p.detail /\ q.results = p.results /\ q.heat = None
    BY <2>2, <2>3, <2>4 DEF PageRec, PageFields
  <2>6. SpinnerOK(q) /\ ProfileOK(q, who)
    BY <1>1, <2>2, <2>3, <2>4, <2>5 DEF SpinnerOK, ProfileOK
  <2>7. HeatOK(q)
    BY <1>2, <2>4, <2>5 DEF HeatOK, HeatTabShown, Landing
  <2> QED
    BY <2>1, <2>4, <2>6, <2>7 DEF PageOK, q
<1>3. CASE HeatTabShown(p) /\ p.heat # None /\ p.heat.server = p.server
  <2>1. Commit(p) = p
    BY <1>3 DEF Commit
  <2> QED
    BY <1>1, <1>3, <2>1 DEF PageOK, HeatOK, Rendered, Heated, HeatTabShown, Landing
<1>4. CASE HeatTabShown(p) /\ ~(p.heat # None /\ p.heat.server = p.server)
  <2>1. Commit(p) = Ask(asked, "layers", what)
    BY <1>4 DEF Commit
  <2>2. /\ PageRec(gone) /\ gone = [p EXCEPT !.flights = gone.flights] /\ Requests(gone, "layers") = {}
        /\ \A k : k # "layers" => /\ Requests(gone, k) = Requests(p, k)
                                  /\ \A f \in Requests(p, k) : gone.flights[f] = p.flights[f]
    BY <1>1, DiscardIs
  <2>3. HeatRec(heat) /\ heat.server = p.server
    BY <1>1 DEF PageRec, HeatRec
  <2> HIDE DEF gone, heat
  <2>4. /\ gone.ld = p.ld /\ gone.pf = p.pf /\ gone.profile = p.profile /\ gone.tab = p.tab
        /\ gone.detail = p.detail /\ gone.results = p.results /\ gone.server = p.server
        /\ gone.layer = p.layer
    BY <1>1, <2>2 DEF PageRec, PageFields
  <2>5. /\ asked.ld = p.ld /\ asked.pf = p.pf /\ asked.profile = p.profile /\ asked.tab = p.tab
        /\ asked.detail = p.detail /\ asked.results = p.results /\ asked.server = p.server
        /\ asked.layer = p.layer /\ asked.heat = heat /\ asked.flights = gone.flights
        /\ DOMAIN asked = PageFields
    BY <2>2, <2>4 DEF PageRec, PageFields
  <2> HIDE DEF asked
  <2>6. PageRec(asked)
    BY <2>2, <2>3, <2>4, <2>5 DEF PageRec
  <2>7. \A k : Requests(asked, k) = Requests(gone, k)
    BY <2>5 DEF Requests
  <2> DEFINE q == Ask(asked, "layers", what)
  <2> HIDE DEF q, what
  <2>8. Asks(asked, q, "layers", what)
    BY <2>6, AskIs DEF q, Kinds
  <2>9. /\ q.ld = p.ld /\ q.pf = p.pf /\ q.profile = p.profile /\ q.tab = p.tab
        /\ q.detail = p.detail /\ q.results = p.results /\ q.server = p.server
        /\ q.layer = p.layer /\ q.heat = heat
    BY <2>5, <2>8 DEF Asks, PageFields
  <2>10. SpinnerOK(q) /\ ProfileOK(q, who)
    BY <1>1, <2>2, <2>5, <2>7, <2>8, <2>9 DEF Asks, SpinnerOK, ProfileOK
  <2>11. HeatOK(q)
    <3>1. Requests(q, "layers") = {<<"layers", what>>}
      BY <2>2, <2>7, <2>8 DEF Asks
    <3>2. HeatTabShown(q)
      BY <1>4, <2>9 DEF HeatTabShown, Landing
    <3>3. heat # None
      <4>1. /\ p.server \in Servers /\ err \in BOOLEAN
            /\ opts = None \/ \E s \in Servers : opts = Offers[s]
        BY <1>1 DEF PageRec, HeatRec
      <4>2. opts \in {None} \cup Range(Offers)
        BY <4>1 DEF Range, Servers
      <4> HIDE DEF opts, err
      <4>3. heat \in [server : Servers, opts : {None} \cup Range(Offers), err : BOOLEAN]
        BY <4>1, <4>2 DEF heat
      <4> QED
        BY <4>3, OffersAssumption
    <3>4. LayersOK(q)
      <4>1. \A f \in Requests(q, "layers") : f[2] = what
        BY <3>1
      <4> QED
        BY <2>9, <3>1, <4>1 DEF LayersOK, what
    <3> QED
      BY <2>3, <2>9, <3>2, <3>3, <3>4 DEF HeatOK
  <2> QED
    BY <2>1, <2>8, <2>10, <2>11 DEF PageOK, Asks, q, what
<1> QED
  BY <1>2, <1>3, <1>4

(* A board may be asked for from here; and what no handler but a few       *)
(* touches.                                                                *)
Calm(p, who) == PageRec(p) /\ ProfileOK(p, who) /\ Heated(p)

Minor(p, q) ==
  /\ DOMAIN q = PageFields /\ q.server = p.server /\ q.layer = p.layer /\ q.heat = p.heat
  /\ q.ld = p.ld /\ q.pf = p.pf /\ q.profile = p.profile /\ q.flights = p.flights

LEMMA PageIsReady ==
  ASSUME NEW p, NEW who, PageOK(p, who)
  PROVE  Touched(p, who) /\ Calm(p, who)
BY DEF PageOK, Touched, Calm, HeatOK, Rendered, Heated

LEMMA MinorKeeps ==
  ASSUME NEW p, NEW q, NEW who, Minor(p, q)
  PROVE  /\ PageRec(p) => PageRec(q)
         /\ Touched(p, who) => Touched(q, who)
         /\ Calm(p, who) => Calm(q, who)
<1>1. \A k : Requests(q, k) = Requests(p, k)
  BY DEF Minor, Requests
<1>2. PageRec(p) => PageRec(q)
  BY DEF Minor, PageRec
<1>3. SpinnerOK(p) => SpinnerOK(q)
  BY <1>1 DEF Minor, SpinnerOK
<1>4. ProfileOK(p, who) => ProfileOK(q, who)
  BY <1>1 DEF Minor, ProfileOK
<1>5. Heated(p) => Heated(q)
  BY <1>1 DEF Minor, Heated, LayersOK
<1>6. Rendered(p) => Rendered(q)
  BY <1>5 DEF Minor, Rendered
<1> QED
  BY <1>2, <1>3, <1>4, <1>5, <1>6 DEF Touched, Calm

(* Loading a board leaves the profile and the heat map alone. *)
Loaded(p, q) ==
  /\ PageRec(q) /\ SpinnerOK(q)
  /\ q.server = p.server /\ q.layer = p.layer /\ q.heat = p.heat
  /\ q.pf = p.pf /\ q.profile = p.profile
  /\ \A k : k # "board" => /\ Requests(q, k) = Requests(p, k)
                           /\ \A f \in Requests(p, k) : q.flights[f] = p.flights[f]

LEMMA LoadTabIs ==
  ASSUME NEW p, PageRec(p), NEW tab, NEW layer
  PROVE  /\ Loaded(p, LoadTab(p, tab, layer))
         /\ layer # None => LoadTab(p, tab, layer).ld = TRUE
<1> DEFINE q == LoadTab(p, tab, layer)
<1> HIDE DEF q
<1>1. CASE tab = "heatmap" /\ layer = None
  <2>1. q = [p EXCEPT !.ld = FALSE]
    BY <1>1 DEF q, LoadTab
  <2>2. /\ DOMAIN q = PageFields /\ q.server = p.server /\ q.layer = p.layer /\ q.heat = p.heat
        /\ q.ld = FALSE /\ q.pf = p.pf /\ q.profile = p.profile /\ q.flights = p.flights
    BY <2>1 DEF PageRec, PageFields
  <2>3. PageRec(q) /\ SpinnerOK(q)
    BY <2>2 DEF PageRec, SpinnerOK
  <2> QED
    BY <1>1, <2>2, <2>3 DEF Loaded, Requests, q
<1>2. CASE ~(tab = "heatmap" /\ layer = None)
  <2> DEFINE a == [p EXCEPT !.ld = TRUE]
  <2>1. q = Ask(a, "board", tab)
    BY <1>2 DEF q, LoadTab
  <2>2. /\ DOMAIN a = PageFields /\ a.server = p.server /\ a.layer = p.layer /\ a.heat = p.heat
        /\ a.ld = TRUE /\ a.pf = p.pf /\ a.profile = p.profile /\ a.flights = p.flights
    BY DEF PageRec, PageFields
  <2> HIDE DEF a
  <2>3. PageRec(a) /\ \A k : Requests(a, k) = Requests(p, k)
    BY <2>2 DEF PageRec, Requests
  <2>4. Asks(a, q, "board", tab)
    BY <2>1, <2>3, AskIs DEF Kinds
  <2>5. /\ q.server = p.server /\ q.layer = p.layer /\ q.heat = p.heat
        /\ q.ld = TRUE /\ q.pf = p.pf /\ q.profile = p.profile
    BY <2>2, <2>4 DEF Asks, PageFields
  <2> QED
    BY <2>2, <2>3, <2>4, <2>5 DEF Asks, Loaded, SpinnerOK, q
<1> QED
  BY <1>1, <1>2

LEMMA LoadedKeeps ==
  ASSUME NEW p, NEW q, NEW who, Calm(p, who), Loaded(p, q)
  PROVE  Touched(q, who)
<1>1. ProfileOK(q, who)
  BY DEF Calm, Loaded, ProfileOK
<1>2. Heated(q)
  BY DEF Calm, Loaded, Heated, LayersOK
<1> QED
  BY <1>1, <1>2 DEF Loaded, Touched, Rendered

(* Picking a layer loads its board; the tab gives way to the spinner.      *)
LEMMA PickLayerIsReady ==
  ASSUME NEW p, NEW who, PageRec(p), ProfileOK(p, who), NEW layer, layer # None
  PROVE  Touched(PickLayer(p, layer), who)
<1> DEFINE a == [p EXCEPT !.layer = layer]
           q == LoadTab(a, "heatmap", layer)
<1>1. PickLayer(p, layer) = q
  BY DEF PickLayer
<1>2. /\ DOMAIN a = PageFields /\ a.server = p.server /\ a.heat = p.heat
      /\ a.ld = p.ld /\ a.pf = p.pf /\ a.profile = p.profile /\ a.flights = p.flights
  BY DEF PageRec, PageFields
<1> HIDE DEF a
<1>3. PageRec(a) /\ ProfileOK(a, who)
  BY <1>2 DEF PageRec, ProfileOK, Requests
<1>4. Loaded(a, q) /\ q.ld = TRUE
  BY <1>3, LoadTabIs
<1> HIDE DEF q
<1>5. ProfileOK(q, who)
  BY <1>3, <1>4 DEF Loaded, ProfileOK
<1> QED
  BY <1>1, <1>4, <1>5 DEF Loaded, Touched, Rendered

LEMMA AskProfileIsReady ==
  ASSUME NEW p, PageRec(p), SpinnerOK(p), Requests(p, "profile") = {}, NEW who
  PROVE  Touched(AskProfile(p, who), who)
<1> DEFINE a == [p EXCEPT !.pf = TRUE, !.profile = None]
           q == AskProfile(p, who)
<1> HIDE DEF q
<1>1. q = Ask(a, "profile", who)
  BY DEF q, AskProfile
<1>2. /\ DOMAIN a = PageFields /\ a.server = p.server /\ a.layer = p.layer /\ a.heat = p.heat
      /\ a.ld = p.ld /\ a.pf = TRUE /\ a.profile = None /\ a.flights = p.flights
  BY DEF PageRec, PageFields
<1> HIDE DEF a
<1>3. PageRec(a) /\ \A k : Requests(a, k) = Requests(p, k)
  BY <1>2 DEF PageRec, Requests
<1>4. Asks(a, q, "profile", who)
  BY <1>1, <1>3, AskIs DEF Kinds
<1>5. q.ld = p.ld /\ q.pf = TRUE /\ q.profile = None
  BY <1>2, <1>4 DEF Asks, PageFields
<1>6. SpinnerOK(q)
  BY <1>3, <1>4, <1>5 DEF Asks, SpinnerOK
<1>7. ProfileOK(q, who)
  <2>1. Requests(q, "profile") = {<<"profile", who>>} /\ q.flights[<<"profile", who>>] = 1
    BY <1>3, <1>4 DEF Asks
  <2> QED
    BY <1>5, <2>1 DEF ProfileOK
<1> QED
  BY <1>4, <1>5, <1>6, <1>7 DEF Asks, Touched, Rendered, Heated, q

LEMMA SearchIsMinor ==
  ASSUME NEW p, PageRec(p)
  PROVE  Minor(p, SearchEffect(p))
BY DEF PageRec, PageFields, SearchEffect, Minor

LEMMA DoesKeeps ==
  ASSUME NEW next, Does(next), Touched(next, clicked')
  PROVE  PageInv'
<1>1. PageOK(page', clicked')
  BY CommitKeeps DEF Does
<1> QED
  BY <1>1 DEF PageInv, PageOK, PageRec, SpinnerOK, ProfileOK, HeatOK, HeatRec, LayersOK, Requests,
              HeatTabShown, Landing, Servers

LEMMA PageStarts ==
  ASSUME PageInit \/ PageOff
  PROVE  PageInv
<1>1. CASE PageOff
  BY <1>1 DEF PageOff, PageInv
<1>2. CASE PageInit
  <2>1. PICK inline \in BOOLEAN, tab \in Tabs, server \in Servers :
          page = Commit(IF inline THEN LoadTab(Mounted(inline, tab, server), tab, None)
                        ELSE Mounted(inline, tab, server))
    BY <1>2 DEF PageInit
  <2> DEFINE p == Mounted(inline, tab, server)
  <2>2. /\ DOMAIN p = PageFields /\ p.server = server /\ p.ld = FALSE /\ p.pf = FALSE
        /\ p.profile = None /\ p.heat = None /\ DOMAIN p.flights = {}
    BY DEF Mounted, PageFields, EmptyBag, SetToBag
  <2>3. page = Commit(IF inline THEN LoadTab(p, tab, None) ELSE p)
    BY <2>1
  <2> HIDE DEF p
  <2>4. \A k : Requests(p, k) = {}
    BY <2>2 DEF Requests
  <2>5. PageRec(p)
    BY <2>2 DEF PageRec
  <2>6. Touched(p, clicked) /\ Calm(p, clicked)
    BY <2>2, <2>4, <2>5 DEF Touched, Calm, SpinnerOK, ProfileOK, Rendered, Heated
  <2>7. Touched(LoadTab(p, tab, None), clicked)
    BY <2>5, <2>6, LoadTabIs, LoadedKeeps
  <2> QED
    BY <2>3, <2>6, <2>7, CommitKeeps DEF PageInv
<1> QED
  BY <1>1, <1>2

(* The player clicked stays the one whose profile is asked for or shown.   *)
LEMMA TabKeeps ==
  ASSUME NEW p, NEW q, NEW who, PageOK(p, who), Minor(p, q), NEW tab, NEW layer
  PROVE  Touched(LoadTab(q, tab, layer), who)
<1>1. PageRec(p) /\ Calm(p, who)
  BY PageIsReady DEF PageOK
<1>2. PageRec(q) /\ Calm(q, who)
  BY <1>1, MinorKeeps
<1> QED
  BY <1>2, LoadTabIs, LoadedKeeps

LEMMA VisitorKeeps ==
  ASSUME NEW next, Visitor(next), Touched(next, clicked)
  PROVE  PageInv'
<1>1. Does(next) /\ clicked' = clicked
  BY DEF Visitor
<1> QED
  BY <1>1, DoesKeeps

LEMMA PickTabKeeps ==
  ASSUME PageOK(page, clicked), NEW tab \in Tabs, PickTab(tab)
  PROVE  PageInv'
<1> DEFINE q == [page EXCEPT !.tab = tab]
<1>1. Visitor(LoadTab(q, tab, page.layer))
  BY DEF PickTab
<1>2. Minor(page, q)
  BY DEF PageOK, PageRec, PageFields, Minor
<1> HIDE DEF q
<1>3. Touched(LoadTab(q, tab, page.layer), clicked)
  BY <1>2, TabKeeps
<1> QED
  BY <1>1, <1>3, VisitorKeeps

LEMMA PickPeriodKeeps ==
  ASSUME PageOK(page, clicked), PickPeriod
  PROVE  PageInv'
<1>1. Visitor(LoadTab(page, page.tab, page.layer))
  BY DEF PickPeriod
<1>2. Minor(page, page)
  BY DEF PageOK, PageRec, Minor
<1>3. Touched(LoadTab(page, page.tab, page.layer), clicked)
  BY <1>2, TabKeeps
<1> QED
  BY <1>1, <1>3, VisitorKeeps

LEMMA ChooseLayerKeeps ==
  ASSUME PageOK(page, clicked), NEW layer, ChooseLayer(layer)
  PROVE  PageInv'
<1>1. /\ HeatTabShown(page) /\ page.heat.opts # None /\ layer \in Range(page.heat.opts)
      /\ Visitor(PickLayer(page, layer))
  BY DEF ChooseLayer
<1>2. PICK s \in Servers : page.heat.opts = Offers[s]
  BY <1>1 DEF PageOK, HeatOK, PageRec, HeatRec
<1>3. layer # None
  BY <1>1, <1>2, OffersAssumption
<1>4. Touched(PickLayer(page, layer), clicked)
  BY <1>3, PickLayerIsReady DEF PageOK
<1> QED
  BY <1>1, <1>4, VisitorKeeps

LEMMA PickServerKeeps ==
  ASSUME PageOK(page, clicked), NEW server \in Servers, PickServer(server)
  PROVE  PageInv'
<1> DEFINE a == [page EXCEPT !.server = server]
           p == LoadTab(a, page.tab, page.layer)
           q == IF page.profile # None THEN AskProfile(p, page.profile) ELSE p
<1>1. server # page.server /\ Visitor(SearchEffect(q))
  BY DEF PickServer
<1>2. PageRec(page) /\ ProfileOK(page, clicked) /\ HeatOK(page)
  BY DEF PageOK
<1>3. /\ DOMAIN a = PageFields /\ a.server = server /\ a.layer = page.layer /\ a.heat = page.heat
      /\ a.ld = page.ld /\ a.pf = page.pf /\ a.profile = page.profile /\ a.flights = page.flights
  BY <1>2 DEF PageRec, PageFields
<1> HIDE DEF a
<1>4. PageRec(a) /\ \A k : Requests(a, k) = Requests(page, k)
  BY <1>2, <1>3 DEF PageRec, Requests
<1>5. ProfileOK(a, clicked)
  BY <1>2, <1>3, <1>4 DEF ProfileOK
<1>6. Calm(a, clicked)
  BY <1>1, <1>2, <1>3, <1>4, <1>5 DEF Calm, Heated, HeatOK
<1>7. Loaded(a, p)
  BY <1>4, LoadTabIs
<1> HIDE DEF p
<1>8. Touched(q, clicked)
  <2>1. CASE page.profile # None
    <3>1. page.profile = clicked /\ Requests(p, "profile") = {}
      BY <1>2, <1>4, <1>7, <2>1 DEF ProfileOK, Loaded
    <3>2. Touched(AskProfile(p, clicked), clicked)
      BY <1>7, <3>1, AskProfileIsReady DEF Loaded
    <3> QED
      BY <2>1, <3>1, <3>2
  <2>2. CASE page.profile = None
    BY <1>6, <1>7, <2>2, LoadedKeeps
  <2> QED
    BY <2>1, <2>2
<1> HIDE DEF q
<1>9. Touched(SearchEffect(q), clicked)
  BY <1>8, SearchIsMinor, MinorKeeps DEF Touched
<1> QED
  BY <1>1, <1>9, VisitorKeeps

LEMMA OpenProfileKeeps ==
  ASSUME PageOK(page, clicked), NEW player, OpenProfile(player)
  PROVE  PageInv'
<1>1. PlayerRows(page) /\ clicked' = player /\ Does(AskProfile(page, player))
  BY DEF OpenProfile
<1>2. ~page.pf
  BY <1>1 DEF PlayerRows, Landing
<1>3. Requests(page, "profile") = {}
  BY <1>2 DEF PageOK, ProfileOK
<1>4. Touched(AskProfile(page, player), player)
  BY <1>3, AskProfileIsReady DEF PageOK
<1> QED
  BY <1>1, <1>4, DoesKeeps

LEMMA OpenMatchKeeps ==
  ASSUME PageOK(page, clicked), OpenMatch
  PROVE  PageInv'
<1> DEFINE q == Ask(page, "match", "m")
<1>1. Visitor(q)
  BY DEF OpenMatch
<1>2. PageRec(page) /\ Touched(page, clicked)
  BY PageIsReady DEF PageOK
<1>3. Asks(page, q, "match", "m")
  BY <1>2, AskIs DEF Kinds
<1> HIDE DEF q
<1>4. Touched(q, clicked)
  <2>1. /\ q.server = page.server /\ q.layer = page.layer /\ q.heat = page.heat
        /\ q.ld = page.ld /\ q.pf = page.pf /\ q.profile = page.profile
    BY <1>2, <1>3 DEF Asks, PageRec, PageFields
  <2>2. SpinnerOK(q)
    BY <1>2, <1>3, <2>1 DEF Asks, Touched, SpinnerOK
  <2>3. ProfileOK(q, clicked)
    BY <1>2, <1>3, <2>1 DEF Asks, Touched, ProfileOK
  <2>4. Rendered(q)
    BY <1>2, <1>3, <2>1 DEF Asks, Touched, Rendered, Heated, LayersOK
  <2> QED
    BY <1>3, <2>2, <2>3, <2>4 DEF Asks, Touched
<1> QED
  BY <1>1, <1>4, VisitorKeeps

(* Leaving a profile. *)
LEMMA LeaveProfile ==
  ASSUME NEW p, NEW who, PageOK(p, who), NEW q,
         /\ DOMAIN q = PageFields /\ q.server = p.server /\ q.layer = p.layer /\ q.heat = p.heat
         /\ q.ld = p.ld /\ q.pf = p.pf /\ q.profile = None /\ q.flights = p.flights
  PROVE  Touched(q, who) /\ Calm(q, who)
<1>1. PageRec(p) /\ ProfileOK(p, who) /\ SpinnerOK(p) /\ HeatOK(p)
  BY DEF PageOK
<1>2. \A k : Requests(q, k) = Requests(p, k)
  BY DEF Requests
<1>3. PageRec(q)
  BY <1>1 DEF PageRec
<1>4. SpinnerOK(q) /\ ProfileOK(q, who)
  BY <1>1, <1>2 DEF SpinnerOK, ProfileOK
<1>5. Heated(q)
  BY <1>1, <1>2 DEF Heated, HeatOK, LayersOK
<1> QED
  BY <1>3, <1>4, <1>5 DEF Touched, Calm, Rendered

LEMMA BackKeeps ==
  ASSUME PageOK(page, clicked), Back
  PROVE  PageInv'
<1>1. CASE Visitor([page EXCEPT !.profile = None])
  <2> DEFINE q == [page EXCEPT !.profile = None]
  <2>1. /\ DOMAIN q = PageFields /\ q.server = page.server /\ q.layer = page.layer /\ q.heat = page.heat
        /\ q.ld = page.ld /\ q.pf = page.pf /\ q.profile = None /\ q.flights = page.flights
    BY DEF PageOK, PageRec, PageFields
  <2>2. Visitor(q)
    BY <1>1
  <2> HIDE DEF q
  <2>3. Touched(q, clicked)
    BY <2>1, LeaveProfile
  <2> QED
    BY <2>2, <2>3, VisitorKeeps
<1>2. CASE Visitor([page EXCEPT !.detail = None])
  <2> DEFINE q == [page EXCEPT !.detail = None]
  <2>1. Minor(page, q)
    BY DEF PageOK, PageRec, PageFields, Minor
  <2>2. Visitor(q)
    BY <1>2
  <2> HIDE DEF q
  <2>3. Touched(q, clicked)
    BY <2>1, PageIsReady, MinorKeeps
  <2> QED
    BY <2>2, <2>3, VisitorKeeps
<1> QED
  BY <1>1, <1>2 DEF Back

LEMMA TypeSearchKeeps ==
  ASSUME PageOK(page, clicked), NEW text, TypeSearch(text)
  PROVE  PageInv'
<1> DEFINE a == [page EXCEPT !.q = text]
<1>1. Visitor(SearchEffect(a))
  BY DEF TypeSearch
<1>2. Minor(page, a)
  BY DEF PageOK, PageRec, PageFields, Minor
<1> HIDE DEF a
<1>3. Touched(a, clicked)
  BY <1>2, PageIsReady, MinorKeeps
<1>4. Touched(SearchEffect(a), clicked)
  BY <1>3, SearchIsMinor, MinorKeeps DEF Touched
<1> QED
  BY <1>1, <1>4, VisitorKeeps

LEMMA CloseDialogKeeps ==
  ASSUME PageOK(page, clicked), CloseDialog
  PROVE  PageInv'
<1> DEFINE q == [page EXCEPT !.open = FALSE]
<1>1. Visitor(q)
  BY DEF CloseDialog
<1>2. Minor(page, q)
  BY DEF PageOK, PageRec, PageFields, Minor
<1> HIDE DEF q
<1>3. Touched(q, clicked)
  BY <1>2, PageIsReady, MinorKeeps
<1> QED
  BY <1>1, <1>3, VisitorKeeps

LEMMA OpenDialogKeeps ==
  ASSUME PageOK(page, clicked), OpenDialog
  PROVE  PageInv'
<1> DEFINE p == [page EXCEPT !.open = TRUE, !.profile = None, !.detail = None, !.q = None, !.results = None]
           q == SearchEffect(p)
<1>1. Does(LoadTab(q, page.tab, None)) /\ clicked' = clicked
  BY DEF OpenDialog
<1>2. /\ DOMAIN p = PageFields /\ p.server = page.server /\ p.layer = page.layer /\ p.heat = page.heat
      /\ p.ld = page.ld /\ p.pf = page.pf /\ p.profile = None /\ p.flights = page.flights
  BY DEF PageOK, PageRec, PageFields
<1> HIDE DEF p
<1>3. PageRec(p) /\ Calm(p, clicked)
  BY <1>2, LeaveProfile DEF Touched
<1>4. PageRec(q) /\ Calm(q, clicked)
  BY <1>3, SearchIsMinor, MinorKeeps
<1> HIDE DEF q
<1>5. Touched(LoadTab(q, page.tab, None), clicked)
  BY <1>4, LoadTabIs, LoadedKeeps
<1> QED
  BY <1>1, <1>5, DoesKeeps

(* A step that leaves the page rendered as it is. *)
LEMMA RenderedKeeps ==
  ASSUME PageOK(page', clicked')
  PROVE  PageInv'
BY DEF PageInv, PageOK, PageRec, SpinnerOK, ProfileOK, HeatOK, HeatRec, LayersOK, Requests,
       HeatTabShown, Landing, Servers

LEMMA TimerFiresKeeps ==
  ASSUME PageOK(page, clicked), TimerFires
  PROVE  PageInv'
<1> DEFINE a == [page EXCEPT !.timer = FALSE]
           q == Ask(a, "search", page.q)
<1>1. page' = q /\ clicked' = clicked
  BY DEF TimerFires
<1>2. PageRec(page) /\ SpinnerOK(page) /\ ProfileOK(page, clicked) /\ HeatOK(page)
  BY DEF PageOK
<1>3. /\ DOMAIN a = PageFields /\ a.server = page.server /\ a.layer = page.layer /\ a.heat = page.heat
      /\ a.ld = page.ld /\ a.pf = page.pf /\ a.profile = page.profile /\ a.flights = page.flights
      /\ a.tab = page.tab /\ a.detail = page.detail /\ a.results = page.results
  BY <1>2 DEF PageRec, PageFields
<1> HIDE DEF a
<1>4. PageRec(a) /\ \A k : Requests(a, k) = Requests(page, k)
  BY <1>2, <1>3 DEF PageRec, Requests
<1>5. Asks(a, q, "search", page.q)
  BY <1>4, AskIs DEF Kinds
<1> HIDE DEF q
<1>6. /\ q.server = page.server /\ q.layer = page.layer /\ q.heat = page.heat
      /\ q.ld = page.ld /\ q.pf = page.pf /\ q.profile = page.profile
      /\ q.tab = page.tab /\ q.detail = page.detail /\ q.results = page.results
  BY <1>3, <1>5 DEF Asks, PageFields
<1>7. SpinnerOK(q)
  BY <1>2, <1>4, <1>5, <1>6 DEF Asks, SpinnerOK
<1>8. ProfileOK(q, clicked)
  BY <1>2, <1>3, <1>4, <1>5, <1>6 DEF Asks, ProfileOK
<1>9. HeatOK(q)
  <2>1. Requests(q, "layers") = Requests(page, "layers")
    BY <1>4, <1>5 DEF Asks
  <2>2. HeatTabShown(q) <=> HeatTabShown(page)
    BY <1>6 DEF HeatTabShown, Landing
  <2>3. LayersOK(page) => LayersOK(q)
    BY <1>6, <2>1 DEF LayersOK
  <2> QED
    BY <1>2, <1>6, <2>1, <2>2, <2>3 DEF HeatOK
<1>10. PageOK(q, clicked)
  BY <1>5, <1>7, <1>8, <1>9 DEF Asks, PageOK
<1> QED
  BY <1>1, <1>10, RenderedKeeps

(* An answer is taken out of the requests before it is looked at.  It may  *)
(* have been the last of its kind.                                         *)
Took(p, q, f) ==
  /\ PageRec(q)
  /\ q = [p EXCEPT !.flights = q.flights]
  /\ q.server = p.server /\ q.layer = p.layer /\ q.heat = p.heat
  /\ q.ld = p.ld /\ q.pf = p.pf /\ q.profile = p.profile
  /\ \A k : k # f[1] => /\ Requests(q, k) = Requests(p, k)
                        /\ \A g \in Requests(p, k) : q.flights[g] = p.flights[g]
  /\ Requests(q, f[1]) \subseteq Requests(p, f[1])
  /\ p.flights[f] = 1 => f \notin Requests(q, f[1])

LEMMA TookIs ==
  ASSUME NEW p, PageRec(p), NEW f \in DOMAIN p.flights
  PROVE  Took(p, [p EXCEPT !.flights = @ (-) SetToBag({f})], f)
<1> DEFINE F == p.flights (-) SetToBag({f})
           q == [p EXCEPT !.flights = F]
<1>1. /\ DOMAIN F = IF p.flights[f] = 1 THEN DOMAIN p.flights \ {f} ELSE DOMAIN p.flights
      /\ \A g \in DOMAIN p.flights : g # f => F[g] = p.flights[g]
      /\ p.flights[f] # 1 => F[f] = p.flights[f] - 1
  BY BagWithout DEF PageRec
<1> HIDE DEF F
<1>2. /\ DOMAIN q = PageFields /\ q.flights = F
      /\ q.server = p.server /\ q.layer = p.layer /\ q.heat = p.heat
      /\ q.ld = p.ld /\ q.pf = p.pf /\ q.profile = p.profile
      /\ q = [p EXCEPT !.flights = q.flights]
  BY DEF PageRec, PageFields
<1> HIDE DEF q
<1>3. \A g \in DOMAIN F : g[1] \in Kinds /\ g = <<g[1], g[2]>> /\ F[g] \in Nat /\ F[g] > 0
  BY <1>1 DEF PageRec
<1>4. PageRec(q)
  BY <1>2, <1>3 DEF PageRec
<1>5. /\ \A k : k # f[1] => /\ Requests(q, k) = Requests(p, k)
                            /\ \A g \in Requests(p, k) : q.flights[g] = p.flights[g]
      /\ Requests(q, f[1]) \subseteq Requests(p, f[1])
      /\ p.flights[f] = 1 => f \notin Requests(q, f[1])
  BY <1>1, <1>2 DEF Requests
<1>6. Took(p, q, f)
  BY <1>2, <1>4, <1>5, Zenon DEF Took
<1> QED
  BY <1>6 DEF q, F

(* What an answer, or its failure, makes of the page is ready to render:   *)
(* one lemma for each kind of request.                                     *)
LEMMA BoardAnswered ==
  ASSUME NEW p, NEW who, PageOK(p, who), NEW f \in DOMAIN p.flights, NEW q, Took(p, q, f),
         f[1] = "board"
  PROVE  Touched([q EXCEPT !.ld = FALSE], who)
<1> DEFINE r == [q EXCEPT !.ld = FALSE]
<1>1. PageRec(p) /\ ProfileOK(p, who) /\ HeatOK(p)
  BY DEF PageOK
<1>2. /\ DOMAIN r = PageFields /\ r.server = q.server /\ r.layer = q.layer /\ r.heat = q.heat
      /\ r.ld = FALSE /\ r.pf = q.pf /\ r.profile = q.profile /\ r.flights = q.flights
  BY DEF Took, PageRec, PageFields
<1> HIDE DEF r
<1>3. PageRec(r) /\ \A k : Requests(r, k) = Requests(q, k)
  BY <1>2 DEF Took, PageRec, Requests
<1>4. /\ Requests(r, "profile") = Requests(p, "profile")
      /\ Requests(r, "layers") = Requests(p, "layers")
      /\ \A g \in Requests(p, "profile") : r.flights[g] = p.flights[g]
  BY <1>2, <1>3 DEF Took
<1>5. ProfileOK(r, who)
  BY <1>1, <1>2, <1>4 DEF Took, ProfileOK
<1>6. Heated(r)
  BY <1>1, <1>2, <1>4 DEF Took, Heated, HeatOK, LayersOK
<1> QED
  BY <1>2, <1>3, <1>5, <1>6 DEF Touched, SpinnerOK, Rendered, r

LEMMA ProfileAnswered ==
  ASSUME NEW p, NEW who, PageOK(p, who), NEW f \in DOMAIN p.flights, NEW q, Took(p, q, f),
         f[1] = "profile"
  PROVE  Touched([q EXCEPT !.pf = FALSE], who) /\ Touched([q EXCEPT !.pf = FALSE, !.profile = f[2]], who)
<1>1. PageRec(p) /\ SpinnerOK(p) /\ ProfileOK(p, who) /\ HeatOK(p)
  BY DEF PageOK
<1>2. f \in Requests(p, "profile")
  BY DEF Requests
<1>3. p.pf = TRUE /\ p.profile = None /\ f[2] = who /\ p.flights[f] = 1
  BY <1>1, <1>2 DEF ProfileOK, PageRec
<1>4. \A g \in Requests(p, "profile") : g = f
  BY <1>1, <1>2, <1>3 DEF ProfileOK, PageRec, Requests
<1>5. Requests(q, "profile") = {}
  BY <1>3, <1>4 DEF Took
<1>6. p.heat = None
  BY <1>1, <1>3 DEF HeatOK, HeatTabShown, Landing
<1>7. ASSUME NEW r, DOMAIN r = PageFields, r.server = q.server, r.layer = q.layer, r.heat = q.heat,
             r.ld = q.ld, r.pf = FALSE, r.profile \in {None, who}, r.flights = q.flights
      PROVE  Touched(r, who)
  <2>1. PageRec(r) /\ \A k : Requests(r, k) = Requests(q, k)
    BY <1>7 DEF Took, PageRec, Requests
  <2>2. SpinnerOK(r)
    BY <1>1, <1>7, <2>1 DEF Took, SpinnerOK
  <2>3. ProfileOK(r, who)
    BY <1>5, <1>7, <2>1 DEF ProfileOK
  <2>4. Heated(r)
    BY <1>6, <1>7 DEF Took, Heated
  <2> QED
    BY <2>1, <2>2, <2>3, <2>4 DEF Touched, Rendered
<1> DEFINE r1 == [q EXCEPT !.pf = FALSE]
           r2 == [q EXCEPT !.pf = FALSE, !.profile = f[2]]
<1>8. /\ DOMAIN r1 = PageFields /\ r1.server = q.server /\ r1.layer = q.layer /\ r1.heat = q.heat
      /\ r1.ld = q.ld /\ r1.pf = FALSE /\ r1.profile = q.profile /\ r1.flights = q.flights
  BY DEF Took, PageRec, PageFields
<1>9. /\ DOMAIN r2 = PageFields /\ r2.server = q.server /\ r2.layer = q.layer /\ r2.heat = q.heat
      /\ r2.ld = q.ld /\ r2.pf = FALSE /\ r2.profile = who /\ r2.flights = q.flights
  BY <1>3 DEF Took, PageRec, PageFields
<1>10. q.profile = None
  BY <1>3 DEF Took
<1> HIDE DEF r1, r2
<1>11. Touched(r1, who)
  BY <1>7, <1>8, <1>10
<1>12. Touched(r2, who)
  BY <1>7, <1>9
<1> QED
  BY <1>11, <1>12 DEF r1, r2

LEMMA OtherAnswered ==
  ASSUME NEW p, NEW who, PageOK(p, who), NEW f \in DOMAIN p.flights, NEW q, Took(p, q, f),
         f[1] \in {"match", "search"}
  PROVE  Touched(q, who)
<1>1. PageRec(p) /\ SpinnerOK(p) /\ ProfileOK(p, who) /\ HeatOK(p)
  BY DEF PageOK
<1>2. /\ \A k \in {"board", "profile", "layers"} : Requests(q, k) = Requests(p, k)
      /\ \A g \in Requests(p, "profile") : q.flights[g] = p.flights[g]
  BY DEF Took
<1>3. SpinnerOK(q)
  BY <1>1, <1>2 DEF Took, SpinnerOK
<1>4. ProfileOK(q, who)
  BY <1>1, <1>2 DEF Took, ProfileOK
<1>5. Heated(q)
  BY <1>1, <1>2 DEF Took, Heated, HeatOK, LayersOK
<1> QED
  BY <1>3, <1>4, <1>5 DEF Took, Touched, Rendered

LEMMA LayersAnswered ==
  ASSUME NEW p, NEW who, PageOK(p, who), NEW f \in DOMAIN p.flights, NEW q, Took(p, q, f),
         f[1] = "layers"
  PROVE  Touched(Layers(q, f[2]), who) /\ Touched([q EXCEPT !.heat.err = TRUE], who)
<1>1. PageRec(p) /\ SpinnerOK(p) /\ ProfileOK(p, who) /\ HeatOK(p)
  BY DEF PageOK
<1>2. f \in Requests(p, "layers")
  BY DEF Requests
<1>3. p.heat # None /\ p.heat.server = p.server /\ f[2] = [server |-> p.server, layer |-> p.layer]
  BY <1>1, <1>2 DEF HeatOK, LayersOK
<1>4. f[2].server = p.server /\ f[2].layer = p.layer
  BY <1>3
<1>5. p.server \in Servers /\ HeatRec(q.heat) /\ q.heat.server = q.server
  BY <1>1, <1>3 DEF PageRec, Took
<1>6. \A g \in Requests(q, "layers") : g[2] = [server |-> q.server, layer |-> q.layer]
  BY <1>1, <1>3 DEF Took, HeatOK, LayersOK
<1>7. /\ \A k \in {"board", "profile"} : Requests(q, k) = Requests(p, k)
      /\ \A g \in Requests(p, "profile") : q.flights[g] = p.flights[g]
  BY DEF Took
<1>8. SpinnerOK(q) /\ ProfileOK(q, who)
  BY <1>1, <1>7 DEF Took, SpinnerOK, ProfileOK
<1> DEFINE opts == Offers[p.server]
           a == [q EXCEPT !.heat.opts = opts]
           e == [q EXCEPT !.heat.err = TRUE]
<1>9. /\ DOMAIN a = PageFields /\ a.server = q.server /\ a.layer = q.layer
      /\ a.ld = q.ld /\ a.pf = q.pf /\ a.profile = q.profile /\ a.flights = q.flights
      /\ a.heat = [q.heat EXCEPT !.opts = opts]
  BY DEF Took, PageRec, PageFields
<1>10. /\ DOMAIN e = PageFields /\ e.server = q.server /\ e.layer = q.layer
       /\ e.ld = q.ld /\ e.pf = q.pf /\ e.profile = q.profile /\ e.flights = q.flights
       /\ e.heat = [q.heat EXCEPT !.err = TRUE]
  BY DEF Took, PageRec, PageFields
<1> HIDE DEF a, e
<1>11. HeatRec(a.heat) /\ a.heat.opts = opts /\ a.heat.server = q.server
  BY <1>5, <1>9 DEF HeatRec
<1>12. HeatRec(e.heat) /\ e.heat.err = TRUE /\ e.heat.server = q.server
  BY <1>5, <1>10 DEF HeatRec
<1>13. PageRec(a) /\ PageRec(e)
  BY <1>9, <1>10, <1>11, <1>12 DEF Took, PageRec
<1>14. \A k : Requests(a, k) = Requests(q, k) /\ Requests(e, k) = Requests(q, k)
  BY <1>9, <1>10 DEF Requests
<1>15. SpinnerOK(a) /\ ProfileOK(a, who) /\ SpinnerOK(e) /\ ProfileOK(e, who)
  BY <1>8, <1>9, <1>10, <1>14 DEF SpinnerOK, ProfileOK
<1>16. Touched(e, who)
  <2>1. LayersOK(e)
    BY <1>6, <1>10, <1>12, <1>14 DEF LayersOK
  <2> QED
    BY <1>13, <1>15, <2>1 DEF Touched, Rendered, Heated
<1>17. Touched(Layers(q, f[2]), who)
  <2>1. CASE opts # << >> /\ q.layer \notin Range(opts)
    <3>1. Layers(q, f[2]) = PickLayer(a, opts[1])
      BY <1>4, <2>1 DEF Layers, Took, a
    <3>2. opts \in Seq(Range(opts)) /\ None \notin Range(opts)
      BY <1>5, OffersAssumption
    <3>3. opts[1] # None
      BY <2>1, <3>2
    <3> QED
      BY <1>13, <1>15, <3>1, <3>3, PickLayerIsReady
  <2>2. CASE ~(opts # << >> /\ q.layer \notin Range(opts))
    <3>1. Layers(q, f[2]) = a
      BY <1>4, <2>2 DEF Layers, Took, a
    <3>2. LayersOK(a)
      BY <1>6, <1>9, <1>11, <1>14, <2>2 DEF LayersOK, Took
    <3> QED
      BY <1>13, <1>15, <3>1, <3>2 DEF Touched, Rendered, Heated
  <2> QED
    BY <2>1, <2>2
<1> QED
  BY <1>16, <1>17 DEF e

LEMMA AnswerKeeps ==
  ASSUME PageOK(page, clicked), Answer
  PROVE  PageInv'
<1>1. PageRec(page)
  BY DEF PageOK
<1>2. PICK f \in DOMAIN page.flights :
        LET q == [page EXCEPT !.flights = @ (-) SetToBag({f})]
        IN  /\ page' = Commit(Answered(q, f)) \/ page' = Commit(Failed(q, f))
            /\ UNCHANGED <<clicked, asks>>
  BY DEF Answer, BagToSet
<1> DEFINE q == [page EXCEPT !.flights = @ (-) SetToBag({f})]
<1>3. /\ page' = Commit(Answered(q, f)) \/ page' = Commit(Failed(q, f))
      /\ clicked' = clicked
  BY <1>2
<1>4. Took(page, q, f)
  BY <1>1, TookIs
<1>5. f[1] \in Kinds
  BY <1>1 DEF PageRec
<1> HIDE DEF q
<1>6. Touched(Answered(q, f), clicked) /\ Touched(Failed(q, f), clicked)
  <2>1. CASE f[1] = "board"
    <3>1. Answered(q, f) = [q EXCEPT !.ld = FALSE] /\ Failed(q, f) = [q EXCEPT !.ld = FALSE]
      BY <2>1 DEF Answered, Failed
    <3> QED
      BY <1>4, <2>1, <3>1, BoardAnswered
  <2>2. CASE f[1] = "profile"
    <3>1. /\ Answered(q, f) = [q EXCEPT !.pf = FALSE, !.profile = f[2]]
          /\ Failed(q, f) = [q EXCEPT !.pf = FALSE]
      BY <2>2 DEF Answered, Failed
    <3>2. /\ Touched([q EXCEPT !.pf = FALSE, !.profile = f[2]], clicked)
          /\ Touched([q EXCEPT !.pf = FALSE], clicked)
      BY <1>4, <2>2, ProfileAnswered
    <3> QED
      BY <3>1, <3>2, Zenon
  <2>3. CASE f[1] = "layers"
    <3>1. Answered(q, f) = Layers(q, f[2]) /\ Failed(q, f) = [q EXCEPT !.heat.err = TRUE]
      BY <2>3 DEF Answered, Failed
    <3> QED
      BY <1>4, <2>3, <3>1, LayersAnswered
  <2>4. CASE f[1] \in {"match", "search"}
    <3>1. Touched(q, clicked)
      BY <1>4, <2>4, OtherAnswered
    <3>2. Failed(q, f) = q
      BY <2>4 DEF Failed
    <3>3. Answered(q, f) \in {[q EXCEPT !.detail = f[2]], [q EXCEPT !.results = f[2]]}
      BY <2>4 DEF Answered
    <3>4. Minor(q, Answered(q, f))
      BY <1>4, <3>3 DEF Took, PageRec, PageFields, Minor
    <3> QED
      BY <3>1, <3>2, <3>4, MinorKeeps
  <2> QED
    BY <1>5, <2>1, <2>2, <2>3, <2>4 DEF Kinds
<1>7. PageOK(page', clicked')
  BY <1>3, <1>6, CommitKeeps
<1> QED
  BY <1>7, RenderedKeeps

LEMMA PageKeeps ==
  ASSUME PageInv, PageNext \/ UNCHANGED pageVars
  PROVE  PageInv'
<1>1. CASE UNCHANGED pageVars
  BY <1>1 DEF pageVars, PageInv, PageOK, PageRec, SpinnerOK, ProfileOK, HeatOK, HeatRec, LayersOK,
              Requests, HeatTabShown, Landing, Servers
<1>2. CASE PageNext
  <2>1. PageOK(page, clicked)
    BY <1>2 DEF PageNext, PageInv
  <2> QED
    BY <1>2, <2>1, PickTabKeeps, PickServerKeeps, ChooseLayerKeeps, OpenProfileKeeps, TypeSearchKeeps,
       PickPeriodKeeps, OpenMatchKeeps, BackKeeps, OpenDialogKeeps, CloseDialogKeeps,
       TimerFiresKeeps, AnswerKeeps
    DEF PageNext
<1> QED
  BY <1>1, <1>2

LEMMA PageShows ==
  ASSUME PageInv
  PROVE  PagesSettle
<1> SUFFICES ASSUME page # None
             PROVE  PagesSettle
  BY DEF PagesSettle, SpinnersEnd, HeatmapSettles, ProfileAsClicked
<1>1. PageOK(page, clicked)
  BY DEF PageInv
<1>2. \A kind : Waiting(page, kind) <=> Requests(page, kind) # {}
  BY DEF Waiting, Requests, BagToSet
<1>3. SpinnersEnd
  BY <1>1, <1>2 DEF SpinnersEnd, PageOK, SpinnerOK, ProfileOK
<1>4. HeatmapSettles
  BY <1>1, <1>2 DEF HeatmapSettles, PageOK, HeatOK, LayersOK
<1>5. ProfileAsClicked
  BY <1>1 DEF ProfileAsClicked, PageOK, ProfileOK
<1> QED
  BY <1>3, <1>4, <1>5 DEF PagesSettle

(* Whatever the visitor of the dashboard clicks while answers are under    *)
(* way, in whatever order they come and whichever fail: no spinner stays,  *)
(* the heat map offers the layers of the server chosen, and the profile is *)
(* that of the player clicked last.                                        *)
THEOREM DashboardSettles == ScreenSpec => []PagesSettle
<1>1. ScreenInit => PageInv
  BY PartsInit, PageStarts
<1>2. PageInv /\ [ScreenNext]_screenVars => PageInv'
  BY PartsNext, PageKeeps DEF PageOn
<1>3. PageInv => PagesSettle
  BY PageShows
<1> QED
  BY <1>1, <1>2, <1>3, PTL DEF ScreenSpec

-----------------------------------------------------------------------------
(* Strips and cards *)

HudInv ==
  match # << >> =>
    /\ match \in Recordings /\ at \in 1..Len(match)
    /\ result # None => \E k \in 1..Len(match) :
         match[k].phase = "InProgress" /\ match[k].tickets = result

LEMMA Ascending ==
  ASSUME HudInv, match # << >>
  PROVE  /\ Len(match) \in Nat /\ Len(match) > 0 /\ DOMAIN match = 1..Len(match)
         /\ \A i \in 1..Len(match) : match[i].ms \in Nat
         /\ \A i, j \in 1..Len(match) : i <= j => match[i].ms <= match[j].ms
<1>1. match \in Seq(Range(match)) /\ match \in Recordings
  BY RecordingsAssumption DEF HudInv
<1>2. Len(match) \in Nat /\ Len(match) > 0 /\ DOMAIN match = 1..Len(match)
  BY <1>1
<1>3. \A i, j \in 1..Len(match) : match[i].ms \in Nat /\ (i <= j => match[i].ms <= match[j].ms)
  BY <1>1, RecordingsAssumption
<1> QED
  BY <1>2, <1>3

(* A range of frames is a pair; the search ends on the first frame of its  *)
(* range that is not before ms, or on the last of the range.               *)
Ranges == (1..Len(match)) \X (1..Len(match))

First(r, ms, k) ==
  /\ k \in 1..Len(match) /\ r[1] <= k /\ k <= r[2]
  /\ k = r[2] \/ match[k].ms >= ms
  /\ \A j \in 1..Len(match) : r[1] <= j /\ j < k => match[j].ms < ms

Searches(step, ms) ==
  step = [r \in Ranges |-> IF r[1] >= r[2] THEN r[1] ELSE step[Narrowed(r, ms)]]

LEMMA Narrows ==
  ASSUME HudInv, match # << >>, NEW ms \in Int, NEW r \in Ranges, r[1] < r[2]
  PROVE  /\ Narrowed(r, ms) \in Ranges
         /\ Narrowed(r, ms)[1] <= Narrowed(r, ms)[2]
         /\ Narrowed(r, ms)[2] - Narrowed(r, ms)[1] < r[2] - r[1]
         /\ \A k : First(Narrowed(r, ms), ms, k) => First(r, ms, k)
<1> DEFINE n == Len(match)
           q == Narrowed(r, ms)
<1>1. n \in Nat /\ \A i \in 1..n : match[i].ms \in Nat
  BY Ascending
<1>2. \A i, j \in 1..n : i <= j => match[i].ms <= match[j].ms
  BY Ascending
<1>3. r = <<r[1], r[2]>> /\ r[1] \in 1..n /\ r[2] \in 1..n
  BY DEF Ranges
<1>4. PICK mid \in Int : mid = (r[1] + r[2]) \div 2 /\ r[1] <= mid /\ mid < r[2]
  <2> DEFINE m == (r[1] + r[2]) \div 2
  <2>1. m \in Int /\ r[1] <= m /\ m < r[2]
    BY <1>3
  <2> QED
    BY <2>1
<1>5. q = IF match[mid].ms < ms THEN <<mid + 1, r[2]>> ELSE <<r[1], mid>>
  BY <1>4 DEF Narrowed
<1>6. mid \in 1..n /\ mid + 1 \in 1..n /\ match[mid].ms \in Nat
  BY <1>1, <1>3, <1>4
<1> HIDE DEF q, n
<1>7. CASE match[mid].ms < ms
  <2>1. q = <<mid + 1, r[2]>> /\ q[1] = mid + 1 /\ q[2] = r[2]
    BY <1>5, <1>7
  <2>2. q \in Ranges
    BY <1>3, <1>6, <2>1 DEF Ranges, n
  <2>3. ASSUME NEW k, First(q, ms, k) PROVE First(r, ms, k)
    <3>1. k \in 1..n /\ mid + 1 <= k /\ k <= r[2] /\ (k = r[2] \/ match[k].ms >= ms)
      BY <2>1, <2>3 DEF First, n
    <3>2. ASSUME NEW j \in 1..n, r[1] <= j, j < k PROVE match[j].ms < ms
      <4>1. CASE j <= mid
        BY <1>1, <1>2, <1>6, <1>7, <3>2, <4>1
      <4>2. CASE ~(j <= mid)
        <5>1. mid + 1 <= j
          BY <1>6, <3>2, <4>2 DEF n
        <5> QED
          BY <2>1, <2>3, <3>2, <5>1 DEF First, n
      <4> QED
        BY <4>1, <4>2
    <3> QED
      BY <1>3, <1>4, <1>6, <3>1, <3>2 DEF First, n
  <2>4. q[1] <= q[2] /\ q[2] - q[1] < r[2] - r[1]
    BY <1>3, <1>4, <1>6, <2>1 DEF n
  <2> QED
    BY <2>2, <2>3, <2>4 DEF q
<1>8. CASE ~(match[mid].ms < ms)
  <2>1. q = <<r[1], mid>> /\ q[1] = r[1] /\ q[2] = mid
    BY <1>5, <1>8
  <2>2. q \in Ranges
    BY <1>3, <1>6, <2>1 DEF Ranges, n
  <2>3. ASSUME NEW k, First(q, ms, k) PROVE First(r, ms, k)
    <3>1. k \in 1..n /\ r[1] <= k /\ k <= mid /\ (k = mid \/ match[k].ms >= ms)
      BY <2>1, <2>3 DEF First, n
    <3>2. match[k].ms >= ms
      BY <1>6, <1>8, <3>1
    <3>3. \A j \in 1..n : r[1] <= j /\ j < k => match[j].ms < ms
      BY <2>1, <2>3 DEF First, n
    <3> QED
      BY <1>3, <1>4, <3>1, <3>2, <3>3 DEF First, n
  <2>4. q[1] <= q[2] /\ q[2] - q[1] < r[2] - r[1]
    BY <1>3, <1>4, <1>6, <2>1 DEF n
  <2> QED
    BY <2>2, <2>3, <2>4 DEF q
<1> QED
  BY <1>7, <1>8 DEF q

LEMMA FirstIsOne ==
  ASSUME HudInv, match # << >>, NEW ms \in Int, NEW r \in Ranges, r[1] <= r[2]
  PROVE  /\ \E k : First(r, ms, k)
         /\ \A k, m : First(r, ms, k) /\ First(r, ms, m) => k = m
<1> DEFINE n == Len(match)
<1>1. n \in Nat /\ \A i \in 1..n : match[i].ms \in Nat
  BY Ascending
<1>2. r[1] \in 1..n /\ r[2] \in 1..n
  BY DEF Ranges
<1> HIDE DEF n
<1>3. \E k : First(r, ms, k)
  <2> DEFINE T == {k \in 1..n : r[1] <= k /\ k <= r[2] /\ (k = r[2] \/ match[k].ms >= ms)}
  <2>1. T \in SUBSET Nat /\ r[2] \in T
    BY <1>1, <1>2
  <2>2. PICK m \in T : \A k \in T : m <= k
    BY <2>1, LeastNat
  <2>3. ASSUME NEW j \in 1..n, r[1] <= j, j < m PROVE match[j].ms < ms
    <3>1. j \notin T /\ j <= r[2] /\ match[j].ms \in Nat
      BY <1>1, <1>2, <2>2, <2>3
    <3> QED
      BY <2>3, <3>1
  <2>4. First(r, ms, m)
    BY <2>2, <2>3 DEF First, n
  <2> QED
    BY <2>4
<1>4. \A k, m \in 1..n : First(r, ms, k) /\ First(r, ms, m) => ~(k < m)
  BY <1>1, <1>2 DEF First, n
<1>5. ASSUME NEW k, NEW m, First(r, ms, k), First(r, ms, m) PROVE k = m
  <2>1. k \in 1..n /\ m \in 1..n
    BY <1>5 DEF First, n
  <2>2. ~(k < m) /\ ~(m < k)
    BY <1>4, <1>5, <2>1
  <2> QED
    BY <1>1, <2>1, <2>2
<1> QED
  BY <1>3, <1>5

(* There is a search: of a range it gives the first frame, as defined.     *)
LEMMA SearchEnds ==
  ASSUME HudInv, match # << >>, NEW ms \in Int
  PROVE  \E step : Searches(step, ms)
<1> DEFINE g == [r \in Ranges |-> IF r[1] >= r[2] THEN r[1] ELSE CHOOSE k : First(r, ms, k)]
<1>1. ASSUME NEW r \in Ranges, r[1] <= r[2]
      PROVE  First(r, ms, g[r])
  <2>1. r[1] \in 1..Len(match) /\ r[2] \in 1..Len(match) /\ Len(match) \in Nat
    BY Ascending DEF Ranges
  <2>2. CASE r[1] >= r[2]
    BY <1>1, <2>1, <2>2 DEF First
  <2>3. CASE ~(r[1] >= r[2])
    <3>1. \E k : First(r, ms, k)
      BY <1>1, FirstIsOne
    <3>2. First(r, ms, CHOOSE k : First(r, ms, k))
      BY <3>1, Zenon
    <3> QED
      BY <2>3, <3>2
  <2> QED
    BY <2>2, <2>3
<1>2. ASSUME NEW r \in Ranges, ~(r[1] >= r[2])
      PROVE  g[r] = g[Narrowed(r, ms)]
  <2>1. r[1] < r[2]
    BY <1>2, Ascending DEF Ranges
  <2>2. PICK q \in Ranges : q = Narrowed(r, ms)
    BY <2>1, Narrows
  <2>3. q[1] <= q[2] /\ \A k : First(q, ms, k) => First(r, ms, k)
    BY <2>1, <2>2, Narrows
  <2>4. First(q, ms, g[q]) /\ First(r, ms, g[r])
    BY <1>1, <2>1, <2>3, Ascending DEF Ranges
  <2> HIDE DEF g
  <2>5. First(r, ms, g[q])
    BY <2>3, <2>4
  <2>6. r[1] <= r[2]
    BY <2>1, Ascending DEF Ranges
  <2> QED
    BY <2>2, <2>4, <2>5, <2>6, FirstIsOne
<1>3. \A r \in Ranges : g[r] = IF r[1] >= r[2] THEN r[1] ELSE g[Narrowed(r, ms)]
  <2>1. \A r \in Ranges : r[1] >= r[2] => g[r] = r[1]
    OBVIOUS
  <2> HIDE DEF g
  <2> QED
    BY <1>2, <2>1
<1>4. Searches(g, ms)
  <2>1. g = [r \in Ranges |-> g[r]]
    OBVIOUS
  <2> HIDE DEF g
  <2> QED
    BY <1>3, <2>1 DEF Searches
<1> QED
  BY <1>4

(* Whatever satisfies the recursion finds the first frame: of the ranges   *)
(* on which it would not, one is the shortest, and it is narrowed.         *)
LEMMA SearchIs ==
  ASSUME HudInv, match # << >>, NEW ms \in Int, NEW step, Searches(step, ms),
         NEW r \in Ranges, r[1] <= r[2]
  PROVE  First(r, ms, step[r])
<1> DEFINE Bad == {q \in Ranges : q[1] <= q[2] /\ ~First(q, ms, step[q])}
           T == {q[2] - q[1] : q \in Bad}
<1> SUFFICES ASSUME Bad # {} PROVE FALSE
  OBVIOUS
<1>1. \A q \in Ranges : q[1] \in 1..Len(match) /\ q[2] \in 1..Len(match) /\ q[1] \in Nat /\ q[2] \in Nat
  BY Ascending DEF Ranges
<1>2. T \in SUBSET Nat /\ T # {}
  BY <1>1
<1>3. PICK m \in T : \A k \in T : m <= k
  BY <1>2, LeastNat
<1>4. PICK q \in Bad : m = q[2] - q[1]
  OBVIOUS
<1>5. q \in Ranges /\ q[1] <= q[2] /\ ~First(q, ms, step[q])
  OBVIOUS
<1>6. step[q] = IF q[1] >= q[2] THEN q[1] ELSE step[Narrowed(q, ms)]
  BY <1>5 DEF Searches
<1>7. CASE q[1] >= q[2]
  BY <1>1, <1>5, <1>6, <1>7 DEF First
<1>8. CASE ~(q[1] >= q[2])
  <2>1. q[1] < q[2]
    BY <1>1, <1>5, <1>8
  <2>2. PICK n \in Ranges : n = Narrowed(q, ms)
    BY <1>5, <2>1, Narrows
  <2>3. n[1] <= n[2] /\ n[2] - n[1] < q[2] - q[1] /\ \A k : First(n, ms, k) => First(q, ms, k)
    BY <1>5, <2>1, <2>2, Narrows
  <2>4. n \notin Bad
    <3> SUFFICES ASSUME n \in Bad PROVE FALSE
      OBVIOUS
    <3>1. PICK d \in T : d = n[2] - n[1]
      OBVIOUS
    <3>2. m <= d /\ m \in Int /\ d \in Int
      BY <1>2, <1>3, <3>1
    <3> QED
      BY <1>4, <2>3, <3>1, <3>2
  <2>5. First(n, ms, step[n])
    BY <2>3, <2>4
  <2> QED
    BY <1>5, <1>6, <1>8, <2>2, <2>3, <2>5
<1> QED
  BY <1>7, <1>8

LEMMA ClickFinds ==
  ASSUME HudInv, match # << >>, NEW ms \in Int
  PROVE  First(<<1, Len(match)>>, ms, FrameAtMs(ms))
<1> DEFINE step == CHOOSE s : s = [r \in (1..Len(match)) \X (1..Len(match)) |->
                                     IF r[1] >= r[2] THEN r[1] ELSE s[Narrowed(r, ms)]]
           all == <<1, Len(match)>>
<1>1. FrameAtMs(ms) = step[all]
  BY DEF FrameAtMs
<1>2. \E s : s = [r \in (1..Len(match)) \X (1..Len(match)) |->
                    IF r[1] >= r[2] THEN r[1] ELSE s[Narrowed(r, ms)]]
  BY SearchEnds DEF Searches, Ranges
<1>3. step = [r \in (1..Len(match)) \X (1..Len(match)) |->
               IF r[1] >= r[2] THEN r[1] ELSE step[Narrowed(r, ms)]]
  BY <1>2, Zenon
<1> HIDE DEF step
<1>4. Searches(step, ms)
  BY <1>3 DEF Searches, Ranges
<1>5. all \in Ranges /\ all[1] <= all[2]
  BY Ascending DEF Ranges
<1> HIDE DEF all
<1>6. First(all, ms, step[all])
  BY <1>4, <1>5, SearchIs
<1> QED
  BY <1>1, <1>6 DEF all

LEMMA HudStarts ==
  ASSUME HudInit \/ HudOff
  PROVE  HudInv
<1>1. CASE HudOff
  BY <1>1 DEF HudOff, HudInv
<1>2. CASE HudInit
  <2>1. match \in Recordings /\ at = 1
    BY <1>2 DEF HudInit
  <2>2. Len(match) \in Nat /\ Len(match) > 0
    BY <2>1, RecordingsAssumption
  <2> QED
    BY <1>2, <2>1, <2>2 DEF HudInit, HudInv
<1> QED
  BY <1>1, <1>2

LEMMA ShowsKeeps ==
  ASSUME HudInv, match # << >>, NEW k \in 1..Len(match), Shows(k)
  PROVE  HudInv'
BY DEF HudInv, Shows

LEMMA HudKeeps ==
  ASSUME HudInv, HudOn
  PROVE  HudInv'
<1>1. CASE UNCHANGED hudVars
  BY <1>1 DEF hudVars, HudInv
<1>2. CASE HudNext
  <2>1. match # << >>
    BY <1>2 DEF HudNext
  <2>2. Len(match) \in Nat /\ at \in 1..Len(match)
    BY <2>1, Ascending DEF HudInv
  <2>3. CASE PlayOn
    <3>1. PICK k \in 1..Len(match) : k = at + 1
      BY <2>2, <2>3 DEF PlayOn
    <3> QED
      BY <2>1, <2>3, <3>1, ShowsKeeps DEF PlayOn
  <2>4. CASE \E ms \in 0..match[Len(match)].ms : GraphClick(ms)
    <3>1. PICK ms \in Int : GraphClick(ms)
      BY <2>4
    <3>2. FrameAtMs(ms) \in 1..Len(match)
      BY <2>1, ClickFinds DEF First
    <3> QED
      BY <2>1, <3>1, <3>2, ShowsKeeps DEF GraphClick
  <2> QED
    BY <1>2, <2>3, <2>4 DEF HudNext
<1> QED
  BY <1>1, <1>2 DEF HudOn

(* Two readings next to each other are on one line: the longest run of     *)
(* readings around them.                                                   *)
LEMMA LinesJoin ==
  ASSUME HudInv
  PROVE  LinesJoinReadings
<1> DEFINE n == Len(match)
<1>0. n \in Nat
  <2>1. CASE match = << >>
    BY <2>1
  <2>2. CASE match # << >>
    BY <2>2, Ascending
  <2> QED
    BY <2>1, <2>2
<1> SUFFICES ASSUME NEW team \in {1, 2}
             PROVE  /\ \A s \in Segments(team) : \A a, b \in s : a..b \subseteq Readable(team)
                    /\ \A i \in 1..Len(match) - 1 :
                         {i, i + 1} \subseteq Readable(team) =>
                           \E s \in Segments(team) : {i, i + 1} \subseteq s
  BY DEF LinesJoinReadings
<1> DEFINE R == Readable(team)
<1>1. R \subseteq 1..n
  BY DEF Readable
<1>2. Segments(team) =
        {x[1]..x[2] : x \in {y \in (1..n) \X (1..n) :
           y[1] < y[2] /\ y[1]..y[2] \subseteq R /\ y[1] - 1 \notin R /\ y[2] + 1 \notin R}}
  BY DEF Segments
<1> HIDE DEF R, n
<1>3. ASSUME NEW s \in Segments(team), NEW a \in s, NEW b \in s
      PROVE  a..b \subseteq R
  <2>1. PICK from \in 1..n, to \in 1..n : s = from..to /\ from..to \subseteq R
    BY <1>2
  <2>2. a \in Int /\ b \in Int /\ from <= a /\ b <= to
    BY <1>0, <2>1
  <2>3. a..b \subseteq from..to
    BY <1>0, <2>1, <2>2
  <2> QED
    BY <2>1, <2>3
<1>4. ASSUME NEW i \in 1..n - 1, {i, i + 1} \subseteq R
      PROVE  \E s \in Segments(team) : {i, i + 1} \subseteq s
  <2> DEFINE A == {a \in 1..i : a..i \subseteq R}
             B == {b \in i + 1..n : i + 1..b \subseteq R}
  <2>0. i \in Int /\ 1 <= i /\ i + 1 <= n /\ i \in R /\ i + 1 \in R
    BY <1>0, <1>4
  <2>1. i \in A /\ A \in SUBSET Int /\ \A x \in A : 1 <= x
    <3>1. i..i \subseteq R
      BY <2>0
    <3> QED
      BY <2>0, <3>1
  <2>2. PICK j \in Int : j = i + 1
    BY <2>0
  <2>3. j \in B /\ B \in SUBSET Int /\ \A x \in B : x <= n
    <3>1. j..j \subseteq R
      BY <2>0, <2>2
    <3> QED
      BY <1>0, <2>0, <2>2, <3>1
  <2>4. PICK from \in A : \A x \in A : from <= x
    <3> HIDE DEF A
    <3>1. A # {} /\ 1 \in Int
      BY <2>1
    <3>2. Min(A) \in A /\ \A y \in A : Min(A) <= y
      BY <2>1, <3>1, MinIs
    <3> QED
      BY <3>2
  <2>5. PICK to \in B : \A x \in B : x <= to
    <3> HIDE DEF B
    <3>0. B # {} /\ n \in Int
      BY <1>0, <2>3
    <3>1. Max(B) \in B /\ \A y \in B : Max(B) >= y
      BY <2>3, <3>0, MaxIs
    <3>2. \A y \in B : y <= Max(B)
      BY <2>3, <3>1
    <3> QED
      BY <3>1, <3>2
  <2>6. from \in 1..i /\ from..i \subseteq R /\ to \in j..n /\ j..to \subseteq R
    BY <2>2
  <2>7. from..to \subseteq R
    BY <2>0, <2>2, <2>6
  <2>8. from - 1 \notin R
    <3> SUFFICES ASSUME from - 1 \in R PROVE FALSE
      OBVIOUS
    <3>1. PICK k \in 1..n : k = from - 1 /\ k \in R
      BY <1>1
    <3>2. k \in 1..i /\ k < from
      BY <2>0, <2>6, <3>1
    <3>3. k..i \subseteq R
      BY <2>0, <2>6, <3>1
    <3>4. k \in A
      BY <3>2, <3>3
    <3> QED
      BY <2>4, <2>6, <3>2, <3>4
  <2>9. to + 1 \notin R
    <3> SUFFICES ASSUME to + 1 \in R PROVE FALSE
      OBVIOUS
    <3>1. PICK k \in 1..n : k = to + 1 /\ k \in R
      BY <1>1
    <3>2. k \in j..n /\ to < k
      BY <1>0, <2>0, <2>2, <2>6, <3>1
    <3>3. j..k \subseteq R
      BY <1>0, <2>0, <2>2, <2>6, <3>1
    <3>4. k \in B
      BY <2>2, <3>2, <3>3
    <3> QED
      BY <1>0, <2>5, <2>6, <3>2, <3>4
  <2>10. from \in 1..n /\ to \in 1..n /\ from < to
    BY <1>0, <2>0, <2>2, <2>6
  <2> HIDE DEF A, B
  <2> DEFINE y == <<from, to>>
  <2>11. y \in (1..n) \X (1..n) /\ y[1] = from /\ y[2] = to
    BY <2>10
  <2>12. y[1] < y[2] /\ y[1]..y[2] \subseteq R /\ y[1] - 1 \notin R /\ y[2] + 1 \notin R
    BY <2>7, <2>8, <2>9, <2>10, <2>11
  <2> HIDE DEF y
  <2>13. y[1]..y[2] \in Segments(team)
    BY <1>2, <2>11, <2>12
  <2>14. {i, i + 1} \subseteq from..to
    BY <1>0, <2>0, <2>2, <2>6
  <2> QED
    BY <2>11, <2>13, <2>14
<1> QED
  BY <1>3, <1>4 DEF R, n

LEMMA ClickHits ==
  ASSUME HudInv
  PROVE  ClickHitsMoment
<1> SUFFICES ASSUME match # << >>, NEW ms \in 0..match[Len(match)].ms
             PROVE  /\ match[FrameAtMs(ms)].ms >= ms
                    /\ \A k \in 1..FrameAtMs(ms) - 1 : match[k].ms < ms
  BY DEF ClickHitsMoment
<1> DEFINE n == Len(match)
           f == FrameAtMs(ms)
           all == <<1, n>>
<1>1. n \in Nat /\ n > 0 /\ match[n].ms \in Nat
  BY Ascending
<1>2. all[1] = 1 /\ all[2] = n
  OBVIOUS
<1>3. First(all, ms, f)
  BY <1>1, ClickFinds
<1> HIDE DEF f, all, n
<1>4. f \in 1..n /\ (f = n \/ match[f].ms >= ms) /\ \A j \in 1..n : 1 <= j /\ j < f => match[j].ms < ms
  BY <1>2, <1>3 DEF First, n
<1>5. match[n].ms >= ms
  BY <1>1 DEF n
<1>6. match[f].ms >= ms
  BY <1>4, <1>5
<1>7. \A k \in 1..f - 1 : match[k].ms < ms
  BY <1>1, <1>4
<1> QED
  BY <1>6, <1>7 DEF f

LEMMA CauseTold ==
  CauseToldOnce
<1> SUFFICES ASSUME NEW dt \in DamageTypes
    PROVE  /\ DeathPhrase(dt) = DeathCause(dt)
           /\ \A w \in {None, "gun"} :
                LET row == RowSays([killer |-> None, suicide |-> FALSE, dt |-> dt, weapon |-> w])
                IN  DeathCause(dt) # None => row = <<"phrase", DeathCause(dt)>>
           /\ RowSays([killer |-> "k", suicide |-> FALSE, dt |-> dt, weapon |-> None])[1] = "category"
  BY DEF CauseToldOnce
<1>1. DeathPhrase(dt) = DeathCause(dt)
  BY Zenon DEF DeathPhrase, DeathCause
<1>2. ASSUME NEW w, DeathCause(dt) # None
      PROVE  RowSays([killer |-> None, suicide |-> FALSE, dt |-> dt, weapon |-> w])
               = <<"phrase", DeathCause(dt)>>
  BY <1>1, <1>2 DEF RowSays
<1>3. "k" # None
  BY RecordingsAssumption
<1>4. RowSays([killer |-> "k", suicide |-> FALSE, dt |-> dt, weapon |-> None])
        = <<"category", Category(dt)>>
  BY <1>3 DEF RowSays
<1> QED
  BY <1>1, <1>2, <1>4

(* The course of a match as the strips and cards tell it: the graph joins  *)
(* the readings and no gap, a click goes to the first frame that is not    *)
(* before it however long the recording (the binary search), a death is    *)
(* told once, and the result on the card stands while the game runs on.    *)
THEOREM StripsAgree == ScreenSpec => HudAgrees
<1>1. ScreenInit => HudInv
  BY PartsInit, HudStarts
<1>2. HudInv /\ [ScreenNext]_screenVars => HudInv'
  BY PartsNext, HudKeeps
<1>3. HudInv => HudTypeOK /\ LinesJoinReadings /\ ClickHitsMoment /\ CauseToldOnce
  <2>1. HudInv => HudTypeOK
    BY DEF HudInv, HudTypeOK
  <2> QED
    BY <2>1, LinesJoin, ClickHits, CauseTold
<1>4. HudInv /\ [ScreenNext]_screenVars =>
        [match # << >> /\ CardKind = "post" /\ CardKind' = "post" /\ result # None =>
           /\ CardTickets' = CardTickets /\ Winner(CardTickets') = Winner(CardTickets)]_hudVars
  <2> SUFFICES ASSUME HudInv, HudNext, match # << >>, CardKind = "post", CardKind' = "post", result # None
               PROVE  CardTickets' = CardTickets /\ Winner(CardTickets') = Winner(CardTickets)
    BY PartsNext DEF HudOn
  <2>1. PICK k : Shows(k)
    BY DEF HudNext, PlayOn, GraphClick
  <2>2. match'[at'].phase # "InProgress" /\ match'[at'] = match[k]
    <3>1. PhaseAt' # "InProgress"
      BY RecordingsAssumption DEF CardKind
    <3> QED
      BY <2>1, <3>1 DEF PhaseAt, Shows
  <2>3. result' = result
    BY <2>1, <2>2 DEF Shows
  <2>4. CardTickets' = result /\ CardTickets = result
    BY <2>3 DEF CardTickets
  <2> QED
    BY <2>4
<1> QED
  BY <1>1, <1>2, <1>3, <1>4, PTL DEF ScreenSpec, HudAgrees, ResultStands
-----------------------------------------------------------------------------
(* Entries of a sequence at a set of places *)

LEMMA NthOfRank ==
  ASSUME NEW n \in Nat, NEW D \in SUBSET (1..n), NEW i \in D
  PROVE  NthOf(D, Rank(D, i)) = i
<1>1. \A j \in D : Rank(D, j) = Rank(D, i) => j = i
  BY RankTells
<1> QED
  BY <1>1 DEF NthOf, Rank

\* The ranks of n places are the numbers up to n.
LEMMA NthOfIs ==
  ASSUME NEW n \in Nat, NEW D \in SUBSET (1..n), NEW m \in 1..Cardinality(D)
  PROVE  NthOf(D, m) \in D /\ Rank(D, NthOf(D, m)) = m
<1> DEFINE c == Cardinality(D)
           rank == [i \in D |-> Rank(D, i)]
<1>1. c \in Nat /\ IsFiniteSet(1..c) /\ Cardinality(1..c) = c
  <2>1. c \in Nat
    BY RanksAre
  <2> QED
    BY <2>1, FS_Interval
<1>2. rank \in [D -> 1..c]
  BY RanksAre
<1>3. rank \in Injection(D, 1..c)
  BY <1>2, RankTells DEF Injection, IsInjective
<1>4. rank \in Surjection(D, 1..c)
  BY <1>1, <1>3, FS_Injection
<1>5. \E i \in D : Rank(D, i) = m
  BY <1>4 DEF Surjection
<1> QED
  BY <1>5 DEF NthOf, Rank

(* What is taken at these places: each of them once.                       *)
Picks(t, s, D) ==
  /\ Len(t) = Cardinality(D) /\ Len(t) \in Nat /\ t = [m \in 1..Len(t) |-> t[m]]
  /\ \A m \in 1..Len(t) : NthOf(D, m) \in D /\ t[m] = s[NthOf(D, m)]
  /\ \A l, m \in 1..Len(t) : NthOf(D, l) = NthOf(D, m) => l = m
  /\ \A x \in D : Rank(D, x) \in 1..Len(t) /\ NthOf(D, Rank(D, x)) = x

LEMMA PlacesPick ==
  ASSUME NEW n \in Nat, NEW D \in SUBSET (1..n), NEW s
  PROVE  Picks(AtPlaces(s, D), s, D)
<1> DEFINE t == AtPlaces(s, D)
           c == Cardinality(D)
<1>1. t = [m \in 1..c |-> s[NthOf(D, m)]]
  BY DEF AtPlaces
<1>2. c \in Nat
  BY RanksAre
<1>3. \A m \in 1..c : NthOf(D, m) \in D /\ Rank(D, NthOf(D, m)) = m
  BY NthOfIs
<1>4. \A x \in D : Rank(D, x) \in 1..c /\ NthOf(D, Rank(D, x)) = x
  BY RanksAre, NthOfRank
<1> HIDE DEF c, t
<1>5. Len(t) = c /\ \A m \in 1..c : t[m] = s[NthOf(D, m)]
  BY <1>1, <1>2
<1>6. t = [m \in 1..c |-> t[m]]
  BY <1>1
<1>7. \A l, m \in 1..c : NthOf(D, l) = NthOf(D, m) => l = m
  BY <1>3
<1>8. Picks(t, s, D)
  BY <1>2, <1>3, <1>4, <1>5, <1>6, <1>7 DEF Picks, c
<1> QED
  BY <1>8 DEF t

-----------------------------------------------------------------------------
(* Rounds in the air *)

RoundRec == [id : 1..fired, at : Int, hit : BOOLEAN]
RingRec == [id : 1..fired, at : Int, start : Int]

(* A ring is remembered as the hit it was drawn for, or its round is gone  *)
(* from the frame and from the tracks, and no round has its number again.  *)
Stands(e, spawned, tr) ==
  \/ e.id \in DOMAIN spawned /\ e.start = spawned[e.id]
  \/ e.id \notin SkyIds /\ e.id \notin DOMAIN tr

NoStack(rings) == \A i, j \in 1..Len(rings) : rings[i].id = rings[j].id => i = j

RoundInv ==
  \/ rounds = None /\ tracks = << >> /\ impacts = << >>
  \/ /\ rounds \in Seq(RoundRec)
     /\ fired \in Nat /\ fired <= Cardinality(RoundIds) /\ paintedAt \in Int
     /\ DOMAIN tracks \subseteq 1..fired
     /\ \A s \in DOMAIN tracks : tracks[s].at \in Int /\ tracks[s].seen \in Int
     /\ \A s \in DOMAIN impactSpawned : impactSpawned[s] \in Int
     /\ impacts \in Seq(RingRec) /\ NoStack(impacts)
     /\ \A i \in 1..Len(impacts) : Stands(impacts[i], impactSpawned, tracks)
     /\ bursts \in [RoundIds -> Nat]
     /\ TrackerBounded

LEMMA RoundsStart ==
  ASSUME RoundsInit \/ RoundsOff
  PROVE  RoundInv
<1>1. CASE RoundsOff
  BY <1>1 DEF RoundsOff, RoundInv
<1>2. CASE RoundsInit
  <2>1. Cardinality(RoundIds) \in Nat
    BY RoundsAssumption, FS_CardinalityType
  <2>2. DOMAIN tracks = {} /\ DOMAIN impactSpawned = {} /\ Len(impacts) = 0 /\ newFrame = TRUE
    BY <1>2 DEF RoundsInit
  <2> QED
    BY <1>2, <2>1, <2>2 DEF RoundsInit, RoundInv, NoStack, TrackerBounded
<1> QED
  BY <1>1, <1>2

(* What the first k rounds of the frame leave behind them.                 *)
IdsTo(k) == {rounds[j].id : j \in 1..k}

FollowedSo(st, k) ==
  /\ IdsTo(k) \subseteq DOMAIN st.tracks /\ DOMAIN st.tracks \subseteq DOMAIN tracks \cup IdsTo(k)
  /\ \A s \in DOMAIN st.tracks : s \notin IdsTo(k) => st.tracks[s] = tracks[s]
  /\ \A s \in DOMAIN st.tracks : st.tracks[s].at \in Int /\ st.tracks[s].seen \in Int
  /\ SkyIds \subseteq DOMAIN tracks => DOMAIN tracks \subseteq DOMAIN st.tracks
  /\ DOMAIN impactSpawned \subseteq DOMAIN st.spawned
  /\ DOMAIN st.spawned \subseteq DOMAIN impactSpawned \cup IdsTo(k)
  /\ \A s \in DOMAIN st.spawned : st.spawned[s] \in Int
  /\ st.rings \in Seq(RingRec) /\ Len(impacts) <= Len(st.rings) /\ NoStack(st.rings)
  /\ \A i \in 1..Len(st.rings) : i > Len(impacts) => st.rings[i].id \in IdsTo(k)
  /\ \A i \in 1..Len(st.rings) : Stands(st.rings[i], st.spawned, st.tracks)


\* A round without a track takes over one of a round that is not before it
\* in the frame, or none.
LEMMA TakenIs ==
  ASSUME RoundInv, rounds # None, NEW k \in 1..Len(rounds), NEW tr, DOMAIN tr \subseteq 1..fired,
         \A s \in DOMAIN tr : s \notin IdsTo(k - 1) => tr[s].at \in Int
  PROVE  /\ Taken(tr, k) = None \/ Taken(tr, k) \in DOMAIN tr \ IdsTo(k)
         /\ rounds[k].id \in DOMAIN tr => Taken(tr, k) = None
<1> DEFINE r == rounds[k]
           near == {s \in DOMAIN tr \ {rounds[j].id : j \in 1..k} : Far(tr[s].at, r.at) < MatchRadius}
           far(s) == Far(tr[s].at, r.at)
           Nearest(s) == \A o \in near : \/ far(s) < far(o)
                                         \/ far(s) = far(o) /\ s <= o
<1>1. rounds \in Seq(RoundRec) /\ Len(rounds) \in Nat /\ r \in RoundRec /\ fired \in Nat
  BY DEF RoundInv
<1>2. near \subseteq DOMAIN tr \ IdsTo(k) /\ near \in SUBSET Nat
  BY <1>1 DEF IdsTo
<1>3. \A s \in near : s \notin IdsTo(k - 1) /\ far(s) \in Nat
  <2>1. \A j \in 1..k - 1 : j \in 1..k
    BY <1>1
  <2>2. \A s \in near : s \notin IdsTo(k - 1)
    BY <2>1 DEF IdsTo
  <2>3. r.at \in Int
    BY <1>1 DEF RoundRec
  <2> QED
    BY <2>2, <2>3 DEF Far
<1>4. Taken(tr, k) = IF r.id \in DOMAIN tr \/ near = {} THEN None ELSE CHOOSE s \in near : Nearest(s)
  BY DEF Taken
<1> HIDE DEF near, far
<1>5. ASSUME near # {} PROVE \E s \in near : Nearest(s)
  <2>1. PICK d \in {far(s) : s \in near} : \A e \in {far(s) : s \in near} : d <= e
    <3>1. {far(s) : s \in near} \in SUBSET Nat /\ {far(s) : s \in near} # {}
      BY <1>3, <1>5
    <3> QED
      BY <3>1, LeastNat
  <2> DEFINE T == {s \in near : far(s) = d}
  <2>2. PICK m \in T : \A o \in T : m <= o
    <3>1. T \in SUBSET Nat /\ T # {}
      BY <1>2
    <3> QED
      BY <3>1, LeastNat
  <2>3. ASSUME NEW o \in near PROVE far(m) < far(o) \/ (far(m) = far(o) /\ m <= o)
    <3>1. far(m) = d /\ d <= far(o) /\ d \in Int /\ far(o) \in Int
      BY <1>3, <2>1, <2>2, <2>3
    <3>2. far(o) = d => m <= o
      BY <2>2
    <3> QED
      BY <3>1, <3>2
  <2> QED
    BY <2>2, <2>3
<1>6. near # {} => (CHOOSE s \in near : Nearest(s)) \in near
  BY <1>5, Zenon
<1> QED
  BY <1>2, <1>4, <1>6

LEMMA FollowKeeps ==
  ASSUME RoundInv, rounds # None, NEW t \in Int, NEW k \in 1..Len(rounds),
         NEW st, FollowedSo(st, k - 1)
  PROVE  FollowedSo(Follow(st, k, t), k)
<1> DEFINE r == rounds[k]
           taken == Taken(st.tracks, k)
           burst == r.hit /\ r.id \notin DOMAIN st.spawned
           to == Follow(st, k, t)
           ring == [id |-> r.id, at |-> r.at, start |-> t]
<1>1. /\ rounds \in Seq(RoundRec) /\ Len(rounds) \in Nat /\ r \in RoundRec /\ r.id \in SkyIds
      /\ fired \in Nat /\ None \notin 1..fired /\ DOMAIN tracks \subseteq 1..fired
      /\ \A s \in DOMAIN tracks : tracks[s].at \in Int
  <2>1. 1..fired \subseteq RoundIds
    BY RoundsAssumption, FS_CardinalityType DEF RoundInv
  <2> QED
    BY <2>1, RoundsAssumption DEF RoundInv, SkyIds
<1>2. IdsTo(k) = IdsTo(k - 1) \cup {r.id} /\ IdsTo(k) \subseteq SkyIds /\ SkyIds \subseteq 1..fired
  <2>1. 1..k = (1..k - 1) \cup {k} /\ 1..k \subseteq 1..Len(rounds)
    BY <1>1
  <2>2. \A j \in 1..Len(rounds) : rounds[j].id \in 1..fired
    <3>1. \A j \in 1..Len(rounds) : rounds[j] \in RoundRec
      BY <1>1
    <3> QED
      BY <3>1 DEF RoundRec
  <2> QED
    BY <2>1, <2>2 DEF IdsTo, SkyIds
<1>3. /\ to.rings = IF burst THEN Append(st.rings, ring) ELSE st.rings
      /\ to.spawned = IF burst THEN With(st.spawned, r.id, t) ELSE st.spawned
      /\ \E v : v.at = r.at /\ v.seen = t /\ to.tracks = With(Gone(st.tracks, {taken}), r.id, v)
  BY DEF Follow
<1>4. /\ taken \notin IdsTo(k) /\ taken # r.id
      /\ r.id \in DOMAIN st.tracks => taken = None
  <2>1. DOMAIN st.tracks \subseteq 1..fired
    BY <1>1, <1>2 DEF FollowedSo
  <2>2. \A s \in DOMAIN st.tracks : s \notin IdsTo(k - 1) => st.tracks[s].at \in Int
    BY <1>1 DEF FollowedSo
  <2>3. /\ taken = None \/ taken \in DOMAIN st.tracks \ IdsTo(k)
        /\ r.id \in DOMAIN st.tracks => taken = None
    BY <2>1, <2>2, TakenIs
  <2> QED
    BY <1>1, <1>2, <2>3
<1> HIDE DEF taken, to
<1>5. /\ DOMAIN to.tracks = (DOMAIN st.tracks \ {taken}) \cup {r.id}
      /\ \A s \in DOMAIN to.tracks : s # r.id => to.tracks[s] = st.tracks[s]
      /\ to.tracks[r.id].at = r.at /\ to.tracks[r.id].seen = t
  BY <1>3 DEF With, Gone
<1>6. /\ DOMAIN st.spawned \subseteq DOMAIN to.spawned
      /\ \A s \in DOMAIN st.spawned : to.spawned[s] = st.spawned[s]
      /\ DOMAIN to.spawned \subseteq DOMAIN st.spawned \cup {r.id}
      /\ burst => r.id \in DOMAIN to.spawned /\ to.spawned[r.id] = t
  BY <1>3 DEF With
<1>7. /\ IdsTo(k) \subseteq DOMAIN to.tracks /\ DOMAIN to.tracks \subseteq DOMAIN tracks \cup IdsTo(k)
      /\ \A s \in DOMAIN to.tracks : s \notin IdsTo(k) => to.tracks[s] = tracks[s]
      /\ \A s \in DOMAIN to.tracks : to.tracks[s].at \in Int /\ to.tracks[s].seen \in Int
  <2>1. r.at \in Int
    BY <1>1 DEF RoundRec
  <2> QED
    BY <1>2, <1>4, <1>5, <2>1 DEF FollowedSo
<1>8. SkyIds \subseteq DOMAIN tracks => DOMAIN tracks \subseteq DOMAIN to.tracks
  <2> SUFFICES ASSUME SkyIds \subseteq DOMAIN tracks PROVE DOMAIN tracks \subseteq DOMAIN to.tracks
    OBVIOUS
  <2>1. DOMAIN tracks \subseteq DOMAIN st.tracks /\ r.id \in DOMAIN st.tracks
    BY <1>1 DEF FollowedSo
  <2>2. taken = None /\ None \notin DOMAIN tracks
    BY <1>1, <1>4, <2>1
  <2> QED
    BY <1>5, <2>1, <2>2
<1>9. /\ DOMAIN impactSpawned \subseteq DOMAIN to.spawned
      /\ DOMAIN to.spawned \subseteq DOMAIN impactSpawned \cup IdsTo(k)
      /\ \A s \in DOMAIN to.spawned : to.spawned[s] \in Int
  <2>1. \A s \in DOMAIN to.spawned : s \notin DOMAIN st.spawned => burst /\ s = r.id
    BY <1>3 DEF With
  <2> QED
    BY <1>2, <1>6, <2>1 DEF FollowedSo
<1>10. /\ st.rings \in Seq(RingRec) /\ Len(st.rings) \in Nat /\ Len(impacts) <= Len(st.rings)
       /\ NoStack(st.rings) /\ Len(impacts) \in Nat
       /\ \A i \in 1..Len(st.rings) : i > Len(impacts) => st.rings[i].id \in IdsTo(k - 1)
       /\ \A i \in 1..Len(st.rings) : Stands(st.rings[i], st.spawned, st.tracks)
  <2>1. impacts \in Seq(RingRec) \/ impacts = << >>
    BY DEF RoundInv
  <2> QED
    BY <2>1 DEF FollowedSo
<1>11. ASSUME NEW i \in 1..Len(st.rings)
       PROVE  Stands(st.rings[i], to.spawned, to.tracks)
  BY <1>1, <1>5, <1>6, <1>10 DEF Stands
<1>12. CASE ~burst
  <2>1. to.rings = st.rings
    BY <1>3, <1>12
  <2>2. FollowedSo(to, k)
    BY <1>2, <1>7, <1>8, <1>9, <1>10, <1>11, <2>1 DEF FollowedSo
  <2> QED
    BY <2>2 DEF to
<1>13. CASE burst
  <2>1. to.rings = Append(st.rings, ring)
    BY <1>3, <1>13
  <2>2. ring \in RingRec
    BY <1>1, <1>2 DEF RingRec, RoundRec
  <2>3. /\ to.rings \in Seq(RingRec) /\ Len(to.rings) = Len(st.rings) + 1
        /\ \A i \in 1..Len(st.rings) : to.rings[i] = st.rings[i]
        /\ to.rings[Len(st.rings) + 1] = ring /\ ring.id = r.id /\ ring.start = t
    BY <1>10, <2>1, <2>2
  <2> HIDE DEF ring
  <2>4. \A i \in 1..Len(to.rings) : i \in 1..Len(st.rings) \/ i = Len(st.rings) + 1
    BY <1>10, <2>3
  <2>5. \A i \in 1..Len(st.rings) : st.rings[i].id # r.id
    BY <1>1, <1>10, <1>13 DEF Stands
  <2>6. NoStack(to.rings)
    BY <1>10, <2>3, <2>4, <2>5 DEF NoStack
  <2>7. \A i \in 1..Len(to.rings) : i > Len(impacts) => to.rings[i].id \in IdsTo(k)
    BY <1>2, <1>10, <2>3, <2>4
  <2>8. Stands(ring, to.spawned, to.tracks)
    BY <1>6, <1>13, <2>3 DEF Stands
  <2>9. \A i \in 1..Len(to.rings) : Stands(to.rings[i], to.spawned, to.tracks)
    BY <1>11, <2>3, <2>4, <2>8
  <2>10. Len(impacts) <= Len(to.rings)
    BY <1>10, <2>3
  <2>11. FollowedSo(to, k)
    BY <1>7, <1>8, <1>9, <2>3, <2>6, <2>7, <2>9, <2>10 DEF FollowedSo
  <2> QED
    BY <2>11 DEF to
<1> QED
  BY <1>12, <1>13

Follows(after, t, n) ==
  after = [k \in 0..n |->
             IF k = 0 THEN [tracks |-> tracks, rings |-> impacts, spawned |-> impactSpawned]
             ELSE Follow(after[k - 1], k, t)]

LEMMA FollowsExists ==
  ASSUME NEW t, NEW n \in Nat
  PROVE  \E f : Follows(f, t, n)
<1> DEFINE T == {k \in Nat : ~\E f : Follows(f, t, k)}
<1> SUFFICES ASSUME T # {} PROVE FALSE
  OBVIOUS
<1>1. PICK m \in T : \A k \in T : m <= k
  BY LeastNat
<1>2. m \in Nat /\ ~\E f : Follows(f, t, m)
  OBVIOUS
<1>3. CASE m = 0
  <2> DEFINE e == [k \in 0..0 |-> [tracks |-> tracks, rings |-> impacts, spawned |-> impactSpawned]]
  <2>1. Follows(e, t, 0)
    BY DEF Follows
  <2> QED
    BY <1>2, <1>3, <2>1
<1>4. CASE m # 0
  <2>1. m - 1 \in Nat
    BY <1>2, <1>4
  <2>2. m - 1 \notin T
    <3> SUFFICES ASSUME m - 1 \in T PROVE FALSE
      OBVIOUS
    <3>1. m <= m - 1
      BY <1>1
    <3> QED
      BY <1>2, <3>1
  <2>3. PICK h : Follows(h, t, m - 1)
    BY <2>1, <2>2
  <2>4. \A k \in 0..m - 1 : h[k] = IF k = 0 THEN [tracks |-> tracks, rings |-> impacts, spawned |-> impactSpawned]
                                   ELSE Follow(h[k - 1], k, t)
    BY <2>3 DEF Follows
  <2> DEFINE g == [k \in 0..m |-> IF k < m THEN h[k] ELSE Follow(h[m - 1], m, t)]
             base == [tracks |-> tracks, rings |-> impacts, spawned |-> impactSpawned]
  <2> HIDE DEF base
  <2>5. \A k \in 0..m : g[k] = IF k = 0 THEN base ELSE Follow(g[k - 1], k, t)
    <3> SUFFICES ASSUME NEW k \in 0..m
                 PROVE  g[k] = IF k = 0 THEN base ELSE Follow(g[k - 1], k, t)
      OBVIOUS
    <3>1. CASE k < m
      <4>1. k \in 0..m - 1 /\ g[k] = h[k]
        BY <1>2, <3>1
      <4>2. k # 0 => g[k - 1] = h[k - 1]
        BY <1>2, <3>1
      <4> QED
        BY <2>4, <4>1, <4>2 DEF base
    <3>2. CASE k = m
      <4>1. k # 0 /\ g[k - 1] = h[k - 1] /\ g[k] = Follow(h[m - 1], m, t)
        BY <1>2, <1>4, <3>2
      <4> QED
        BY <3>2, <4>1
    <3> QED
      BY <1>2, <3>1, <3>2
  <2>6. Follows(g, t, m)
    BY <2>5 DEF Follows, base
  <2> QED
    BY <1>2, <2>6
<1> QED
  BY <1>3, <1>4

LEMMA FollowedIs ==
  ASSUME RoundInv, rounds # None, NEW t \in Int
  PROVE  FollowedSo(Followed(t), Len(rounds))
<1> DEFINE n == Len(rounds)
           f == CHOOSE g : Follows(g, t, n)
           T == {k \in 0..n : ~FollowedSo(f[k], k)}
<1>1. n \in Nat
  BY DEF RoundInv
<1>2. Followed(t) = f[n]
  BY DEF Followed, Follows
<1>3. Follows(f, t, n)
  BY <1>1, FollowsExists, Zenon
<1> HIDE DEF f
<1>4. \A k \in 0..n : f[k] = IF k = 0 THEN [tracks |-> tracks, rings |-> impacts, spawned |-> impactSpawned]
                             ELSE Follow(f[k - 1], k, t)
  BY <1>3 DEF Follows
<1>5. FollowedSo(f[0], 0)
  <2>1. f[0].tracks = tracks /\ f[0].rings = impacts /\ f[0].spawned = impactSpawned
    BY <1>1, <1>4
  <2>2. IdsTo(0) = {}
    BY DEF IdsTo
  <2>3. /\ impacts \in Seq(RingRec) /\ NoStack(impacts) /\ Len(impacts) \in Nat
        /\ \A i \in 1..Len(impacts) : Stands(impacts[i], impactSpawned, tracks)
        /\ \A s \in DOMAIN impactSpawned : impactSpawned[s] \in Int
        /\ \A s \in DOMAIN tracks : tracks[s].at \in Int /\ tracks[s].seen \in Int
    BY DEF RoundInv
  <2> QED
    BY <2>1, <2>2, <2>3 DEF FollowedSo
<1> SUFFICES ASSUME T # {} PROVE FALSE
  BY <1>1, <1>2
<1>6. PICK m \in T : \A k \in T : m <= k
  <2>1. T \in SUBSET Nat
    BY <1>1
  <2> QED
    BY <2>1, LeastNat
<1>7. m \in 1..n /\ ~FollowedSo(f[m], m)
  BY <1>1, <1>5, <1>6
<1>8. m - 1 \in 0..n /\ m - 1 \notin T
  BY <1>1, <1>6, <1>7
<1>9. FollowedSo(f[m - 1], m - 1)
  BY <1>8
<1>10. f[m] = Follow(f[m - 1], m, t)
  BY <1>1, <1>4, <1>7
<1> QED
  BY <1>7, <1>9, <1>10, FollowKeeps

(* The rings of what is lost: one for each, where it was last seen.        *)
BurstsSo(b, st, D, t) ==
  /\ Len(b) \in Nat /\ b = [m \in 1..Len(b) |-> b[m]]
  /\ \A m \in 1..Len(b) : \E s \in D : b[m] = [id |-> s, at |-> st.tracks[s].at, start |-> t]
  /\ \A l, m \in 1..Len(b) : b[l].id = b[m].id => l = m
  /\ \A s \in D : \E m \in 1..Len(b) : b[m].id = s

LEMMA BurstsAre ==
  ASSUME NEW n \in Nat, NEW D \in SUBSET (1..n), NEW st, NEW t
  PROVE  BurstsSo(Bursts(st, D, t), st, D, t)
<1> DEFINE ring == [s \in D |-> [id |-> s, at |-> st.tracks[s].at, start |-> t]]
           b == AtPlaces(ring, D)
<1>1. b = Bursts(st, D, t)
  BY DEF Bursts
<1>2. Picks(b, ring, D)
  BY PlacesPick
<1>3. \A s \in D : ring[s] = [id |-> s, at |-> st.tracks[s].at, start |-> t] /\ ring[s].id = s
  OBVIOUS
<1> HIDE DEF ring, b
<1>4. Len(b) \in Nat /\ b = [m \in 1..Len(b) |-> b[m]]
  BY <1>2 DEF Picks
<1>5. \A m \in 1..Len(b) : NthOf(D, m) \in D /\ b[m] = ring[NthOf(D, m)] /\ b[m].id = NthOf(D, m)
  BY <1>2, <1>3 DEF Picks
<1>6. \A l, m \in 1..Len(b) : b[l].id = b[m].id => l = m
  BY <1>2, <1>5 DEF Picks
<1>7. \A s \in D : Rank(D, s) \in 1..Len(b) /\ b[Rank(D, s)].id = s
  BY <1>2, <1>5 DEF Picks
<1>8. ASSUME NEW m \in 1..Len(b) PROVE \E s \in D : b[m] = [id |-> s, at |-> st.tracks[s].at, start |-> t]
  <2>1. NthOf(D, m) \in D /\ b[m] = ring[NthOf(D, m)]
    BY <1>5
  <2> QED
    BY <1>3, <2>1
<1>9. BurstsSo(b, st, D, t)
  BY <1>4, <1>6, <1>7, <1>8 DEF BurstsSo
<1> QED
  BY <1>1, <1>9

\* Two sequences one after the other.
LEMMA Joined ==
  ASSUME NEW R, NEW x \in Seq(R), NEW y \in Seq(R)
  PROVE  /\ x \o y \in Seq(R) /\ Len(x \o y) = Len(x) + Len(y)
         /\ \A i \in 1..Len(x) : (x \o y)[i] = x[i]
         /\ \A i \in 1..Len(x) + Len(y) : i \in 1..Len(x) \/ (i - Len(x) \in 1..Len(y) /\ (x \o y)[i] = y[i - Len(x)])
         /\ \A m \in 1..Len(y) : (x \o y)[Len(x) + m] = y[m]
OBVIOUS

LostBurstOnce ==
  \A s \in DOMAIN tracks :
    /\ paintedAt' # paintedAt
    /\ s \notin {rounds[k].id : k \in 1..Len(rounds)}
    /\ {rounds[k].id : k \in 1..Len(rounds)} \subseteq DOMAIN tracks
    => bursts'[s] = IF s \in DOMAIN impactSpawned \/ paintedAt' - tracks[s].seen > StaleMs
                    THEN bursts[s] ELSE bursts[s] + 1

LEMMA PaintKeeps ==
  ASSUME RoundInv, NEW dt \in Nat, DrawProjectilesAndImpacts(dt)
  PROVE  RoundInv' /\ LostBurstOnce
<1> DEFINE t == paintedAt + dt
           st == Followed(t)
           lost == DOMAIN st.tracks \ SkyIds
           bang == {s \in lost : t - st.tracks[s].seen <= StaleMs /\ s \notin DOMAIN st.spawned}
           b == Bursts(st, bang, t)
           all == st.rings \o b
           young == {i \in 1..Len(all) : t - all[i].start <= ImpactMs}
           old == Len(st.rings)
<1>1. /\ rounds # None /\ rounds \in Seq(RoundRec) /\ t \in Int /\ paintedAt \in Int
      /\ fired \in Nat /\ fired <= Cardinality(RoundIds) /\ RoundIds = 1..Cardinality(RoundIds)
      /\ Cardinality(RoundIds) \in Nat /\ bursts \in [RoundIds -> Nat]
      /\ impacts \in Seq(RingRec) /\ Len(impacts) \in Nat /\ DOMAIN tracks \subseteq 1..fired
  BY RoundsAssumption, FS_CardinalityType DEF RoundInv, DrawProjectilesAndImpacts
<1>2. SkyIds \subseteq 1..fired /\ IdsTo(Len(rounds)) = SkyIds
  <2>1. \A j \in 1..Len(rounds) : rounds[j] \in RoundRec
    BY <1>1
  <2> QED
    BY <2>1 DEF IdsTo, SkyIds, RoundRec
<1>3. FollowedSo(st, Len(rounds))
  BY <1>1, FollowedIs
<1>4. /\ tracks' = Gone(st.tracks, lost)
      /\ impactSpawned' = Gone(Gone(st.spawned, lost),
                               {s \in DOMAIN Gone(st.spawned, lost) : t - Gone(st.spawned, lost)[s] > StaleMs})
      /\ impacts' = AtPlaces(all, young)
      /\ bursts' = [r \in RoundIds |->
            bursts[r] + Cardinality({i \in 1..Len(all) : all[i].id = r /\ i > Len(impacts)})]
      /\ rounds' = rounds /\ fired' = fired /\ paintedAt' = t /\ newFrame' = FALSE
  <2> DEFINE vs == Vanished(st, t)
  <2>1. /\ vs.tracks = Gone(st.tracks, lost) /\ vs.rings = all
        /\ vs.spawned = Gone(Gone(st.spawned, lost),
                             {s \in DOMAIN Gone(st.spawned, lost) : t - Gone(st.spawned, lost)[s] > StaleMs})
    BY DEF Vanished
  <2>2. PICK x \in {vs} :
           /\ tracks' = x.tracks
           /\ impactSpawned' = x.spawned
           /\ impacts' = AtPlaces(x.rings, {i \in 1..Len(x.rings) : t - x.rings[i].start <= ImpactMs})
           /\ bursts' = [r \in RoundIds |->
                 bursts[r] + Cardinality({i \in 1..Len(x.rings) : x.rings[i].id = r /\ i > Len(impacts)})]
    BY Zenon DEF DrawProjectilesAndImpacts
  <2>3. rounds' = rounds /\ fired' = fired /\ paintedAt' = t /\ newFrame' = FALSE
    BY DEF DrawProjectilesAndImpacts
  <2> HIDE DEF vs, all, lost, st, t
  <2> QED
    BY <2>1, <2>2, <2>3
<1> HIDE DEF t, st
<1>5. /\ SkyIds \subseteq DOMAIN st.tracks /\ DOMAIN st.tracks \subseteq 1..fired
      /\ \A s \in DOMAIN st.tracks : s \notin SkyIds => s \in DOMAIN tracks /\ st.tracks[s] = tracks[s]
      /\ \A s \in DOMAIN st.tracks : st.tracks[s].at \in Int /\ st.tracks[s].seen \in Int
      /\ SkyIds \subseteq DOMAIN tracks => DOMAIN tracks \subseteq DOMAIN st.tracks
      /\ \A s : s \notin SkyIds => (s \in DOMAIN st.spawned <=> s \in DOMAIN impactSpawned)
      /\ \A s \in DOMAIN st.spawned : st.spawned[s] \in Int
  BY <1>1, <1>2, <1>3 DEF FollowedSo
<1>6. /\ st.rings \in Seq(RingRec) /\ old \in Nat /\ NoStack(st.rings) /\ Len(impacts) <= old
      /\ \A i \in 1..old : i > Len(impacts) => st.rings[i].id \in SkyIds
      /\ \A i \in 1..old : Stands(st.rings[i], st.spawned, st.tracks)
  BY <1>2, <1>3 DEF FollowedSo
<1>7. /\ DOMAIN tracks' = SkyIds
      /\ \A s \in SkyIds : tracks'[s] = st.tracks[s]
  BY <1>4, <1>5 DEF Gone
<1>8. /\ \A s \in DOMAIN impactSpawned' :
           s \in DOMAIN st.spawned \ lost /\ impactSpawned'[s] = st.spawned[s] /\ t - st.spawned[s] <= StaleMs
      /\ \A s \in DOMAIN st.spawned \ lost :
           t - st.spawned[s] <= StaleMs => s \in DOMAIN impactSpawned' /\ impactSpawned'[s] = st.spawned[s]
  <2>1. \A s \in DOMAIN st.spawned : st.spawned[s] \in Int /\ StaleMs \in Int /\ t \in Int
    BY <1>1, <1>5, RoundsAssumption
  <2>2. \A s \in DOMAIN st.spawned : t - st.spawned[s] <= StaleMs <=> ~(t - st.spawned[s] > StaleMs)
    BY <2>1
  <2> HIDE DEF lost
  <2> QED
    BY <1>4, <2>2 DEF Gone
<1>9. bang \in SUBSET (1..fired) /\ lost \cap SkyIds = {} /\ bang \subseteq lost /\ lost \subseteq DOMAIN st.tracks
  BY <1>5
<1>25. BurstsSo(b, st, bang, t)
  <2> HIDE DEF bang
  <2> QED
    BY <1>1, <1>9, BurstsAre
<1> HIDE DEF b
<1>10. /\ Len(b) \in Nat /\ b = [m \in 1..Len(b) |-> b[m]]
       /\ \A m \in 1..Len(b) : \E s \in bang : b[m] = [id |-> s, at |-> st.tracks[s].at, start |-> t]
       /\ \A l, m \in 1..Len(b) : b[l].id = b[m].id => l = m
       /\ \A s \in bang : \E m \in 1..Len(b) : b[m].id = s
  <2> HIDE DEF bang
  <2> QED
    BY <1>25 DEF BurstsSo
<1>11. \A m \in 1..Len(b) : b[m] \in RingRec /\ b[m].id \in bang
  <2> SUFFICES ASSUME NEW m \in 1..Len(b) PROVE b[m] \in RingRec /\ b[m].id \in bang
    OBVIOUS
  <2>1. PICK s \in bang : b[m] = [id |-> s, at |-> st.tracks[s].at, start |-> t]
    BY <1>10
  <2>2. s \in 1..fired /\ st.tracks[s].at \in Int
    BY <1>5, <1>9
  <2> QED
    BY <1>1, <2>1, <2>2 DEF RingRec
<1>12. /\ all \in Seq(RingRec) /\ Len(all) = old + Len(b) /\ Len(all) \in Nat
       /\ \A i \in 1..old : all[i] = st.rings[i]
       /\ \A i \in 1..Len(all) : i \in 1..old \/ (i - old \in 1..Len(b) /\ all[i] = b[i - old])
       /\ \A m \in 1..Len(b) : old + m \in 1..Len(all) /\ all[old + m] = b[m]
  <2>1. b \in Seq(RingRec)
    BY <1>10, <1>11
  <2>2. old = Len(st.rings) /\ old \in Nat /\ Len(b) \in Nat
    BY <1>6, <1>10
  <2>3. /\ all \in Seq(RingRec) /\ Len(all) = old + Len(b)
        /\ \A i \in 1..old : all[i] = st.rings[i]
        /\ \A i \in 1..old + Len(b) : i \in 1..old \/ (i - old \in 1..Len(b) /\ all[i] = b[i - old])
        /\ \A m \in 1..Len(b) : all[old + m] = b[m]
    BY <1>6, <2>1, Joined
  <2> HIDE DEF all, old
  <2>4. Len(all) \in Nat
    BY <2>2, <2>3
  <2>5. \A m \in 1..Len(b) : old + m \in 1..old + Len(b)
    <3> DEFINE q == Len(b)
    <3>1. q \in Nat
      BY <2>2
    <3> HIDE DEF q
    <3>2. \A m \in 1..q : old + m \in 1..old + q
      BY <2>2, <3>1, PlacesJoin
    <3> QED
      BY <3>2 DEF q
  <2>6. 1..Len(all) = 1..old + Len(b)
    BY <2>3
  <2>7. \A i \in 1..Len(all) : i \in 1..old \/ (i - old \in 1..Len(b) /\ all[i] = b[i - old])
    BY <2>3, <2>6
  <2>8. \A m \in 1..Len(b) : old + m \in 1..Len(all) /\ all[old + m] = b[m]
    BY <2>3, <2>5, <2>6
  <2> QED
    BY <2>3, <2>4, <2>7, <2>8
<1>13. \A i \in 1..old, m \in 1..Len(b) : st.rings[i].id # b[m].id
  <2>1. \A m \in 1..Len(b) : b[m].id \in DOMAIN st.tracks /\ b[m].id \notin DOMAIN st.spawned
    BY <1>11
  <2> QED
    BY <1>6, <2>1 DEF Stands
<1> HIDE DEF all, old
<1>14. NoStack(all)
  <2> SUFFICES ASSUME NEW i \in 1..Len(all), NEW j \in 1..Len(all), all[i].id = all[j].id
               PROVE  i = j
    BY DEF NoStack
  <2>0. all[i].id = all[j].id
    OBVIOUS
  <2>1. CASE i \in 1..old /\ j \in 1..old
    <3>1. all[i] = st.rings[i] /\ all[j] = st.rings[j]
      BY <1>12, <2>1
    <3>2. i \in 1..Len(st.rings) /\ j \in 1..Len(st.rings)
      BY <2>1 DEF old
    <3> QED
      BY <1>6, <2>0, <3>1, <3>2 DEF NoStack
  <2>2. CASE i \in 1..old /\ j \notin 1..old
    BY <1>12, <1>13, <2>2
  <2>3. CASE i \notin 1..old /\ j \in 1..old
    BY <1>12, <1>13, <2>3
  <2>4. CASE i \notin 1..old /\ j \notin 1..old
    <3>1. i - old = j - old
      BY <1>10, <1>12, <2>4
    <3> QED
      BY <1>6, <3>1
  <2> QED
    BY <2>1, <2>2, <2>3, <2>4
<1>15. ASSUME NEW i \in young
       PROVE  Stands(all[i], impactSpawned', tracks')
  <2>0. i \in 1..Len(all) /\ t - all[i].start <= ImpactMs
    OBVIOUS
  <2>1. CASE i \notin 1..old
    <3>1. all[i].id \in bang
      BY <1>11, <1>12, <2>0, <2>1
    <3>2. all[i].id \notin SkyIds
      BY <1>9, <3>1
    <3> QED
      BY <1>7, <3>2 DEF Stands
  <2>2. CASE i \in 1..old
    <3>1. all[i] = st.rings[i] /\ Stands(all[i], st.spawned, st.tracks)
      BY <1>6, <1>12, <2>2
    <3>2. CASE all[i].id \notin SkyIds
      BY <1>7, <3>2 DEF Stands
    <3>3. CASE all[i].id \in SkyIds
      <4>1. all[i].id \in DOMAIN st.spawned /\ all[i].start = st.spawned[all[i].id] /\ all[i].id \notin lost
        BY <1>9, <3>1, <3>3 DEF Stands
      <4>2. t - st.spawned[all[i].id] <= StaleMs
        BY SMTT(30), <1>1, <1>5, <2>0, <4>1, RoundsAssumption
      <4> QED
        BY <1>8, <4>1, <4>2 DEF Stands
    <3> QED
      BY <3>2, <3>3
  <2> QED
    BY <2>1, <2>2
<1> HIDE DEF bang, lost
<1>16. Picks(impacts', all, young)
  <2>1. young \in SUBSET (1..Len(all))
    OBVIOUS
  <2> HIDE DEF young
  <2> QED
    BY <1>4, <1>12, <2>1, PlacesPick
<1>17. \A m \in 1..Len(impacts') : NthOf(young, m) \in young /\ impacts'[m] = all[NthOf(young, m)]
  BY <1>16 DEF Picks
<1>18. impacts' \in Seq(RingRec)
  <2>1. \A i \in young : all[i] \in RingRec
    BY <1>12
  <2> HIDE DEF young
  <2>2. \A m \in 1..Len(impacts') : impacts'[m] \in RingRec
    BY <1>17, <2>1
  <2>3. Len(impacts') \in Nat /\ impacts' = [m \in 1..Len(impacts') |-> impacts'[m]]
    BY <1>16 DEF Picks
  <2> QED
    BY <2>2, <2>3
<1>19. NoStack(impacts')
  <2> SUFFICES ASSUME NEW l \in 1..Len(impacts'), NEW m \in 1..Len(impacts'), impacts'[l].id = impacts'[m].id
               PROVE  l = m
    BY DEF NoStack
  <2>1. NthOf(young, l) \in 1..Len(all) /\ NthOf(young, m) \in 1..Len(all)
    BY <1>17
  <2>2. NthOf(young, l) = NthOf(young, m)
    BY <1>14, <1>17, <2>1 DEF NoStack
  <2> QED
    BY <1>16, <2>2 DEF Picks
<1>20. \A m \in 1..Len(impacts') : Stands(impacts'[m], impactSpawned', tracks')
  BY <1>15, <1>17
<1>21. bursts' \in [RoundIds -> Nat]
  <2> DEFINE new(r) == Cardinality({i \in 1..Len(all) : all[i].id = r /\ i > Len(impacts)})
  <2>1. \A r \in RoundIds : new(r) \in Nat
    <3> TAKE r \in RoundIds
    <3>1. {i \in 1..Len(all) : all[i].id = r /\ i > Len(impacts)} \in SUBSET (1..Len(all)) /\ IsFiniteSet(1..Len(all))
      BY <1>12, FS_Interval
    <3> QED
      BY <3>1, FS_Subset, FS_CardinalityType
  <2>2. bursts' = [r \in RoundIds |-> bursts[r] + new(r)]
    BY <1>4
  <2> HIDE DEF new
  <2>3. \A r \in RoundIds : bursts[r] + new(r) \in Nat
    BY <1>1, <2>1
  <2> QED
    BY <2>2, <2>3
<1>22. TrackerBounded'
  BY <1>4, <1>7, <1>8 DEF TrackerBounded, SkyIds
<1>24. LostBurstOnce
  <2> SUFFICES ASSUME NEW s \in DOMAIN tracks, s \notin SkyIds, SkyIds \subseteq DOMAIN tracks
               PROVE  bursts'[s] = IF s \in DOMAIN impactSpawned \/ t - tracks[s].seen > StaleMs
                                   THEN bursts[s] ELSE bursts[s] + 1
    BY <1>4 DEF LostBurstOnce, SkyIds
  <2> DEFINE C == {i \in 1..Len(all) : all[i].id = s /\ i > Len(impacts)}
  <2>1. /\ s \in lost /\ st.tracks[s] = tracks[s] /\ s \in RoundIds /\ tracks[s].seen \in Int
        /\ s \in DOMAIN st.spawned <=> s \in DOMAIN impactSpawned
    BY <1>1, <1>5 DEF lost
  <2>2. bursts'[s] = bursts[s] + Cardinality(C) /\ bursts[s] \in Nat
    BY <1>1, <1>4, <2>1
  <2>3. s \in bang <=> ~(s \in DOMAIN impactSpawned \/ t - tracks[s].seen > StaleMs)
    <3>1. s \in bang <=> s \notin DOMAIN st.spawned /\ t - st.tracks[s].seen <= StaleMs
      BY <2>1 DEF bang
    <3>2. t \in Int /\ StaleMs \in Int
      BY <1>1, RoundsAssumption
    <3>3. t - tracks[s].seen <= StaleMs <=> ~(t - tracks[s].seen > StaleMs)
      BY <2>1, <3>2
    <3> QED
      BY <2>1, <3>1, <3>3
  <2>4. \A i \in C : i \notin 1..old /\ i - old \in 1..Len(b) /\ b[i - old].id = s
    BY SMTT(30), <1>6, <1>12
  <2>5. CASE s \notin bang
    <3>1. C = {}
      BY <1>11, <2>4, <2>5
    <3>2. Cardinality(C) = 0
      BY <3>1, FS_EmptySet
    <3> QED
      BY <2>2, <2>3, <2>5, <3>2
  <2>6. CASE s \in bang
    <3>1. PICK m \in 1..Len(b) : b[m].id = s
      BY <1>10, <2>6
    <3>2. old + m \in C
      <4>1. old + m \in 1..Len(all) /\ all[old + m].id = s
        BY <1>12, <3>1
      <4>2. m \in Nat /\ m > 0 /\ old \in Nat /\ Len(impacts) <= old /\ Len(impacts) \in Nat
        BY <1>1, <1>6, <1>10
      <4>3. old + m > Len(impacts)
        BY <4>2
      <4> QED
        BY <4>1, <4>3
    <3>3. \A i \in C : i = old + m
      <4> TAKE i \in C
      <4>1. i - old = m
        BY <1>10, <2>4, <3>1
      <4> QED
        BY <1>6, <1>12, <4>1
    <3>4. C = {old + m}
      BY <3>2, <3>3
    <3>5. Cardinality(C) = 1
      BY <3>4, FS_Singleton
    <3> QED
      BY <2>2, <2>3, <2>6, <3>5
  <2> QED
    BY <2>5, <2>6
<1>23. RoundInv'
  <2>1. \A s \in DOMAIN tracks' : tracks'[s].at \in Int /\ tracks'[s].seen \in Int
    BY <1>5, <1>7
  <2>2. \A s \in DOMAIN impactSpawned' : impactSpawned'[s] \in Int
    BY <1>5, <1>8
  <2>3. SkyIds' = SkyIds /\ RoundRec' = RoundRec /\ RingRec' = RingRec
    BY <1>4 DEF SkyIds, RoundRec, RingRec
  <2> QED
    BY Zenon, <1>1, <1>2, <1>4, <1>7, <1>18, <1>19, <1>20, <1>21, <1>22, <2>1, <2>2, <2>3 DEF RoundInv, Stands
<1> QED
  BY <1>23, <1>24

LEMMA SkyKeeps ==
  ASSUME RoundInv, NEW K \in SUBSET (1..Len(rounds)), NEW new \in {None, "first", "last"},
         NEW m \in NextPlaces(K),
         NextSky([k \in K |-> [id |-> rounds[k].id, at |-> rounds[k].at + m[k].move, hit |-> m[k].hit]], new)
  PROVE  RoundInv'
<1> DEFINE next == [k \in K |-> [id |-> rounds[k].id, at |-> rounds[k].at + m[k].move, hit |-> m[k].hit]]
           flown == AtPlaces(next, DOMAIN next)
           shot == [id |-> fired + 1, at |-> 0, hit |-> FALSE]
           to == 1..fired'
<1>1. /\ rounds # None /\ (new # None => fired < Cardinality(RoundIds))
      /\ rounds' = CASE new = "first" -> <<shot>> \o flown
                     [] new = "last" -> Append(flown, shot)
                     [] OTHER -> flown
      /\ fired' = IF new = None THEN fired ELSE fired + 1
      /\ newFrame' = TRUE
      /\ UNCHANGED <<tracks, impacts, impactSpawned, paintedAt, bursts>>
  BY DEF NextSky
<1>2. /\ rounds \in Seq(RoundRec) /\ Len(rounds) \in Nat /\ fired \in Nat /\ impacts \in Seq(RingRec)
      /\ fired <= Cardinality(RoundIds) /\ Cardinality(RoundIds) \in Nat
      /\ DOMAIN tracks \subseteq 1..fired
  BY <1>1, RoundsAssumption, FS_CardinalityType DEF RoundInv
<1>3. \A k \in K : next[k] \in RoundRec /\ next[k].id \in SkyIds
  <2> TAKE k \in K
  <2>1. k \in 1..Len(rounds) /\ rounds[k] \in RoundRec /\ m[k] \in [move : {0, 1}, hit : BOOLEAN]
    BY <1>2 DEF NextPlaces
  <2>2. rounds[k].id \in 1..fired /\ rounds[k].at + m[k].move \in Int /\ m[k].hit \in BOOLEAN
    BY <2>1 DEF RoundRec
  <2>3. next[k] = [id |-> rounds[k].id, at |-> rounds[k].at + m[k].move, hit |-> m[k].hit]
    OBVIOUS
  <2> QED
    BY <2>1, <2>2, <2>3 DEF RoundRec, SkyIds
<1>4. Picks(flown, next, K)
  <2>1. DOMAIN next = K
    OBVIOUS
  <2> HIDE DEF next
  <2> QED
    BY <1>2, <2>1, PlacesPick
<1> HIDE DEF next, flown
<1>5. /\ flown \in Seq(RoundRec)
      /\ \A i \in 1..Len(flown) : flown[i].id \in SkyIds
  <2>1. \A i \in 1..Len(flown) : flown[i] \in RoundRec /\ flown[i].id \in SkyIds
    BY <1>3, <1>4 DEF Picks
  <2>2. Len(flown) \in Nat /\ flown = [i \in 1..Len(flown) |-> flown[i]]
    BY <1>4 DEF Picks
  <2> QED
    BY <2>1, <2>2
<1>6. /\ fired' \in Nat /\ fired' <= Cardinality(RoundIds) /\ fired <= fired'
      /\ new # None => fired' = fired + 1
  BY <1>1, <1>2
<1>7. flown \in Seq(RoundRec') /\ impacts' \in Seq(RingRec') /\ DOMAIN tracks' \subseteq 1..fired'
  <2>1. 1..fired \subseteq 1..fired'
    BY <1>2, <1>6
  <2>2. RoundRec \subseteq RoundRec' /\ RingRec \subseteq RingRec'
    BY <2>1 DEF RoundRec, RingRec
  <2>3. \A i \in 1..Len(flown) : flown[i] \in RoundRec'
    BY <1>5, <2>2
  <2>4. \A i \in 1..Len(impacts) : impacts[i] \in RingRec'
    BY <1>2, <2>2
  <2>5. flown \in Seq(RoundRec')
    BY <1>5, <2>3
  <2>6. impacts \in Seq(RingRec')
    BY <1>2, <2>4
  <2>7. DOMAIN tracks \subseteq 1..fired'
    BY <1>2, <2>1
  <2> QED
    BY <1>1, <2>5, <2>6, <2>7
<1>8. /\ rounds' \in Seq(RoundRec')
      /\ \A i \in 1..Len(rounds') : rounds'[i].id \in SkyIds \/ rounds'[i].id = fired + 1
  <2>1. CASE new = None \/ new \notin {"first", "last"}
    <3>1. new # "first" /\ new # "last" => rounds' = flown
      BY <1>1
    <3>2. CASE new \in {"first", "last"}
      <4>1. new = None
        BY <2>1, <3>2
      <4>2. FALSE
        BY <3>2, <4>1, RoundsAssumption
      <4> QED
        BY <4>2
    <3> QED
      BY <1>5, <1>7, <3>1, <3>2
  <2>2. CASE new \in {"first", "last"} /\ new # None
    <3>1. shot \in RoundRec' /\ shot.id = fired + 1
      BY <1>2, <1>6, <2>2 DEF RoundRec
    <3> HIDE DEF shot
    <3>2. CASE new = "first"
      <4>1. rounds' = <<shot>> \o flown /\ <<shot>> \in Seq(RoundRec')
        BY <1>1, <3>1, <3>2
      <4>2. Len(<<shot>>) = 1 /\ <<shot>>[1] = shot
        OBVIOUS
      <4>3. /\ rounds' \in Seq(RoundRec') /\ Len(rounds') = 1 + Len(flown) /\ rounds'[1] = shot
            /\ \A i \in 1..Len(rounds') : i \in 1..1 \/ (i - 1 \in 1..Len(flown) /\ rounds'[i] = flown[i - 1])
        BY <1>7, <4>1, <4>2
      <4> QED
        BY <1>5, <3>1, <4>3
    <3>3. CASE new # "first"
      <4>1. rounds' = Append(flown, shot)
        BY <1>1, <2>2, <3>3
      <4>2. /\ rounds' \in Seq(RoundRec') /\ Len(rounds') = Len(flown) + 1
            /\ rounds'[Len(flown) + 1] = shot
            /\ \A i \in 1..Len(flown) : rounds'[i] = flown[i]
        BY <1>7, <3>1, <4>1
      <4>3. \A i \in 1..Len(rounds') : i \in 1..Len(flown) \/ i = Len(flown) + 1
        BY <1>7, <4>2
      <4> QED
        BY <1>5, <3>1, <4>2, <4>3
    <3> QED
      BY <3>2, <3>3
  <2> QED
    BY <2>1, <2>2
<1>9. SkyIds' \subseteq SkyIds \cup {fired + 1}
  BY <1>8 DEF SkyIds
<1>10. /\ \A i \in 1..Len(impacts) : impacts[i].id # fired + 1
       /\ \A i \in 1..Len(impacts) : Stands(impacts[i], impactSpawned, tracks)
       /\ NoStack(impacts) /\ bursts \in [RoundIds -> Nat] /\ paintedAt \in Int
       /\ \A s \in DOMAIN tracks : tracks[s].at \in Int /\ tracks[s].seen \in Int
       /\ \A s \in DOMAIN impactSpawned : impactSpawned[s] \in Int
  <2>1. \A i \in 1..Len(impacts) : impacts[i] \in RingRec
    BY <1>2
  <2>2. \A i \in 1..Len(impacts) : impacts[i].id # fired + 1
    BY <1>2, <2>1 DEF RingRec
  <2> QED
    BY <1>1, <2>2 DEF RoundInv
<1>11. \A i \in 1..Len(impacts') : (impacts'[i].id \in DOMAIN impactSpawned' /\ impacts'[i].start = impactSpawned'[impacts'[i].id])
                                   \/ (impacts'[i].id \notin SkyIds' /\ impacts'[i].id \notin DOMAIN tracks')
  BY <1>1, <1>9, <1>10 DEF Stands
<1>12. TrackerBounded'
  BY <1>1 DEF TrackerBounded
<1> QED
  BY <1>1, <1>6, <1>7, <1>8, <1>10, <1>11, <1>12 DEF RoundInv, Stands, NoStack

LEMMA RoundsKeep ==
  ASSUME RoundInv, RoundsOn
  PROVE  RoundInv' /\ [LostBurstOnce]_roundVars
<1>1. CASE UNCHANGED roundVars
  <2>1. RoundInv'
    BY <1>1 DEF roundVars, RoundInv, TrackerBounded, NoStack, Stands, SkyIds, RoundRec, RingRec
  <2> QED
    BY <1>1, <2>1
<1>2. ASSUME NEW dt \in {1, StaleMs + 1}, DrawProjectilesAndImpacts(dt)
      PROVE  RoundInv' /\ LostBurstOnce
  <2>1. dt \in Nat
    BY RoundsAssumption
  <2> QED
    BY <1>2, <2>1, PaintKeeps
<1>3. ASSUME NEW K \in SUBSET (1..Len(rounds)), NEW new \in {None, "first", "last"}, NEW m \in NextPlaces(K),
             NextSky([k \in K |-> [id |-> rounds[k].id, at |-> rounds[k].at + m[k].move, hit |-> m[k].hit]], new)
      PROVE  RoundInv' /\ LostBurstOnce
  <2>1. RoundInv'
    BY <1>3, SkyKeeps
  <2>2. paintedAt' = paintedAt
    BY <1>3 DEF NextSky
  <2> QED
    BY <2>1, <2>2 DEF LostBurstOnce
<1> QED
  BY <1>1, <1>2, <1>3 DEF RoundsOn, RoundsNext

(* Over any series of paints and frames, the tracker follows what flies,   *)
(* forgets the rest, never stacks two rings of one round, and what it      *)
(* loses bursts once, where it was last seen (canvas/projectiles.ts).      *)
THEOREM RoundsBurstOnce == ScreenSpec => RoundsAgree
<1>1. ScreenInit => RoundInv
  BY PartsInit, RoundsStart
<1>2. RoundInv /\ [ScreenNext]_screenVars => RoundInv'
  BY PartsNext, RoundsKeep
<1>3. RoundInv => RingsDontStack /\ TrackerBounded
  BY DEF RoundInv, NoStack, RingsDontStack, TrackerBounded
<1>4. RoundInv /\ [ScreenNext]_screenVars =>
        [\A s \in DOMAIN tracks :
           /\ paintedAt' # paintedAt
           /\ s \notin {rounds[k].id : k \in 1..Len(rounds)}
           /\ {rounds[k].id : k \in 1..Len(rounds)} \subseteq DOMAIN tracks
           => bursts'[s] = IF s \in DOMAIN impactSpawned \/ paintedAt' - tracks[s].seen > StaleMs
                           THEN bursts[s] ELSE bursts[s] + 1]_roundVars
  BY PartsNext, RoundsKeep DEF LostBurstOnce
<1> QED
  BY <1>1, <1>2, <1>3, <1>4, PTL DEF ScreenSpec, RoundsAgree, LostOnesBurst

-----------------------------------------------------------------------------
(* Objectives *)

ZoneRec == [locked : BOOLEAN, owner : {0, 1, 2}, taking : {0, 1, 2}, pct : {0, 50, 100},
            read : BOOLEAN]

(* Who is at a zone, and how far, fits whose it is.                        *)
Sound(s) ==
  /\ s.taking > 0 => ~s.locked /\ s.pct = 50
  /\ s.taking = 0 /\ s.owner = 0 => s.pct \in {0, 50}

(* How many events it takes at least to bring an objective there; no event *)
(* brings one further by more than one.                                    *)
Effort(s) ==
  IF s.owner > 0 \/ (s.taking = 0 /\ s.pct = 50) THEN IF s.locked THEN 4 ELSE 3
  ELSE IF s.taking > 0 THEN 2 ELSE IF s.locked THEN 0 ELSE 1

Worked(zs) == {x \in Candidates \X (1..4) : zs[x[1]] # None /\ x[2] <= Effort(zs[x[1]])}

CapInv ==
  zones # << >> =>
    /\ zones \in [Zones -> ZoneRec \cup {None}]
    /\ \A z \in LiveZones : Sound(zones[z])
    /\ rolled = None => LiveZones = {} \/ LiveZones = Zones
    /\ rolled # None => rolled \in Lanes /\ \A z \in LiveZones : z \in rolled \/ IsMainZone(z)
    /\ zoneEvents \in Nat /\ zoneEvents <= MaxZoneEvents
    /\ Cardinality(Worked(zones)) <= zoneEvents

LEMMA ZonesCount ==
  /\ IsFiniteSet(Zones) /\ Zones \subseteq Int
  /\ IsFiniteSet(Candidates) /\ Candidates \subseteq Zones
  /\ \A D \in SUBSET (Candidates \X (1..4)) : IsFiniteSet(D) /\ Cardinality(D) \in Nat
<1>1. IsFiniteSet(Zones) /\ Zones = 1..Cardinality(Zones)
  BY LanesAssumption
<1>2. Candidates \subseteq Zones
  BY DEF Candidates
<1>3. IsFiniteSet(Candidates)
  BY <1>1, <1>2, FS_Subset
<1>4. IsFiniteSet(1..4)
  <2>1. 1 \in Int /\ 4 \in Int
    OBVIOUS
  <2> QED
    BY <2>1, FS_Interval
<1>5. IsFiniteSet(Candidates \X (1..4))
  BY <1>3, <1>4, FS_Product
<1>6. ASSUME NEW D \in SUBSET (Candidates \X (1..4))
      PROVE  IsFiniteSet(D) /\ Cardinality(D) \in Nat
  BY <1>5, FS_Subset, FS_CardinalityType
<1>7. Zones \subseteq Int
  <2> DEFINE c == Cardinality(Zones)
  <2>1. c \in Nat /\ Zones = 1..c
    BY <1>1, FS_CardinalityType
  <2> HIDE DEF c
  <2> QED
    BY <2>1
<1> QED
  BY <1>1, <1>2, <1>3, <1>6, <1>7, Zenon

LEMMA WorkedShrinks ==
  ASSUME NEW zs, NEW zt, \A z \in Candidates : zt[z] = None \/ zt[z] = zs[z]
  PROVE  Cardinality(Worked(zt)) <= Cardinality(Worked(zs))
<1>1. Worked(zt) \subseteq Worked(zs)
  BY DEF Worked
<1>2. IsFiniteSet(Worked(zs))
  BY ZonesCount DEF Worked
<1> QED
  BY <1>1, <1>2, FS_Subset

LEMMA CapStarts ==
  ASSUME CapInit \/ CapOff
  PROVE  CapInv
<1>1. CASE CapOff
  BY <1>1 DEF CapOff, CapInv
<1>2. CASE CapInit
  <2>1. zoneEvents = 0 /\ rolled = None /\ 0 \in Nat /\ 0 <= MaxZoneEvents
    BY <1>2, LanesAssumption DEF CapInit
  <2>2. \/ zones = [z \in Zones |-> [DormantZone EXCEPT !.owner = IF ZoneOf[z].main THEN 1 ELSE 0]]
        \/ zones = [z \in Zones |-> None]
    BY <1>2 DEF CapInit
  <2>3. \A z \in Zones : zones[z] = None \/ (zones[z] \in ZoneRec /\ Sound(zones[z]) /\ (~IsMainZone(z) => Effort(zones[z]) = 0))
    <3> SUFFICES ASSUME NEW z \in Zones, zones[z] # None
                 PROVE  zones[z] \in ZoneRec /\ Sound(zones[z]) /\ (~IsMainZone(z) => Effort(zones[z]) = 0)
      OBVIOUS
    <3> DEFINE o == IF ZoneOf[z].main THEN 1 ELSE 0
               s == [locked |-> TRUE, owner |-> o, taking |-> 0, pct |-> 0, read |-> TRUE]
    <3>1. zones[z] = s
      BY <2>2 DEF DormantZone
    <3>2. s.locked /\ s.owner = o /\ s.taking = 0 /\ s.pct = 0 /\ s \in ZoneRec
      BY DEF ZoneRec
    <3>3. o \in {0, 1} /\ (~IsMainZone(z) => o = 0)
      BY DEF IsMainZone
    <3> HIDE DEF s, o
    <3>4. Sound(s) /\ (~IsMainZone(z) => Effort(s) = 0)
      BY <3>2, <3>3 DEF Sound, Effort
    <3> QED
      BY <3>1, <3>2, <3>4
  <2>4. DOMAIN zones = Zones /\ zones = [z \in Zones |-> zones[z]]
    BY <2>2
  <2>5. zones \in [Zones -> ZoneRec \cup {None}]
    BY <2>3, <2>4
  <2>6. LiveZones = {} \/ LiveZones = Zones
    <3>1. None \notin ZoneRec
      BY LanesAssumption DEF ZoneRec
    <3>2. CASE zones = [z \in Zones |-> None]
      BY <3>2 DEF LiveZones
    <3>3. CASE zones = [z \in Zones |-> [DormantZone EXCEPT !.owner = IF ZoneOf[z].main THEN 1 ELSE 0]]
      <4>1. \A z \in Zones : zones[z] \in ZoneRec
        BY <3>3 DEF DormantZone, ZoneRec
      <4> QED
        BY <3>1, <4>1, <2>4 DEF LiveZones
    <3> QED
      BY <2>2, <3>2, <3>3
  <2>7. Worked(zones) = {}
    <3> SUFFICES ASSUME NEW x \in Worked(zones) PROVE FALSE
      OBVIOUS
    <3>1. x[1] \in Zones /\ ~IsMainZone(x[1]) /\ x[2] \in 1..4 /\ zones[x[1]] # None /\ x[2] <= Effort(zones[x[1]])
      BY DEF Worked, Candidates
    <3> QED
      BY <2>3, <3>1
  <2>8. Cardinality(Worked(zones)) = 0
    BY <2>7, FS_EmptySet
  <2> QED
    <3>1. \A z \in LiveZones : Sound(zones[z])
      BY <2>3, <2>4 DEF LiveZones
    <3> QED
      BY <2>1, <2>5, <2>6, <2>8, <3>1 DEF CapInv
<1> QED
  BY <1>1, <1>2

\* What happens to one zone.
LEMMA ZoneKeeps ==
  ASSUME CapInv, zones # << >>, NEW z \in LiveZones, NEW s \in ZoneRec, Zone(z, s),
         Sound(s), ~IsMainZone(z) => Effort(s) <= Effort(zones[z]) + 1
  PROVE  CapInv'
<1> USE DEF Zone, ZoneEvent
<1>1. /\ zones \in [Zones -> ZoneRec \cup {None}] /\ z \in Zones
      /\ zoneEvents \in Nat /\ zoneEvents < MaxZoneEvents /\ MaxZoneEvents \in Nat
      /\ zones[z] # None /\ zones[z] \in ZoneRec
  BY LanesAssumption DEF CapInv, LiveZones
<1>2. zones' = [zones EXCEPT ![z] = s] /\ rolled' = rolled /\ zoneEvents' = zoneEvents + 1
  OBVIOUS
<1>3. zones' \in [Zones -> ZoneRec \cup {None}]
  BY <1>1, <1>2
<1>4. s # None
  BY LanesAssumption DEF ZoneRec
<1>5. LiveZones' = LiveZones
  BY <1>1, <1>2, <1>4 DEF LiveZones
<1>6. \A y \in LiveZones' : Sound(zones'[y])
  BY <1>1, <1>2, <1>5 DEF CapInv, LiveZones
<1>7. Cardinality(Worked(zones')) <= zoneEvents'
  <2> DEFINE W == Worked(zones)
             x == <<z, Effort(s)>>
             V == Worked(zones')
  <2>1. IsFiniteSet(W) /\ Cardinality(W) \in Nat /\ IsFiniteSet(V) /\ Cardinality(V) \in Nat
    BY ZonesCount DEF Worked
  <2>2. V \subseteq W \cup {x}
    <3> SUFFICES ASSUME NEW y \in V, y \notin W PROVE y = x
      OBVIOUS
    <3>1. y = <<y[1], y[2]>> /\ y[1] \in Candidates /\ y[2] \in 1..4 /\ zones'[y[1]] # None /\ y[2] <= Effort(zones'[y[1]])
      BY DEF Worked
    <3>2. y[1] \in Zones
      BY <3>1, ZonesCount
    <3>3. ~(zones[y[1]] # None /\ y[2] <= Effort(zones[y[1]]))
      BY <3>1 DEF Worked
    <3>4. y[1] = z
      BY <1>1, <1>2, <3>1, <3>2, <3>3
    <3>5. zones'[z] = s /\ ~IsMainZone(z)
      BY <1>1, <1>2, <3>1, <3>4 DEF Candidates
    <3>6. Effort(s) \in Int /\ Effort(zones[z]) \in Int
      BY DEF Effort
    <3>7. y[2] = Effort(s)
      BY <1>1, <3>1, <3>3, <3>4, <3>5, <3>6
    <3> QED
      BY <3>1, <3>4, <3>7
  <2> HIDE DEF W, V, x
  <2>3. IsFiniteSet(W \cup {x}) /\ Cardinality(W \cup {x}) <= Cardinality(W) + 1
        /\ Cardinality(W \cup {x}) \in Nat
    <3>1. IsFiniteSet(W \cup {x}) /\ (Cardinality(W \cup {x}) = Cardinality(W) \/ Cardinality(W \cup {x}) = Cardinality(W) + 1)
      BY <2>1, FS_AddElement
    <3>2. Cardinality(W \cup {x}) \in Nat
      BY <3>1, FS_CardinalityType
    <3> QED
      BY <2>1, <3>1, <3>2
  <2>4. Cardinality(V) <= Cardinality(W \cup {x})
    BY <2>2, <2>3, FS_Subset
  <2>5. Cardinality(W) <= zoneEvents
    BY DEF CapInv, W
  <2> QED
    BY <1>1, <1>2, <2>1, <2>3, <2>4, <2>5 DEF V
<1>8. rolled = None => LiveZones = {} \/ LiveZones = Zones
  BY DEF CapInv
<1>9. rolled # None => rolled \in Lanes /\ \A y \in LiveZones : y \in rolled \/ IsMainZone(y)
  BY DEF CapInv
<1>10. zoneEvents' \in Nat /\ zoneEvents' <= MaxZoneEvents
  BY <1>1, <1>2
<1> QED
  BY <1>2, <1>3, <1>5, <1>6, <1>7, <1>8, <1>9, <1>10 DEF CapInv

LEMMA RollKeeps ==
  ASSUME CapInv, zones # << >>, NEW lane \in Lanes, Roll(lane)
  PROVE  CapInv'
<1>1. /\ zones \in [Zones -> ZoneRec \cup {None}] /\ zoneEvents \in Nat /\ zoneEvents <= MaxZoneEvents
      /\ \A z \in LiveZones : Sound(zones[z])
      /\ Cardinality(Worked(zones)) <= zoneEvents
  BY DEF CapInv
<1>2. /\ rolled' = lane /\ zoneEvents' = zoneEvents /\ lane # None
      /\ zones' = [z \in Zones |-> IF z \in lane \/ ZoneOf[z].main THEN zones[z] ELSE None]
  BY LanesAssumption DEF Roll
<1>3. zones' \in [Zones -> ZoneRec \cup {None}]
  BY <1>1, <1>2
<1>4. \A z \in LiveZones' : z \in LiveZones /\ zones'[z] = zones[z] /\ (z \in lane \/ IsMainZone(z))
  BY <1>1, <1>2 DEF LiveZones, IsMainZone
<1>5. \A z \in Candidates : zones'[z] = None \/ zones'[z] = zones[z]
  BY <1>2 DEF Candidates
<1>6. Cardinality(Worked(zones')) <= Cardinality(Worked(zones))
  BY <1>5, WorkedShrinks
<1>7. Cardinality(Worked(zones')) \in Nat /\ Cardinality(Worked(zones)) \in Nat
  BY ZonesCount DEF Worked
<1>8. Cardinality(Worked(zones')) <= zoneEvents
  BY <1>1, <1>6, <1>7
<1>9. \A z \in LiveZones' : Sound(zones'[z])
  BY <1>1, <1>4
<1> QED
  BY <1>1, <1>2, <1>3, <1>4, <1>8, <1>9 DEF CapInv

LEMMA CapKeeps ==
  ASSUME CapInv, CapsOn
  PROVE  CapInv'
<1>1. CASE UNCHANGED capVars
  BY <1>1 DEF capVars, CapInv, LiveZones, Worked
<1>2. CASE zones = << >>
  BY <1>1, <1>2 DEF CapsOn, CapNext
<1> SUFFICES ASSUME zones # << >>, CapNext PROVE CapInv'
  BY <1>1, <1>2 DEF CapsOn
<1>3. ASSUME NEW z \in LiveZones
      PROVE  zones[z] \in ZoneRec /\ Sound(zones[z])
  BY DEF CapInv, LiveZones
<1>4. ASSUME NEW z \in Zones, Unlock(z)
      PROVE  CapInv'
  <2> DEFINE s == [zones[z] EXCEPT !.locked = FALSE]
  <2>1. z \in LiveZones /\ zones[z].locked /\ Zone(z, s)
    BY <1>4 DEF Unlock
  <2>2. zones[z] \in ZoneRec /\ Sound(zones[z])
    BY <1>3, <2>1
  <2>3. s \in ZoneRec /\ zones[z].owner \in {0, 1, 2} /\ zones[z].taking \in {0, 1, 2}
    <3>1. s \in ZoneRec
      BY <2>2, ZenonT(30) DEF ZoneRec
    <3>2. zones[z].owner \in {0, 1, 2} /\ zones[z].taking \in {0, 1, 2}
      BY <2>2 DEF ZoneRec
    <3> QED
      BY <3>1, <3>2
  <2>4. ~s.locked /\ s.owner = zones[z].owner /\ s.taking = zones[z].taking /\ s.pct = zones[z].pct
    BY <2>2 DEF ZoneRec
  <2> HIDE DEF s
  <2>5. Sound(s)
    BY <2>1, <2>2, <2>3, <2>4 DEF Sound
  <2>6. Effort(s) <= Effort(zones[z]) + 1
    BY <2>1, <2>2, <2>3, <2>4 DEF Sound, Effort
  <2> QED
    BY <2>1, <2>2, <2>3, <2>5, <2>6, ZoneKeeps DEF s
<1>5. ASSUME NEW z \in Zones, NEW t \in {1, 2}, Take(z, t)
      PROVE  CapInv'
  <2> DEFINE s == [zones[z] EXCEPT !.taking = t, !.pct = 50]
  <2>1. z \in LiveZones /\ ~zones[z].locked /\ zones[z].taking = 0 /\ Zone(z, s)
    BY <1>5 DEF Take
  <2>2. zones[z] \in ZoneRec /\ Sound(zones[z])
    BY <1>3, <2>1
  <2>3. s \in ZoneRec /\ zones[z].owner \in {0, 1, 2} /\ zones[z].taking \in {0, 1, 2}
    <3> DEFINE u == [zones[z] EXCEPT !.taking = t]
    <3>1. t \in {0, 1, 2} /\ 50 \in {0, 50, 100}
      OBVIOUS
    <3>2. u \in ZoneRec
      BY <2>2, <3>1, ZenonT(30) DEF ZoneRec
    <3>3. s = [u EXCEPT !.pct = 50]
      OBVIOUS
    <3> HIDE DEF u
    <3>4. s \in ZoneRec
      BY <3>1, <3>2, <3>3, ZenonT(30) DEF ZoneRec
    <3>5. zones[z].owner \in {0, 1, 2} /\ zones[z].taking \in {0, 1, 2}
      BY <2>2 DEF ZoneRec
    <3> QED
      BY <3>4, <3>5
  <2>4. s.locked = zones[z].locked /\ s.owner = zones[z].owner /\ s.taking = t /\ s.pct = 50
    BY <2>2 DEF ZoneRec
  <2> HIDE DEF s
  <2>5. Sound(s)
    BY <2>1, <2>2, <2>3, <2>4 DEF Sound
  <2>6. Effort(s) <= Effort(zones[z]) + 1
    BY <2>1, <2>2, <2>3, <2>4 DEF Sound, Effort
  <2> QED
    BY <2>1, <2>2, <2>3, <2>5, <2>6, ZoneKeeps DEF s
<1>6. ASSUME NEW z \in Zones, Captured(z)
      PROVE  CapInv'
  <2> DEFINE s == [zones[z] EXCEPT !.owner = zones[z].taking, !.taking = 0, !.pct = 100]
  <2>1. z \in LiveZones /\ zones[z].taking > 0 /\ Zone(z, s)
    BY <1>6 DEF Captured
  <2>2. zones[z] \in ZoneRec /\ Sound(zones[z])
    BY <1>3, <2>1
  <2>3. s \in ZoneRec /\ zones[z].owner \in {0, 1, 2} /\ zones[z].taking \in {0, 1, 2}
    <3> DEFINE t == zones[z].taking
               u == [zones[z] EXCEPT !.owner = t]
               v == [u EXCEPT !.taking = 0]
    <3>1. zones[z].owner \in {0, 1, 2} /\ zones[z].taking \in {0, 1, 2}
      BY <2>2 DEF ZoneRec
    <3>2. t \in {0, 1, 2} /\ 0 \in {0, 1, 2} /\ 100 \in {0, 50, 100}
      BY <3>1
    <3>3. s = [v EXCEPT !.pct = 100]
      OBVIOUS
    <3> HIDE DEF t
    <3>4. u \in ZoneRec
      BY <2>2, <3>2, ZenonT(30) DEF ZoneRec
    <3> HIDE DEF u
    <3>5. v \in ZoneRec
      BY <3>2, <3>4, ZenonT(30) DEF ZoneRec
    <3> HIDE DEF v
    <3>6. s \in ZoneRec
      BY <3>2, <3>3, <3>5, ZenonT(30) DEF ZoneRec
    <3> QED
      BY <3>1, <3>6
  <2>4. s.locked = zones[z].locked /\ s.owner = zones[z].taking /\ s.taking = 0 /\ s.pct = 100
    BY <2>2 DEF ZoneRec
  <2> HIDE DEF s
  <2>5. Sound(s)
    BY <2>1, <2>2, <2>3, <2>4 DEF Sound
  <2>6. Effort(s) <= Effort(zones[z]) + 1
    BY <2>1, <2>2, <2>3, <2>4 DEF Sound, Effort
  <2> QED
    BY <2>1, <2>2, <2>3, <2>5, <2>6, ZoneKeeps DEF s
<1>7. ASSUME NEW z \in Zones, Relock(z)
      PROVE  CapInv'
  <2> DEFINE s == [zones[z] EXCEPT !.locked = TRUE]
  <2>1. z \in LiveZones /\ ~zones[z].locked /\ zones[z].taking = 0 /\ Zone(z, s)
    BY <1>7 DEF Relock
  <2>2. zones[z] \in ZoneRec /\ Sound(zones[z])
    BY <1>3, <2>1
  <2>3. s \in ZoneRec /\ zones[z].owner \in {0, 1, 2} /\ zones[z].taking \in {0, 1, 2}
    <3>1. s \in ZoneRec
      BY <2>2, ZenonT(30) DEF ZoneRec
    <3>2. zones[z].owner \in {0, 1, 2} /\ zones[z].taking \in {0, 1, 2}
      BY <2>2 DEF ZoneRec
    <3> QED
      BY <3>1, <3>2
  <2>4. s.locked /\ s.owner = zones[z].owner /\ s.taking = zones[z].taking /\ s.pct = zones[z].pct
    BY <2>2 DEF ZoneRec
  <2> HIDE DEF s
  <2>5. Sound(s)
    BY <2>1, <2>2, <2>3, <2>4 DEF Sound
  <2>6. Effort(s) <= Effort(zones[z]) + 1
    BY <2>1, <2>2, <2>3, <2>4 DEF Sound, Effort
  <2> QED
    BY <2>1, <2>2, <2>3, <2>5, <2>6, ZoneKeeps DEF s
<1>8. ASSUME NEW z \in Zones, PlaceUnread(z)
      PROVE  CapInv'
  <2> DEFINE s == [zones[z] EXCEPT !.read = FALSE]
  <2>1. z \in LiveZones /\ Zone(z, s)
    BY <1>8 DEF PlaceUnread, ReadZones
  <2>2. zones[z] \in ZoneRec /\ Sound(zones[z])
    BY <1>3, <2>1
  <2>3. s \in ZoneRec /\ zones[z].owner \in {0, 1, 2} /\ zones[z].taking \in {0, 1, 2}
    <3>1. s \in ZoneRec
      BY <2>2, ZenonT(30) DEF ZoneRec
    <3>2. zones[z].owner \in {0, 1, 2} /\ zones[z].taking \in {0, 1, 2}
      BY <2>2 DEF ZoneRec
    <3> QED
      BY <3>1, <3>2
  <2>4. s.locked = zones[z].locked /\ s.owner = zones[z].owner /\ s.taking = zones[z].taking /\ s.pct = zones[z].pct
    BY <2>2 DEF ZoneRec
  <2> HIDE DEF s
  <2>5. Sound(s)
    BY <2>1, <2>2, <2>3, <2>4 DEF Sound
  <2>6. Effort(s) <= Effort(zones[z]) + 1
    BY <2>1, <2>2, <2>3, <2>4 DEF Sound, Effort
  <2> QED
    BY <2>1, <2>2, <2>3, <2>5, <2>6, ZoneKeeps DEF s
<1>9. ASSUME NEW z \in Zones, Abandon(z)
      PROVE  CapInv'
  <2> DEFINE s == [zones[z] EXCEPT !.taking = 0]
  <2>1. z \in LiveZones /\ zones[z].taking > 0 /\ Zone(z, s)
    BY <1>9 DEF Abandon
  <2>2. zones[z] \in ZoneRec /\ Sound(zones[z])
    BY <1>3, <2>1
  <2>3. s \in ZoneRec /\ zones[z].owner \in {0, 1, 2} /\ zones[z].taking \in {0, 1, 2}
    <3>1. s \in ZoneRec
      BY <2>2, ZenonT(30) DEF ZoneRec
    <3>2. zones[z].owner \in {0, 1, 2} /\ zones[z].taking \in {0, 1, 2}
      BY <2>2 DEF ZoneRec
    <3> QED
      BY <3>1, <3>2
  <2>4. s.locked = zones[z].locked /\ s.owner = zones[z].owner /\ s.taking = 0 /\ s.pct = zones[z].pct
    BY <2>2 DEF ZoneRec
  <2> HIDE DEF s
  <2>5. Sound(s)
    BY <2>1, <2>2, <2>3, <2>4 DEF Sound
  <2>6. Effort(s) <= Effort(zones[z]) + 1
    BY <2>1, <2>2, <2>3, <2>4 DEF Sound, Effort
  <2> QED
    BY <2>1, <2>2, <2>3, <2>5, <2>6, ZoneKeeps DEF s
<1>10. ASSUME NEW z \in Zones, WearsOff(z)
       PROVE  CapInv'
  <2> DEFINE n == IF zones[z].owner = 0 THEN 0 ELSE 100
             s == [zones[z] EXCEPT !.pct = n]
  <2>1. z \in LiveZones /\ zones[z].taking = 0 /\ Zone(z, s)
    BY <1>10 DEF WearsOff
  <2>2. zones[z] \in ZoneRec /\ Sound(zones[z])
    BY <1>3, <2>1
  <2>a. n \in {0, 50, 100} /\ (zones[z].owner = 0 => n = 0) /\ n # 50
    OBVIOUS
  <2> HIDE DEF n
  <2>3. s \in ZoneRec /\ zones[z].owner \in {0, 1, 2} /\ zones[z].taking \in {0, 1, 2}
    <3>1. s \in ZoneRec
      BY <2>2, <2>a, ZenonT(30) DEF ZoneRec
    <3>2. zones[z].owner \in {0, 1, 2} /\ zones[z].taking \in {0, 1, 2}
      BY <2>2 DEF ZoneRec
    <3> QED
      BY <3>1, <3>2
  <2>4. s.locked = zones[z].locked /\ s.owner = zones[z].owner /\ s.taking = 0 /\ s.pct = n
    BY <2>1, <2>2 DEF ZoneRec
  <2> HIDE DEF s
  <2>5. Sound(s)
    BY <2>1, <2>2, <2>3, <2>4, <2>a DEF Sound
  <2>6. Effort(s) <= Effort(zones[z]) + 1
    BY <2>1, <2>2, <2>3, <2>4, <2>a DEF Sound, Effort
  <2> QED
    BY <2>1, <2>2, <2>3, <2>5, <2>6, ZoneKeeps DEF s, n
<1>11. ASSUME NEW lane \in Lanes, Roll(lane)
       PROVE  CapInv'
  BY <1>11, RollKeeps
<1> QED
  BY <1>4, <1>5, <1>6, <1>7, <1>8, <1>9, <1>10, <1>11 DEF CapNext

LEMMA ZoneFacts ==
  ASSUME CapInv, zones # << >>, NEW z \in LiveZones
  PROVE  /\ z \in Zones /\ zones[z] # None /\ zones[z] \in ZoneRec /\ Sound(zones[z])
         /\ zones[z].owner \in {0, 1, 2} /\ zones[z].taking \in {0, 1, 2} /\ zones[z].pct \in {0, 50, 100}
         /\ zones[z].owner \in Int /\ zones[z].taking \in Int
         /\ CapInPlay(z) <=> (~zones[z].locked \/ zones[z].owner > 0 \/ zones[z].pct > 0)
<1>1. z \in Zones /\ zones[z] # None /\ zones[z] \in ZoneRec /\ Sound(zones[z])
  BY DEF CapInv, LiveZones
<1>2. zones[z].owner \in {0, 1, 2} /\ zones[z].taking \in {0, 1, 2} /\ zones[z].pct \in {0, 50, 100}
  BY <1>1 DEF ZoneRec
<1>3. CapInPlay(z) <=> (~zones[z].locked \/ zones[z].owner > 0 \/ zones[z].pct > 0)
  BY <1>1, <1>2 DEF Sound, CapInPlay
<1> QED
  BY <1>1, <1>2, <1>3

LEMMA LiveAre ==
  ASSUME CapInv, zones # << >>
  PROVE  LiveZones \subseteq Zones
BY ZoneFacts

(* Before the roll all that nobody has is a cloud: what is left when as    *)
(* many are taken as the events allow.                                     *)
LEMMA CloudStands ==
  ASSUME CapInv, zones # << >>, rolled = None, LiveZones = Zones,
         \A z \in LiveZones : zones[z].locked, Dormant # {}
  PROVE  IsPreRollCloud
<1> DEFINE T == {z \in Candidates : zones[z].owner > 0 \/ zones[z].pct > 0}
<1>1. Dormant = Candidates \ T
  BY ZoneFacts DEF Dormant, Candidates
<1>2. T \in (SUBSET Candidates) \ {Candidates}
  BY <1>1
<1>3. T \X (1..4) \subseteq Worked(zones)
  <2> SUFFICES ASSUME NEW x \in T \X (1..4) PROVE x \in Worked(zones)
    OBVIOUS
  <2> DEFINE z == x[1]
             k == x[2]
  <2>0. z \in T /\ k \in 1..4 /\ x \in Candidates \X (1..4)
    OBVIOUS
  <2>1. z \in Candidates /\ (zones[z].owner > 0 \/ zones[z].pct > 0) /\ z \in LiveZones
    BY <2>0, ZonesCount
  <2>2. /\ zones[z] # None /\ zones[z].locked /\ Sound(zones[z])
        /\ zones[z].owner \in {0, 1, 2} /\ zones[z].taking \in {0, 1, 2} /\ zones[z].pct \in {0, 50, 100}
    BY <2>1, ZoneFacts
  <2>3. Effort(zones[z]) = 4
    BY <2>1, <2>2 DEF Effort, Sound
  <2>4. k <= 4
    BY <2>0
  <2> QED
    BY <2>0, <2>1, <2>2, <2>3, <2>4 DEF Worked
<1>4. IsFiniteSet(T) /\ Cardinality(T) \in Nat
  BY ZonesCount, FS_Subset, FS_CardinalityType
<1> HIDE DEF T
<1>5. Cardinality(T \X (1..4)) = 4 * Cardinality(T)
  <2>1. IsFiniteSet(1..4) /\ Cardinality(1..4) = 4
    <3>1. 1 \in Int /\ 4 \in Int
      OBVIOUS
    <3>2. IsFiniteSet(1..4) /\ Cardinality(1..4) = IF 1 > 4 THEN 0 ELSE 4 - 1 + 1
      BY <3>1, FS_Interval
    <3> QED
      BY <3>2
  <2>2. Cardinality(T \X (1..4)) = Cardinality(T) * Cardinality(1..4)
    BY <1>4, <2>1, FS_Product
  <2> QED
    BY <1>4, <2>1, <2>2
<1>6. Cardinality(T \X (1..4)) <= Cardinality(Worked(zones)) /\ Cardinality(Worked(zones)) \in Nat
  <2>1. IsFiniteSet(Worked(zones)) /\ Cardinality(Worked(zones)) \in Nat
    BY ZonesCount DEF Worked
  <2> QED
    BY <1>3, <2>1, FS_Subset
<1>7. Cardinality(Worked(zones)) <= zoneEvents /\ zoneEvents <= MaxZoneEvents /\ zoneEvents \in Nat /\ MaxZoneEvents \in Nat
  BY LanesAssumption DEF CapInv
<1>8. 4 * Cardinality(T) <= MaxZoneEvents
  BY <1>4, <1>5, <1>6, <1>7
<1>9. Cardinality(Candidates \ T) >= CloudMin \/ SameDepth(Candidates \ T, CloudDepthMin)
  BY <1>2, <1>8, LanesAssumption
<1> QED
  BY <1>1, <1>9 DEF IsPreRollCloud

LEMMA DepthsGrow ==
  ASSUME NEW A, NEW B \in SUBSET A, IsFiniteSet(A), NEW n \in Nat, SameDepth(B, n)
  PROVE  SameDepth(A, n)
<1>1. PICK z \in B : ZoneOf[z].depth # None /\ Cardinality({y \in B : ZoneOf[y].depth = ZoneOf[z].depth}) >= n
  BY DEF SameDepth
<1> DEFINE U == {y \in A : ZoneOf[y].depth = ZoneOf[z].depth}
           V == {y \in B : ZoneOf[y].depth = ZoneOf[z].depth}
<1>2. U \in SUBSET A /\ V \in SUBSET U
  OBVIOUS
<1>3. IsFiniteSet(U) /\ Cardinality(U) \in Nat
  BY <1>2, FS_Subset, FS_CardinalityType
<1>4. IsFiniteSet(V) /\ Cardinality(V) <= Cardinality(U) /\ Cardinality(V) \in Nat
  <2> HIDE DEF U, V
  <2> QED
    BY <1>2, <1>3, FS_Subset, FS_CardinalityType
<1>5. Cardinality(V) >= n
  BY <1>1
<1>6. Cardinality(U) >= n
  <2> HIDE DEF U, V
  <2> QED
    BY <1>3, <1>4, <1>5
<1> QED
  BY <1>1, <1>6 DEF SameDepth

(* What stands on the lane is no cloud.                                    *)
LEMMA CloudLifts ==
  ASSUME CapInv, zones # << >>, rolled # None
  PROVE  ~IsPreRollCloud
<1> DEFINE L == Candidates \cap rolled
<1>1. rolled \in Lanes /\ \A z \in LiveZones : z \in rolled \/ IsMainZone(z)
  BY DEF CapInv
<1>2. Dormant \subseteq L
  BY <1>1, LiveAre DEF Dormant, Candidates
<1>3. /\ Cardinality(L) < CloudMin /\ ~SameDepth(L, CloudDepthMin)
      /\ CloudMin \in Nat /\ CloudDepthMin \in Nat
  BY <1>1, LanesAssumption
<1>4. \A y, z \in {x \in Zones : x \in rolled \/ IsMainZone(x)} : Anchor(y) = Anchor(z) => y = z
  BY <1>1, LanesAssumption
<1>5. IsFiniteSet(L) /\ Cardinality(L) \in Nat
  BY ZonesCount, FS_Subset, FS_CardinalityType
<1>6. Cardinality(Dormant) <= Cardinality(L) /\ Cardinality(Dormant) \in Nat
  <2> HIDE DEF L
  <2> QED
    BY <1>2, <1>5, FS_Subset, FS_CardinalityType
<1>7. ~(Cardinality(Dormant) >= CloudMin)
  <2> HIDE DEF L
  <2> QED
    BY <1>3, <1>5, <1>6
<1>8. ~SameDepth(Dormant, CloudDepthMin)
  <2> HIDE DEF L
  <2> QED
    BY <1>2, <1>3, <1>5, DepthsGrow
<1>9. ~SamePlace(Dormant)
  <2> SUFFICES ASSUME NEW y \in Dormant, NEW z \in Dormant, y # z, Stand(y) # None, Stand(y) = Stand(z)
               PROVE  FALSE
    BY DEF SamePlace
  <2>1. Anchor(y) = Stand(y) /\ Anchor(z) = Stand(z)
    BY DEF Anchor, Stand, OrElse
  <2>2. y \in Zones /\ z \in Zones /\ y \in rolled /\ z \in rolled
    BY <1>2, ZonesCount
  <2> QED
    BY <1>4, <2>1, <2>2
<1> QED
  BY <1>7, <1>8, <1>9 DEF IsPreRollCloud

LEMMA FogIs ==
  ASSUME CapInv
  PROVE  FogLifts
<1> SUFFICES ASSUME zones # << >>, LiveZones # {}
             PROVE  /\ rolled # None => VisibleCaps = LiveZones
                    /\ rolled = None /\ (\A z \in LiveZones : zones[z].locked) =>
                         \A z \in VisibleCaps : IsMainZone(z) \/ CapInPlay(z)
  BY DEF FogLifts
<1>1. ASSUME rolled # None
      PROVE  VisibleCaps = LiveZones
  BY <1>1, CloudLifts DEF VisibleCaps, CapVisible
<1>2. ASSUME rolled = None, \A z \in LiveZones : zones[z].locked, NEW z \in VisibleCaps
      PROVE  IsMainZone(z) \/ CapInPlay(z)
  <2> SUFFICES ASSUME ~IsMainZone(z), ~CapInPlay(z) PROVE FALSE
    OBVIOUS
  <2>1. z \in LiveZones /\ CapVisible(z, IsPreRollCloud)
    BY DEF VisibleCaps
  <2>2. z \in Dormant /\ ~IsPreRollCloud
    BY <2>1 DEF Dormant, CapVisible
  <2>3. LiveZones = Zones
    BY <1>2 DEF CapInv
  <2> QED
    BY <1>2, <2>2, <2>3, CloudStands
<1> QED
  BY <1>1, <1>2

LEMMA ContestIs ==
  ASSUME CapInv
  PROVE  ContestReads
<1> SUFFICES ASSUME zones # << >>, NEW z \in DrawnCaps
             PROVE  LET contested == zones[z].taking > 0 /\ zones[z].taking # zones[z].owner
                    IN  /\ contested => CapMark(z).arc \notin {None, 0, CapMark(z).plate}
                        /\ ~contested => /\ CapMark(z).shape = CapMark(z).plate
                                         /\ CapMark(z).arc \in {None, 0, CapMark(z).plate}
  BY DEF ContestReads
<1>1. z \in LiveZones
  BY DEF DrawnCaps, ReadZones
<1> DEFINE s == zones[z]
<1>2. Sound(s) /\ s.owner \in {0, 1, 2} /\ s.taking \in {0, 1, 2} /\ s.pct \in {0, 50, 100}
  BY <1>1, ZoneFacts
<1>3. /\ CapMark(z).plate = s.owner
      /\ CapMark(z).shape = IF ZoneOf[z].shape /\ s.taking > 0 /\ s.taking # s.owner THEN s.taking ELSE s.owner
      /\ CapMark(z).arc = IF s.pct > 0 /\ s.pct < 100 THEN s.taking ELSE None
  BY DEF CapMark
<1>4. s.taking # None
  BY <1>2, LanesAssumption
<1> HIDE DEF s
<1>5. ASSUME s.taking > 0, s.taking # s.owner
      PROVE  CapMark(z).arc \notin {None, 0, CapMark(z).plate}
  BY <1>2, <1>3, <1>4, <1>5 DEF Sound
<1>6. ASSUME ~(s.taking > 0 /\ s.taking # s.owner)
      PROVE  CapMark(z).shape = CapMark(z).plate /\ CapMark(z).arc \in {None, 0, CapMark(z).plate}
  <2>1. s.taking = 0 \/ s.taking = s.owner
    BY <1>2, <1>6
  <2> QED
    BY <1>3, <1>6, <2>1
<1> QED
  BY <1>5, <1>6 DEF s

(* Another zone is further from a flag than the one the flag is of.        *)
LEMMA OthersAreFurther ==
  ASSUME NEW p \in Int, NEW q \in Int, NEW w \in Int, NEW r \in Int,
         Far(p, w) <= r, Far(q, p) > 2 * r
  PROVE  Far(p, w) < Far(q, w) /\ Far(q, w) > r
BY DEF Far

LEMMA MarksHit ==
  ASSUME CapInv
  PROVE  MarksAreHit
<1> SUFFICES ASSUME zones # << >>, rolled # None, NEW z \in DrawnCaps
             PROVE  /\ \A hover \in Hovers :
                         CapHit(Anchor(z), hover) = IF Far(ZoneOf[z].place, Anchor(z)) <= hover THEN z ELSE None
                    /\ \A y \in DrawnCaps : CapMark(y).at = CapMark(z).at => y = z
  BY DEF MarksAreHit
<1>1. /\ rolled \in Lanes
      /\ \A y \in LiveZones : y \in Zones /\ (y \in rolled \/ IsMainZone(y))
  BY LiveAre DEF CapInv
<1>2. z \in LiveZones /\ zones[z].read /\ z \in VisibleCaps
  BY DEF DrawnCaps, ReadZones
<1>3. \A y \in DrawnCaps : CapMark(y).at = CapMark(z).at => y = z
  <2> SUFFICES ASSUME NEW y \in DrawnCaps, CapMark(y).at = CapMark(z).at PROVE y = z
    OBVIOUS
  <2>1. y \in LiveZones
    BY DEF DrawnCaps, ReadZones
  <2>2. Anchor(y) = Anchor(z)
    BY DEF CapMark
  <2>3. \A a, b \in {x \in Zones : x \in rolled \/ IsMainZone(x)} : Anchor(a) = Anchor(b) => a = b
    BY <1>1, LanesAssumption
  <2> QED
    BY <1>1, <1>2, <2>1, <2>2, <2>3
<1> DEFINE w == Anchor(z)
           r == MatchReach
           p == ZoneOf[z].place
<1>4. z \in Int /\ p \in Int /\ w \in Int /\ r \in Int /\ Far(p, w) <= r /\ Far(p, w) \in Int
  <2>1. z \in Zones /\ z \in Int
    BY <1>1, <1>2, ZonesCount
  <2>2. p \in Int /\ r \in Int /\ Far(p, w) <= r /\ ZoneOf[z].anchor \in Int \cup {None}
    BY <2>1, LanesAssumption
  <2>3. w \in Int
    BY <2>2 DEF Anchor, OrElse
  <2>4. Far(p, w) \in Int
    BY <2>2, <2>3 DEF Far
  <2> QED
    BY <2>1, <2>2, <2>3, <2>4
<1>5. ASSUME NEW y \in VisibleCaps, y # z
      PROVE  /\ ZoneOf[y].place \in Int /\ Far(ZoneOf[y].place, w) \in Int
             /\ Far(p, w) < Far(ZoneOf[y].place, w) /\ Far(ZoneOf[y].place, w) > r
  <2> DEFINE q == ZoneOf[y].place
  <2>1. y \in LiveZones
    BY DEF VisibleCaps
  <2>2. \A a, b \in {x \in Zones : x \in rolled \/ IsMainZone(x)} :
          a # b => Far(ZoneOf[a].place, ZoneOf[b].place) > 2 * r
    BY <1>1, LanesAssumption
  <2>3. Far(q, p) > 2 * r
    BY <1>1, <1>2, <1>5, <2>1, <2>2
  <2>4. q \in Int
    BY <1>1, <2>1, LanesAssumption
  <2>5. Far(q, w) \in Int
    BY <1>4, <2>4 DEF Far
  <2> HIDE DEF w, r, p, q
  <2>6. Far(p, w) < Far(q, w) /\ Far(q, w) > r
    BY <1>4, <2>3, <2>4, OthersAreFurther
  <2> QED
    BY <2>4, <2>5, <2>6 DEF q
<1> HIDE DEF w, r, p
<1>6. ASSUME NEW hover \in Hovers
      PROVE  CapHit(w, hover) = IF Far(p, w) <= hover THEN z ELSE None
  <2>1. hover \in Int
    BY LanesAssumption
  <2> DEFINE found == HitCaps(w, hover)
             far(y) == Far(ZoneOf[y].place, w)
             Nearest(x) == \A y \in found : far(x) < far(y) \/ (far(x) = far(y) /\ x <= y)
  <2>2. CapHit(w, hover) = IF found = {} THEN None ELSE CHOOSE x \in found : Nearest(x)
    BY DEF CapHit
  <2>3. found \subseteq VisibleCaps /\ \A y \in found : far(y) <= hover
    BY DEF HitCaps
  <2>4. CASE Far(p, w) <= hover
    <3>1. z \in found
      BY <1>2, <2>4 DEF HitCaps, p
    <3>2. \A y \in found : y = z \/ (far(z) < far(y) /\ far(y) \in Int /\ far(z) \in Int)
      BY <1>4, <1>5, <2>3 DEF p
    <3>3. z <= z
      BY <1>4
    <3> HIDE DEF found, far
    <3>4. Nearest(z)
      BY <3>2, <3>3
    <3>5. ASSUME NEW x \in found, Nearest(x) PROVE x = z
      <4>1. far(x) < far(z) \/ (far(x) = far(z) /\ x <= z)
        BY <3>1, <3>5
      <4> QED
        BY <3>2, <4>1
    <3> HIDE DEF Nearest
    <3>6. (CHOOSE x \in found : Nearest(x)) = z
      BY <3>1, <3>4, <3>5
    <3> QED
      BY <2>2, <2>4, <3>1, <3>6
  <2>5. CASE ~(Far(p, w) <= hover)
    <3>1. z \notin found
      BY <2>3, <2>5 DEF p
    <3>2. ASSUME NEW y \in found PROVE FALSE
      <4>1. y \in VisibleCaps /\ y # z /\ far(y) <= hover
        BY <2>3, <3>1
      <4>2. far(y) \in Int /\ far(y) > r
        BY <1>5, <4>1
      <4> HIDE DEF far
      <4> QED
        BY <1>4, <2>1, <2>5, <4>1, <4>2
    <3> QED
      BY <2>2, <2>5, <3>2
  <2> QED
    BY <2>4, <2>5
<1> QED
  BY <1>3, <1>6 DEF w, p

-----------------------------------------------------------------------------
(* The lane *)

PointsOf(s) == {s[i] : i \in 1..Len(s)}

LEMMA FarIs ==
  ASSUME NEW p \in Int, NEW q \in Int
  PROVE  Far(p, q) \in Nat
BY DEF Far

LEMMA NearestIs ==
  ASSUME NEW s \in Seq(Int), Len(s) # 0, NEW p \in Int
  PROVE  NearestTo(s, p) \in 1..Len(s)
<1> DEFINE I == 1..Len(s)
           far(i) == Far(s[i], p)
           T == {far(i) : i \in I}
<1>1. I # {} /\ \A i \in I : i \in Nat /\ far(i) \in Nat
  <2>1. 1 \in I /\ \A i \in I : i \in Nat /\ s[i] \in Int
    OBVIOUS
  <2> QED
    BY <2>1, FarIs
<1> HIDE DEF far, I
<1>2. T \in SUBSET Nat /\ T # {}
  BY <1>1
<1>3. PICK d \in T : \A k \in T : d <= k
  BY <1>2, LeastNat
<1> DEFINE U == {i \in I : far(i) = d}
<1>4. U \in SUBSET Nat /\ U # {}
  BY <1>1
<1>5. PICK i \in U : \A k \in U : i <= k
  BY <1>4, LeastNat
<1>6. \A j \in I : far(i) < far(j) \/ (far(i) = far(j) /\ i <= j)
  <2> SUFFICES ASSUME NEW j \in I PROVE far(i) < far(j) \/ (far(i) = far(j) /\ i <= j)
    OBVIOUS
  <2>1. far(i) <= far(j) /\ far(i) = d
    BY <1>3
  <2>2. far(j) = d => i <= j
    BY <1>5
  <2>3. far(i) \in Int /\ far(j) \in Int
    BY <1>1
  <2> QED
    BY <2>1, <2>2, <2>3
<1>7. \E x \in I : \A j \in I : far(x) < far(j) \/ (far(x) = far(j) /\ x <= j)
  BY <1>6
<1> QED
  BY <1>7 DEF NearestTo, far, I

LEMMA WithoutIs ==
  ASSUME NEW s \in Seq(Int), NEW i \in 1..Len(s)
  PROVE  /\ Without(s, i) \in Seq(Int) /\ Len(Without(s, i)) = Len(s) - 1
         /\ PointsOf(s) = PointsOf(Without(s, i)) \cup {s[i]}
<1> DEFINE a == SubSeq(s, 1, i - 1)
           b == SubSeq(s, i + 1, Len(s))
           w == Without(s, i)
<1>1. a \in Seq(Int) /\ Len(a) = i - 1 /\ \A j \in 1..i - 1 : a[j] = s[j]
  OBVIOUS
<1>2. b \in Seq(Int) /\ Len(b) = Len(s) - i /\ \A j \in 1..Len(s) - i : b[j] = s[i + j]
  OBVIOUS
<1>3. w = a \o b
  BY DEF Without
<1>0. i \in Int /\ 1 <= i /\ i <= Len(s) /\ Len(s) \in Nat
  OBVIOUS
<1> HIDE DEF a, b, w
<1>4. w \in Seq(Int) /\ Len(w) = Len(s) - 1
  <2>1. a \in Seq(Int) /\ b \in Seq(Int)
    BY <1>1, <1>2
  <2>2. w \in Seq(Int) /\ Len(w) = Len(a) + Len(b)
    BY <1>3, <2>1, Joined
  <2> QED
    BY <1>0, <1>1, <1>2, <2>2
<1>5. \A j \in 1..i - 1 : j \in 1..Len(w) /\ w[j] = s[j]
  <2>1. a \in Seq(Int) /\ b \in Seq(Int)
    BY <1>1, <1>2
  <2>2. \A j \in 1..Len(a) : w[j] = a[j]
    BY <1>3, <2>1, Joined
  <2>3. \A j \in 1..i - 1 : j \in 1..Len(a) /\ j \in 1..Len(w)
    BY <1>0, <1>1, <1>4
  <2> QED
    BY <1>1, <2>2, <2>3
<1>6. \A j \in i + 1..Len(s) : j - 1 \in 1..Len(w) /\ w[j - 1] = s[j]
  <2> SUFFICES ASSUME NEW j \in i + 1..Len(s) PROVE j - 1 \in 1..Len(w) /\ w[j - 1] = s[j]
    OBVIOUS
  <2> DEFINE m == j - i
  <2>1. m \in 1..Len(s) - i /\ j - 1 = Len(a) + m /\ j - 1 \in 1..Len(w) /\ i + m = j
    BY <1>0, <1>1, <1>4
  <2> HIDE DEF m
  <2>2. w[Len(a) + m] = b[m]
    <3>1. m \in 1..Len(b)
      BY <1>0, <1>1, <1>2, <2>1
    <3>2. a \in Seq(Int) /\ b \in Seq(Int)
      BY <1>1, <1>2
    <3>3. \A x \in 1..Len(b) : (a \o b)[Len(a) + x] = b[x]
      BY <3>2, Joined
    <3> QED
      BY <1>3, <3>1, <3>3
  <2>3. b[m] = s[i + m]
    BY <1>2, <2>1
  <2> QED
    BY <2>1, <2>2, <2>3
<1>7. \A j \in 1..Len(w) : w[j] = s[j] \/ w[j] = s[j + 1]
  <2> SUFFICES ASSUME NEW j \in 1..Len(w) PROVE w[j] = s[j] \/ w[j] = s[j + 1]
    OBVIOUS
  <2>1. j \in 1..i - 1 \/ j + 1 \in i + 1..Len(s)
    BY <1>4
  <2>2. ASSUME j + 1 \in i + 1..Len(s) PROVE w[j] = s[j + 1]
    <3>1. w[(j + 1) - 1] = s[j + 1] /\ (j + 1) - 1 = j
      BY <1>6, <2>2
    <3> QED
      BY <3>1
  <2> QED
    BY <1>5, <2>1, <2>2
<1>8. PointsOf(w) \cup {s[i]} \subseteq PointsOf(s)
  <2> SUFFICES ASSUME NEW j \in 1..Len(w) PROVE w[j] \in PointsOf(s)
    BY DEF PointsOf
  <2>1. j \in 1..Len(s) /\ j + 1 \in 1..Len(s)
    BY <1>4
  <2> QED
    BY <1>7, <2>1 DEF PointsOf
<1>9. PointsOf(s) \subseteq PointsOf(w) \cup {s[i]}
  <2> SUFFICES ASSUME NEW j \in 1..Len(s), j # i PROVE s[j] \in PointsOf(w)
    BY DEF PointsOf
  <2>1. j \in 1..i - 1 \/ j \in i + 1..Len(s)
    OBVIOUS
  <2> QED
    BY <1>5, <1>6, <2>1 DEF PointsOf
<1> QED
  BY <1>4, <1>8, <1>9 DEF w

(* After k steps of the walk: k flags are joined, the others are left.     *)
Walked(w, k, caps) ==
  /\ w.done \in Seq(Int) /\ w.rest \in Seq(Int)
  /\ Len(w.done) = k /\ Len(w.rest) = Len(caps) - k
  /\ PointsOf(w.done) \cup PointsOf(w.rest) = PointsOf(caps)

LEMMA OnwardKeeps ==
  ASSUME NEW caps \in Seq(Int), NEW k \in 1..Len(caps) - 1, NEW w, Walked(w, k, caps)
  PROVE  Walked(Onward(w), k + 1, caps)
<1> DEFINE i == NearestTo(w.rest, w.done[Len(w.done)])
           v == Onward(w)
<1>1. /\ w.done \in Seq(Int) /\ w.rest \in Seq(Int)
      /\ Len(w.done) = k /\ Len(w.rest) = Len(caps) - k
      /\ PointsOf(w.done) \cup PointsOf(w.rest) = PointsOf(caps)
  BY DEF Walked
<1>2. w.done[Len(w.done)] \in Int /\ Len(w.rest) # 0
  BY <1>1
<1>3. i \in 1..Len(w.rest)
  BY <1>1, <1>2, NearestIs
<1>4. v.done = Append(w.done, w.rest[i]) /\ v.rest = Without(w.rest, i)
  BY DEF Onward
<1> HIDE DEF i, v
<1>5. /\ v.rest \in Seq(Int) /\ Len(v.rest) = Len(w.rest) - 1
      /\ PointsOf(w.rest) = PointsOf(v.rest) \cup {w.rest[i]}
  BY <1>1, <1>3, <1>4, WithoutIs
<1>6. w.rest[i] \in Int
  BY <1>1, <1>3
<1>7. v.done \in Seq(Int) /\ Len(v.done) = k + 1
  <2> DEFINE x == w.rest[i]
             a == w.done
  <2>1. a \in Seq(Int) /\ x \in Int /\ Len(a) = k /\ v.done = Append(a, x)
    BY <1>1, <1>4, <1>6
  <2> HIDE DEF x, a
  <2> QED
    BY <2>1
<1>8. PointsOf(v.done) = PointsOf(w.done) \cup {w.rest[i]}
  <2>1. k \in Nat
    OBVIOUS
  <2>2. \A j \in 1..k : j \in 1..k + 1 /\ v.done[j] = w.done[j]
    <3> DEFINE x == w.rest[i]
               a == w.done
    <3>1. a \in Seq(Int) /\ x \in Int /\ Len(a) = k
      BY <1>1, <1>6
    <3> HIDE DEF x, a
    <3>2. \A j \in 1..k : Append(a, x)[j] = a[j]
      BY <3>1
    <3>3. v.done = Append(a, x)
      BY <1>4 DEF x, a
    <3>4. \A j \in 1..k : v.done[j] = a[j]
      BY <3>2, <3>3
    <3>5. \A j \in 1..k : j \in 1..k + 1
      BY <2>1
    <3> QED
      BY <3>4, <3>5 DEF a
  <2>3. v.done[k + 1] = w.rest[i] /\ k + 1 \in 1..k + 1
    <3> DEFINE x == w.rest[i]
               a == w.done
    <3>1. a \in Seq(Int) /\ x \in Int /\ Len(a) = k
      BY <1>1, <1>6
    <3> HIDE DEF x, a
    <3>2. Append(a, x)[Len(a) + 1] = x
      BY <3>1
    <3> QED
      BY <1>4, <2>1, <3>1, <3>2 DEF x, a
  <2>4. \A j \in 1..k + 1 : j = k + 1 \/ j \in 1..k
    OBVIOUS
  <2> QED
    BY <1>1, <1>7, <2>2, <2>3, <2>4, ZenonT(30) DEF PointsOf
<1>9. Len(v.rest) = Len(caps) - (k + 1)
  BY <1>1, <1>5
<1> QED
  BY <1>1, <1>5, <1>7, <1>8, <1>9 DEF Walked, v

Walks(g, w, n) == g = [k \in 1..n |-> IF k = 1 THEN w ELSE Onward(g[k - 1])]

\* The walk through n flags exists.
LEMMA WalkExists ==
  ASSUME NEW w, NEW n \in Nat
  PROVE  \E g : Walks(g, w, n)
<1> DEFINE Is(g, k) == g = [i \in 1..k |-> IF i = 1 THEN w ELSE Onward(g[i - 1])]
           T == {k \in Nat : ~\E g : Is(g, k)}
<1> SUFFICES ASSUME T # {} PROVE FALSE
  BY DEF Walks
<1>1. PICK m \in T : \A k \in T : m <= k
  BY LeastNat
<1>2. m \in Nat /\ ~\E g : Is(g, m)
  OBVIOUS
<1>3. CASE m = 0
  <2> DEFINE e == [i \in 1..0 |-> 0]
  <2>1. Is(e, 0)
    OBVIOUS
  <2> QED
    BY <1>2, <1>3, <2>1
<1>4. CASE m # 0
  <2>1. m - 1 \in Nat
    BY <1>2, <1>4
  <2>2. m - 1 \notin T
    <3> SUFFICES ASSUME m - 1 \in T PROVE FALSE
      OBVIOUS
    <3>1. m <= m - 1
      BY <1>1
    <3> QED
      BY <1>2, <3>1
  <2>3. PICK h : Is(h, m - 1)
    BY <2>1, <2>2
  <2> DEFINE g == [i \in 1..m |-> IF i < m THEN h[i] ELSE IF m = 1 THEN w ELSE Onward(h[m - 1])]
  <2>4. \A i \in 1..m : g[i] = IF i = 1 THEN w ELSE Onward(g[i - 1])
    <3> SUFFICES ASSUME NEW i \in 1..m
                 PROVE  g[i] = IF i = 1 THEN w ELSE Onward(g[i - 1])
      OBVIOUS
    <3>1. CASE i < m
      <4>1. i \in 1..m - 1 /\ g[i] = h[i]
        BY <1>2, <3>1
      <4>2. h[i] = IF i = 1 THEN w ELSE Onward(h[i - 1])
        BY <2>3, <4>1
      <4>3. i # 1 => g[i - 1] = h[i - 1]
        BY <1>2, <3>1
      <4> QED
        BY <4>1, <4>2, <4>3
    <3>2. CASE i = m
      <4>1. i # 1 => g[i - 1] = h[i - 1]
        BY <1>2, <3>2
      <4> QED
        BY <1>2, <3>2, <4>1
    <3> QED
      BY <1>2, <3>1, <3>2
  <2>5. Is(g, m)
    BY <2>4
  <2> QED
    BY <1>2, <2>5
<1> QED
  BY <1>2, <1>3, <1>4

(* The flags of a prefix are all joined, each once.                        *)
LEMMA ChainIs ==
  ASSUME NEW caps \in Seq(Int)
  PROVE  /\ ChainOf(caps) \in Seq(Int) /\ Len(ChainOf(caps)) = Len(caps)
         /\ PointsOf(ChainOf(caps)) = PointsOf(caps)
<1>1. CASE Len(caps) < 2
  BY <1>1 DEF ChainOf
<1>2. CASE ~(Len(caps) < 2)
  <2> DEFINE n == Len(caps)
             w == [done |-> <<caps[1]>>, rest |-> Tail(caps)]
             f == CHOOSE g : Walks(g, w, n)
  <2>1. ChainOf(caps) = f[n].done
    BY <1>2 DEF ChainOf, Walks
  <2>2. n \in Nat /\ n >= 2
    BY <1>2
  <2>3. Walked(w, 1, caps)
    <3>1. <<caps[1]>> \in Seq(Int) /\ Tail(caps) \in Seq(Int) /\ Len(<<caps[1]>>) = 1 /\ Len(Tail(caps)) = n - 1
      BY <2>2
    <3>2. \A i \in 1..n - 1 : i + 1 \in 1..n /\ Tail(caps)[i] = caps[i + 1]
      BY <2>2
    <3>3. \A i \in 1..n : i = 1 \/ (i - 1 \in 1..n - 1 /\ Tail(caps)[i - 1] = caps[i])
      <4> SUFFICES ASSUME NEW i \in 1..n, i # 1 PROVE i - 1 \in 1..n - 1 /\ Tail(caps)[i - 1] = caps[i]
        OBVIOUS
      <4>1. i - 1 \in 1..n - 1 /\ (i - 1) + 1 = i
        BY <2>2
      <4>2. Tail(caps)[i - 1] = caps[(i - 1) + 1]
        BY <3>2, <4>1
      <4> QED
        BY <4>1, <4>2
    <3>4. PointsOf(<<caps[1]>>) = {caps[1]}
      BY DEF PointsOf
    <3>5. PointsOf(Tail(caps)) \subseteq PointsOf(caps) /\ caps[1] \in PointsOf(caps)
      <4>1. \A i \in 1..n - 1 : Tail(caps)[i] \in PointsOf(caps)
        BY <3>2 DEF PointsOf
      <4>2. 1 \in 1..Len(caps)
        BY <2>2
      <4> QED
        BY <3>1, <4>1, <4>2 DEF PointsOf
    <3>6. PointsOf(caps) \subseteq PointsOf(Tail(caps)) \cup {caps[1]}
      BY <3>1, <3>3 DEF PointsOf
    <3> QED
      BY <3>1, <3>4, <3>5, <3>6 DEF Walked
  <2> HIDE DEF w
  <2>4. n \in Nat
    BY <2>2
  <2>5. Walks(f, w, n)
    BY <2>4, WalkExists, Zenon
  <2> HIDE DEF f, n
  <2> DEFINE T == {k \in 1..n : ~Walked(f[k], k, caps)}
  <2>6. T = {}
    <3> SUFFICES ASSUME T # {} PROVE FALSE
      OBVIOUS
    <3>1. T \in SUBSET Nat
      BY <2>2
    <3>2. PICK m \in T : \A k \in T : m <= k
      BY <3>1, LeastNat
    <3>3. m \in 1..n /\ ~Walked(f[m], m, caps)
      OBVIOUS
    <3>4. m # 1
      <4> SUFFICES ASSUME m = 1 PROVE FALSE
        OBVIOUS
      <4>1. f[1] = w
        BY <2>2, <2>5 DEF Walks
      <4> QED
        BY <2>3, <3>3, <4>1
    <3>5. m - 1 \in 1..n /\ m - 1 \in 1..n - 1 /\ (m - 1) + 1 = m /\ ~(m <= m - 1)
      BY <2>2, <3>3, <3>4
    <3>6. Walked(f[m - 1], m - 1, caps)
      BY <3>2, <3>5
    <3>7. f[m] = Onward(f[m - 1])
      BY <2>5, <3>3, <3>4 DEF Walks
    <3>8. Walked(Onward(f[m - 1]), (m - 1) + 1, caps)
      BY <3>5, <3>6, OnwardKeeps DEF n
    <3> QED
      BY <3>3, <3>5, <3>7, <3>8
  <2>7. Walked(f[n], n, caps)
    BY <2>2, <2>6
  <2>8. f[n].done \in Seq(Int) /\ Len(f[n].done) = n /\ Len(f[n].rest) = 0
        /\ PointsOf(f[n].done) \cup PointsOf(f[n].rest) = PointsOf(caps)
    BY <2>2, <2>7 DEF Walked, n
  <2>9. PointsOf(f[n].rest) = {}
    BY <2>8 DEF PointsOf
  <2> QED
    BY <2>1, <2>8, <2>9 DEF n
<1> QED
  BY <1>1, <1>2

-----------------------------------------------------------------------------
(* What a set of lines leads to *)

Closed(lines, C) == \A l \in lines : l \cap C # {} => l \subseteq C

Wider(lines, so) == so \cup UNION {l \in lines : l \cap so # {}}

Spreads(g, lines, from, n) ==
  g = [k \in 0..n |-> IF k = 0 THEN from ELSE Wider(lines, g[k - 1])]

LEMMA SpreadExists ==
  ASSUME NEW lines, NEW from, NEW n \in Nat
  PROVE  \E g : Spreads(g, lines, from, n)
<1> DEFINE Is(g, k) == g = [i \in 0..k |-> IF i = 0 THEN from ELSE Wider(lines, g[i - 1])]
           T == {k \in Nat : ~\E g : Is(g, k)}
<1> SUFFICES ASSUME T # {} PROVE FALSE
  BY DEF Spreads
<1>1. PICK m \in T : \A k \in T : m <= k
  BY LeastNat
<1>2. m \in Nat /\ ~\E g : Is(g, m)
  OBVIOUS
<1>3. CASE m = 0
  <2> DEFINE e == [i \in 0..0 |-> from]
  <2>1. Is(e, 0)
    OBVIOUS
  <2> QED
    BY <1>2, <1>3, <2>1
<1>4. CASE m # 0
  <2>1. m - 1 \in Nat
    BY <1>2, <1>4
  <2>2. m - 1 \notin T
    <3> SUFFICES ASSUME m - 1 \in T PROVE FALSE
      OBVIOUS
    <3>1. m <= m - 1
      BY <1>1
    <3> QED
      BY <1>2, <3>1
  <2>3. PICK h : Is(h, m - 1)
    BY <2>1, <2>2
  <2> DEFINE g == [i \in 0..m |-> IF i < m THEN h[i] ELSE Wider(lines, h[m - 1])]
  <2>4. \A i \in 0..m : g[i] = IF i = 0 THEN from ELSE Wider(lines, g[i - 1])
    <3> SUFFICES ASSUME NEW i \in 0..m
                 PROVE  g[i] = IF i = 0 THEN from ELSE Wider(lines, g[i - 1])
      OBVIOUS
    <3>1. CASE i < m
      <4>1. i \in 0..m - 1 /\ g[i] = h[i]
        BY <1>2, <3>1
      <4>2. h[i] = IF i = 0 THEN from ELSE Wider(lines, h[i - 1])
        BY <2>3, <4>1
      <4>3. i # 0 => g[i - 1] = h[i - 1]
        BY <1>2, <3>1
      <4> QED
        BY <4>1, <4>2, <4>3
    <3>2. CASE i = m
      <4>1. i # 0 /\ g[i - 1] = h[i - 1] /\ g[i] = Wider(lines, h[m - 1])
        BY <1>2, <1>4, <3>2
      <4> QED
        BY <3>2, <4>1
    <3> QED
      BY <1>2, <3>1, <3>2
  <2>5. Is(g, m)
    BY <2>4
  <2> QED
    BY <1>2, <2>5
<1> QED
  BY <1>2, <1>3, <1>4

(* As many steps as there are lines lead everywhere the lines lead: each   *)
(* step that leads somewhere new takes in a line that was not in yet.      *)
LEMMA SpreadCloses ==
  ASSUME NEW lines, IsFiniteSet(lines), NEW from
  PROVE  /\ from \subseteq LaneSpread(lines, from, Cardinality(lines))
         /\ Closed(lines, LaneSpread(lines, from, Cardinality(lines)))
<1> DEFINE n == Cardinality(lines)
           f == CHOOSE g : Spreads(g, lines, from, n)
           In(k) == {l \in lines : l \subseteq f[k]}
<1>1. LaneSpread(lines, from, n) = f[n]
  BY DEF LaneSpread, Spreads, Wider
<1>2. n \in Nat
  BY FS_CardinalityType
<1>3. Spreads(f, lines, from, n)
  BY <1>2, SpreadExists, Zenon
<1> HIDE DEF f, n
<1>4. f[0] = from /\ \A k \in 1..n : f[k] = Wider(lines, f[k - 1])
  BY <1>2, <1>3 DEF Spreads
<1>5. \A k \in 0..n : IsFiniteSet(In(k)) /\ Cardinality(In(k)) \in Nat /\ Cardinality(In(k)) <= n
  <2>1. ASSUME NEW D \in SUBSET lines PROVE IsFiniteSet(D) /\ Cardinality(D) \in Nat /\ Cardinality(D) <= n
    BY FS_Subset, FS_CardinalityType DEF n
  <2> QED
    BY <2>1
<1> DEFINE Fine(k) == from \subseteq f[k] /\ (Closed(lines, f[k]) \/ Cardinality(In(k)) >= k)
           T == {k \in 0..n : ~Fine(k)}
<1>6. T = {}
  <2> SUFFICES ASSUME T # {} PROVE FALSE
    OBVIOUS
  <2>1. T \in SUBSET Nat
    BY <1>2
  <2>2. PICK m \in T : \A k \in T : m <= k
    BY <2>1, LeastNat
  <2>3. m \in 0..n /\ ~Fine(m)
    OBVIOUS
  <2>4. m # 0
    BY <1>2, <1>4, <1>5, <2>3
  <2>5. m - 1 \in 0..n /\ m \in 1..n /\ ~(m <= m - 1)
    BY <1>2, <2>3, <2>4
  <2>6. Fine(m - 1)
    BY <2>2, <2>5
  <2> DEFINE so == f[m - 1]
  <2>7. f[m] = so \cup UNION {l \in lines : l \cap so # {}}
    BY <1>4, <2>5 DEF Wider
  <2>8. from \subseteq f[m] /\ so \subseteq f[m]
    BY <2>6, <2>7
  <2>9. ~Closed(lines, f[m]) /\ ~(Cardinality(In(m)) >= m)
    BY <2>3, <2>8
  <2>10. ~Closed(lines, so)
    <3> SUFFICES ASSUME Closed(lines, so) PROVE FALSE
      OBVIOUS
    <3>1. f[m] = so
      BY <2>7 DEF Closed
    <3> QED
      BY <2>9, <3>1
  <2>11. PICK l \in lines : l \cap so # {} /\ ~(l \subseteq so)
    BY <2>10 DEF Closed
  <2>12. l \in In(m) /\ l \notin In(m - 1) /\ In(m - 1) \subseteq In(m)
    BY <2>7, <2>8, <2>11
  <2>13. Cardinality(In(m - 1)) >= m - 1
    BY <2>6, <2>10
  <2>14. /\ IsFiniteSet(In(m)) /\ Cardinality(In(m)) \in Nat
         /\ IsFiniteSet(In(m - 1)) /\ Cardinality(In(m - 1)) \in Nat
    BY <1>5, <2>3, <2>5
  <2> DEFINE a == In(m - 1)
             b == In(m)
  <2> HIDE DEF a, b
  <2>15. Cardinality(a) <= Cardinality(b) /\ Cardinality(a) # Cardinality(b)
    <3>1. a \in SUBSET b /\ a # b
      BY <2>12 DEF a, b
    <3> QED
      BY <2>14, <3>1, FS_Subset DEF a, b
  <2>16. Cardinality(a) \in Int /\ Cardinality(b) \in Int /\ Cardinality(a) >= m - 1 /\ m \in Int
    BY <2>3, <2>13, <2>14 DEF a, b
  <2>17. Cardinality(b) >= m
    BY <2>15, <2>16
  <2> QED
    BY <2>9, <2>17 DEF b
<1>7. Fine(n)
  <2>1. n \in 0..n /\ n \notin T
    BY <1>2, <1>6
  <2> QED
    BY <2>1
<1>8. Closed(lines, f[n])
  <2> SUFFICES ASSUME Cardinality(In(n)) >= n PROVE Closed(lines, f[n])
    BY <1>7
  <2>1. n \in 0..n
    BY <1>2
  <2>2. Cardinality(In(n)) \in Nat /\ Cardinality(In(n)) <= n
    BY <1>5, <2>1
  <2>3. In(n) \in SUBSET lines /\ Cardinality(In(n)) >= n
    OBVIOUS
  <2> DEFINE b == In(n)
  <2> HIDE DEF b
  <2>4. Cardinality(b) = n
    BY <1>2, <2>2, <2>3 DEF b
  <2>5. b \in SUBSET lines
    BY <2>3 DEF b
  <2>6. b = lines
    BY <2>4, <2>5, FS_Subset DEF n
  <2> QED
    BY <2>6 DEF b, Closed
<1> QED
  BY <1>1, <1>7, <1>8 DEF n
-----------------------------------------------------------------------------
(* The lane through the flags *)

LEMMA AnchorIs ==
  ASSUME NEW z \in Zones
  PROVE  Anchor(z) \in Int
BY LanesAssumption DEF Anchor, OrElse

LEMMA AnchorsPick ==
  ASSUME NEW D \in SUBSET Zones
  PROVE  LET caps == AtPlaces([z \in Zones |-> Anchor(z)], D)
         IN  /\ caps \in Seq(Int) /\ Len(caps) <= Cardinality(Zones)
             /\ PointsOf(caps) = {Anchor(z) : z \in D}
             /\ caps = << >> <=> D = {}
<1> DEFINE n == Cardinality(Zones)
           s == [z \in Zones |-> Anchor(z)]
           caps == AtPlaces(s, D)
<1>1. n \in Nat /\ Zones = 1..n /\ IsFiniteSet(Zones)
  BY LanesAssumption, FS_CardinalityType
<1>2. Picks(caps, s, D)
  <2> HIDE DEF n, s
  <2>1. D \in SUBSET (1..n)
    BY <1>1
  <2> QED
    BY <1>1, <2>1, PlacesPick
<1>3. Cardinality(D) <= n
  BY <1>1, FS_Subset
<1> HIDE DEF caps
<1>4. \A m \in 1..Len(caps) : NthOf(D, m) \in D /\ caps[m] = Anchor(NthOf(D, m))
  BY <1>2 DEF Picks
<1>5. \A m \in 1..Len(caps) : caps[m] \in Int
  BY <1>4, AnchorIs
<1>6. caps \in Seq(Int) /\ Len(caps) <= n
  <2>1. Len(caps) \in Nat /\ caps = [m \in 1..Len(caps) |-> caps[m]] /\ Len(caps) = Cardinality(D)
    BY <1>2 DEF Picks
  <2> QED
    BY <1>3, <1>5, <2>1
<1>7. \A z \in D : \E m \in 1..Len(caps) : caps[m] = Anchor(z)
  <2> SUFFICES ASSUME NEW z \in D PROVE \E m \in 1..Len(caps) : caps[m] = Anchor(z)
    OBVIOUS
  <2>1. Rank(D, z) \in 1..Len(caps) /\ NthOf(D, Rank(D, z)) = z
    BY <1>2 DEF Picks
  <2> QED
    BY <1>4, <2>1
<1>8. PointsOf(caps) = {Anchor(z) : z \in D}
  BY <1>4, <1>7 DEF PointsOf
<1>9. caps = << >> <=> D = {}
  <2>1. ASSUME D = {} PROVE caps = << >>
    <3>1. 1..Len(caps) = {} /\ Len(caps) \in Nat
      BY <1>4, <1>6, <2>1
    <3>2. Len(caps) = 0
      BY <3>1
    <3> QED
      BY <1>6, <3>2
  <2>2. ASSUME caps = << >> PROVE D = {}
    <3>1. 1..Len(caps) = {}
      BY <2>2
    <3> QED
      BY <1>7, <3>1
  <2> QED
    BY <2>1, <2>2
<1> QED
  BY <1>6, <1>8, <1>9 DEF caps

(* The flags of one depth, where they are drawn.                           *)
Flags(d) == {Anchor(z) : z \in {y \in ReadZones : ZoneOf[y].depth = d}}

LEMMA PrefixIs ==
  ASSUME CapInv, zones # << >>, NEW d
  PROVE  /\ CapsByPrefix(d) \in Seq(Int) /\ Len(CapsByPrefix(d)) <= Cardinality(Zones)
         /\ PointsOf(CapsByPrefix(d)) = Flags(d)
         /\ CapsByPrefix(d) = << >> <=> Flags(d) = {}
<1> DEFINE D == {z \in ReadZones : ZoneOf[z].depth = d}
<1>1. D \in SUBSET Zones
  BY LiveAre DEF ReadZones
<1>2. CapsByPrefix(d) = AtPlaces([z \in Zones |-> Anchor(z)], D)
  BY DEF CapsByPrefix
<1>3. Flags(d) = {Anchor(z) : z \in D}
  BY DEF Flags
<1> HIDE DEF D
<1>4. Flags(d) = {} <=> D = {}
  BY <1>3
<1> QED
  BY <1>1, <1>2, <1>3, <1>4, AnchorsPick

(* Where a node of the lane can end up: on its flags, or by itself.        *)
Ends(n) ==
  IF Flags(LaneNodes[n].depth) # {} THEN Flags(LaneNodes[n].depth)
  ELSE {SnapToNearCap(LaneNodes[n].pos)}

AllPoints == {Anchor(z) : z \in Zones} \cup {LaneNodes[n].pos : n \in DOMAIN LaneNodes}

LEMMA SnapIs ==
  ASSUME CapInv, zones # << >>, NEW p \in Int
  PROVE  SnapToNearCap(p) = p \/ SnapToNearCap(p) \in {Anchor(z) : z \in Zones}
<1> DEFINE all == AllCaps
           i == NearestTo(all, p)
<1>1. ReadZones \in SUBSET Zones
  BY LiveAre DEF ReadZones
<1>2. all \in Seq(Int) /\ PointsOf(all) = {Anchor(z) : z \in ReadZones}
  BY <1>1, AnchorsPick DEF AllCaps
<1> HIDE DEF all
<1>3. CASE all = << >>
  BY <1>3 DEF SnapToNearCap, all
<1>4. CASE all # << >>
  <2>1. Len(all) # 0
    BY <1>2, <1>4
  <2>2. i \in 1..Len(all)
    BY <1>2, <2>1, NearestIs
  <2>3. all[i] \in {Anchor(z) : z \in Zones}
    BY <1>1, <1>2, <2>2 DEF PointsOf
  <2>4. SnapToNearCap(p) = p \/ SnapToNearCap(p) = all[i]
    BY DEF SnapToNearCap, all
  <2> QED
    BY <2>3, <2>4
<1> QED
  BY <1>3, <1>4

LEMMA EndsAre ==
  ASSUME CapInv, zones # << >>, NEW n \in DOMAIN LaneNodes
  PROVE  /\ Ends(n) # {} /\ Ends(n) \subseteq AllPoints /\ Ends(n) \subseteq Int
         /\ \A toward \in Int : Resolve(n, toward) \in Ends(n)
<1> DEFINE d == LaneNodes[n].depth
           caps == CapsByPrefix(d)
           pos == LaneNodes[n].pos
<1>1. pos \in Int /\ None \notin Int /\ pos \in AllPoints
  BY LanesAssumption DEF AllPoints
<1>2. /\ caps \in Seq(Int) /\ PointsOf(caps) = Flags(d)
      /\ caps = << >> <=> Flags(d) = {}
  BY PrefixIs
<1>3. Flags(d) \subseteq Int /\ Flags(d) \subseteq AllPoints
  <2>1. ReadZones \subseteq Zones
    BY LiveAre DEF ReadZones
  <2> QED
    BY <2>1, AnchorIs DEF Flags, AllPoints
<1>4. SnapToNearCap(pos) \in Int /\ SnapToNearCap(pos) \in AllPoints
  BY <1>1, SnapIs, AnchorIs DEF AllPoints
<1>5. Ends(n) = IF Flags(d) # {} THEN Flags(d) ELSE {SnapToNearCap(pos)}
  BY DEF Ends
<1>6. ASSUME NEW toward \in Int
      PROVE  Resolve(n, toward) = IF caps # << >>
                                  THEN IF Len(caps) = 1 \/ toward = None THEN caps[1]
                                       ELSE caps[NearestTo(caps, toward)]
                                  ELSE IF pos = None THEN None ELSE SnapToNearCap(pos)
  BY DEF Resolve
<1> HIDE DEF caps, pos, d
<1>7. ASSUME NEW toward \in Int PROVE Resolve(n, toward) \in Ends(n)
  <2>1. CASE caps = << >>
    BY <1>1, <1>2, <1>5, <1>6, <2>1
  <2>2. CASE caps # << >>
    <3>1. Len(caps) # 0 /\ 1 \in 1..Len(caps)
      BY <1>2, <2>2
    <3>2. NearestTo(caps, toward) \in 1..Len(caps)
      BY <1>2, <3>1, NearestIs
    <3>3. \A j \in 1..Len(caps) : caps[j] \in Flags(d)
      BY <1>2 DEF PointsOf
    <3>4. Resolve(n, toward) = caps[1] \/ Resolve(n, toward) = caps[NearestTo(caps, toward)]
      BY <1>6, <2>2
    <3>5. Resolve(n, toward) \in Flags(d)
      BY <3>1, <3>2, <3>3, <3>4
    <3> QED
      BY <1>5, <3>5
  <2> QED
    BY <2>1, <2>2
<1> QED
  BY <1>3, <1>4, <1>5, <1>7

LEMMA PointsFinite == IsFiniteSet(AllPoints)
<1> DEFINE A == {Anchor(z) : z \in Zones}
           B == {LaneNodes[n].pos : n \in DOMAIN LaneNodes}
           f == [z \in Zones |-> Anchor(z)]
           g == [n \in DOMAIN LaneNodes |-> LaneNodes[n].pos]
<1>1. f \in Surjection(Zones, A)
  BY DEF Surjection
<1>2. g \in Surjection(DOMAIN LaneNodes, B)
  BY DEF Surjection
<1>3. IsFiniteSet(Zones) /\ IsFiniteSet(DOMAIN LaneNodes)
  BY LanesAssumption
<1> HIDE DEF A, B, f, g
<1>4. IsFiniteSet(A) /\ IsFiniteSet(B)
  BY <1>1, <1>2, <1>3, FS_Surjection
<1> QED
  BY <1>4, FS_Union DEF AllPoints, A, B

(* An edge joins two nodes, each at one of its ends.                       *)
LEMMA EdgeIs ==
  ASSUME NEW e \in 1..Len(LaneEdges)
  PROVE  /\ LaneEdges[e][1] \in DOMAIN LaneNodes /\ LaneEdges[e][2] \in DOMAIN LaneNodes
         /\ LaneNodes[LaneEdges[e][1]].pos \in Int /\ LaneNodes[LaneEdges[e][2]].pos \in Int
<1>1. LaneEdges \in Seq((DOMAIN LaneNodes) \X (DOMAIN LaneNodes))
  BY LanesAssumption
<1>2. LaneEdges[e] \in (DOMAIN LaneNodes) \X (DOMAIN LaneNodes)
  BY <1>1
<1> QED
  BY <1>2, LanesAssumption

EndOne(e) == Resolve(LaneEdges[e][1], LaneNodes[LaneEdges[e][2]].pos)
EndTwo(e) == Resolve(LaneEdges[e][2], LaneNodes[LaneEdges[e][1]].pos)

Joint(C, p, q) == p \in C <=> q \in C

Depths == {ZoneOf[z].depth : z \in ReadZones}

\* A set the lines do not lead out of has both ends of an edge or none, and
\* both of two flags that follow one another.
LEMMA LinesAre ==
  ASSUME CapInv, zones # << >>, LaneEdges # << >>
  PROVE  /\ LaneLines \subseteq SUBSET AllPoints
         /\ \A C : Closed(LaneLines, C) =>
              /\ \A e \in 1..Len(LaneEdges) : Joint(C, EndOne(e), EndTwo(e))
              /\ \A d \in Depths : \A i \in 1..Len(CapsByPrefix(d)) - 1 :
                   Joint(C, ChainOf(CapsByPrefix(d))[i], ChainOf(CapsByPrefix(d))[i + 1])
<1> DEFINE chain(d) == ChainOf(CapsByPrefix(d))
           chains == {chain(d) : d \in Depths}
           pairs == {y \in chains \X (1..Cardinality(Zones)) : y[2] < Len(y[1])}
           edges == UNION {Segment(EndOne(e), EndTwo(e)) : e \in 1..Len(LaneEdges)}
           links == UNION {Segment(x[1][x[2]], x[1][x[2] + 1]) : x \in pairs}
<1>1. LaneLines = edges \cup links
  BY DEF LaneLines, EndOne, EndTwo, Depths
<1>2. None \notin Int /\ Cardinality(Zones) \in Nat
  BY LanesAssumption, FS_CardinalityType
<1>3. ASSUME NEW e \in 1..Len(LaneEdges)
      PROVE  EndOne(e) \in AllPoints \cap Int /\ EndTwo(e) \in AllPoints \cap Int
  BY EdgeIs, EndsAre DEF EndOne, EndTwo
<1>4. ASSUME NEW d \in Depths
      PROVE  /\ chain(d) \in Seq(Int) /\ Len(chain(d)) = Len(CapsByPrefix(d)) /\ Len(chain(d)) <= Cardinality(Zones)
             /\ \A i \in 1..Len(chain(d)) : chain(d)[i] \in AllPoints
  <2>1. CapsByPrefix(d) \in Seq(Int) /\ Len(CapsByPrefix(d)) <= Cardinality(Zones) /\ PointsOf(CapsByPrefix(d)) = Flags(d)
    BY PrefixIs
  <2>2. chain(d) \in Seq(Int) /\ Len(chain(d)) = Len(CapsByPrefix(d)) /\ PointsOf(chain(d)) = Flags(d)
    BY <2>1, ChainIs
  <2>3. Flags(d) \subseteq AllPoints
    <3>1. ReadZones \subseteq Zones
      BY LiveAre DEF ReadZones
    <3> QED
      BY <3>1 DEF Flags, AllPoints
  <2> HIDE DEF chain
  <2> QED
    BY <2>1, <2>2, <2>3 DEF PointsOf
<1> HIDE DEF chain
<1>5. ASSUME NEW x \in pairs
      PROVE  x[1][x[2]] \in AllPoints /\ x[1][x[2] + 1] \in AllPoints
  <2>1. PICK d \in Depths : x[1] = chain(d)
    OBVIOUS
  <2>2. x[2] \in 1..Cardinality(Zones) /\ x[2] < Len(chain(d))
    BY <2>1
  <2>3. Len(chain(d)) \in Nat
    BY <1>4
  <2>4. x[2] \in 1..Len(chain(d)) /\ x[2] + 1 \in 1..Len(chain(d))
    BY <1>2, <2>2, <2>3
  <2> QED
    BY <1>4, <2>1, <2>4
<1>6. \A p, q \in AllPoints : Segment(p, q) \subseteq SUBSET AllPoints
  BY DEF Segment
<1>7. LaneLines \subseteq SUBSET AllPoints
  <2>1. \A e \in 1..Len(LaneEdges) : Segment(EndOne(e), EndTwo(e)) \subseteq SUBSET AllPoints
    BY <1>3, <1>6
  <2>2. \A x \in pairs : Segment(x[1][x[2]], x[1][x[2] + 1]) \subseteq SUBSET AllPoints
    BY <1>5, <1>6
  <2> HIDE DEF pairs
  <2> QED
    BY <1>1, <2>1, <2>2
<1>8. ASSUME NEW C, Closed(LaneLines, C), NEW p \in Int, NEW q \in Int, Segment(p, q) \subseteq LaneLines
      PROVE  Joint(C, p, q)
  <2>1. p = q \/ {p, q} \in LaneLines
    BY <1>2, <1>8 DEF Segment
  <2> QED
    BY <1>8, <2>1 DEF Closed, Joint
<1>9. ASSUME NEW C, Closed(LaneLines, C), NEW e \in 1..Len(LaneEdges)
      PROVE  Joint(C, EndOne(e), EndTwo(e))
  <2>1. Segment(EndOne(e), EndTwo(e)) \subseteq LaneLines
    BY <1>1
  <2> QED
    BY <1>3, <1>8, <1>9, <2>1
<1>10. ASSUME NEW C, Closed(LaneLines, C), NEW d \in Depths, NEW i \in 1..Len(CapsByPrefix(d)) - 1
       PROVE  Joint(C, chain(d)[i], chain(d)[i + 1])
  <2>1. /\ chain(d) \in Seq(Int) /\ Len(chain(d)) = Len(CapsByPrefix(d)) /\ Len(chain(d)) <= Cardinality(Zones)
    BY <1>4
  <2> DEFINE n == Len(chain(d))
  <2>2. n \in Nat /\ i \in 1..n - 1 /\ n <= Cardinality(Zones)
    BY <2>1
  <2> HIDE DEF n
  <2>3. i \in 1..n /\ i + 1 \in 1..n /\ i < n /\ i \in 1..Cardinality(Zones)
    BY <1>2, <2>2
  <2>4. chain(d)[i] \in Int /\ chain(d)[i + 1] \in Int
    BY <2>1, <2>3 DEF n
  <2> DEFINE x == <<chain(d), i>>
  <2>5. x \in pairs
    BY <2>3 DEF n
  <2>6. Segment(x[1][x[2]], x[1][x[2] + 1]) \subseteq links
    <3> HIDE DEF x, pairs
    <3> QED
      BY <2>5
  <2>7. Segment(chain(d)[i], chain(d)[i + 1]) \subseteq LaneLines
    <3> HIDE DEF links
    <3> QED
      BY <1>1, <2>6
  <2> QED
    BY <1>8, <1>10, <2>4, <2>7
<1> QED
  BY <1>7, <1>9, <1>10 DEF chain

(* The flags of a depth are joined: all of them are led to, or none.       *)
LEMMA DepthJoined ==
  ASSUME CapInv, zones # << >>, LaneEdges # << >>, NEW C, Closed(LaneLines, C), NEW d
  PROVE  Flags(d) \subseteq C \/ Flags(d) \cap C = {}
<1> DEFINE caps == CapsByPrefix(d)
           chain == ChainOf(caps)
           n == Len(caps)
<1>1. CASE d \notin Depths
  BY <1>1 DEF Flags, Depths
<1>2. CASE d \in Depths
  <2>1. caps \in Seq(Int) /\ PointsOf(caps) = Flags(d)
    BY PrefixIs
  <2>2. Len(chain) = n /\ PointsOf(chain) = Flags(d) /\ n \in Nat
    BY <2>1, ChainIs
  <2>3. \A i \in 1..n - 1 : Joint(C, chain[i], chain[i + 1])
    BY <1>2, LinesAre
  <2> HIDE DEF chain, n
  <2> DEFINE T == {i \in 1..n : ~Joint(C, chain[1], chain[i])}
  <2>4. T = {}
    <3> SUFFICES ASSUME T # {} PROVE FALSE
      OBVIOUS
    <3>1. T \in SUBSET Nat
      BY <2>2
    <3>2. PICK m \in T : \A k \in T : m <= k
      BY <3>1, LeastNat
    <3>3. m \in 1..n /\ ~Joint(C, chain[1], chain[m])
      OBVIOUS
    <3>4. m # 1
      BY <3>3 DEF Joint
    <3>5. m - 1 \in 1..n /\ m - 1 \in 1..n - 1 /\ ~(m <= m - 1) /\ (m - 1) + 1 = m
      BY <2>2, <3>3, <3>4
    <3>6. Joint(C, chain[1], chain[m - 1])
      BY <3>2, <3>5
    <3>7. Joint(C, chain[m - 1], chain[(m - 1) + 1])
      BY <2>3, <3>5
    <3>8. Joint(C, chain[m - 1], chain[m])
      BY <3>5, <3>7
    <3> QED
      BY <3>3, <3>6, <3>8 DEF Joint
  <2>5. \A i \in 1..n : chain[1] \in C <=> chain[i] \in C
    BY <2>4 DEF Joint
  <2>6. Flags(d) = {chain[i] : i \in 1..n}
    BY <2>2 DEF PointsOf
  <2> QED
    BY <2>5, <2>6
<1> QED
  BY <1>1, <1>2

(* From whatever is on the lane its lines lead to all of it.               *)
LEMMA LaneHangs ==
  ASSUME CapInv, zones # << >>, LaneEdges # << >>, NEW C, Closed(LaneLines, C),
         NEW m \in DOMAIN LaneNodes, Ends(m) \cap C # {}
  PROVE  \A n \in DOMAIN LaneNodes : Ends(n) \subseteq C
<1>1. ASSUME NEW n \in DOMAIN LaneNodes
      PROVE  Ends(n) # {} /\ (Ends(n) \subseteq C \/ Ends(n) \cap C = {})
  <2>1. Ends(n) # {}
    BY EndsAre
  <2>2. Flags(LaneNodes[n].depth) \subseteq C \/ Flags(LaneNodes[n].depth) \cap C = {}
    BY DepthJoined
  <2> QED
    BY <2>1, <2>2 DEF Ends
<1> DEFINE N == {n \in DOMAIN LaneNodes : Ends(n) \subseteq C}
<1>2. m \in N
  BY <1>1
<1>3. ASSUME NEW e \in 1..Len(LaneEdges)
      PROVE  LaneEdges[e][1] \in N <=> LaneEdges[e][2] \in N
  <2> DEFINE a == LaneEdges[e][1]
             b == LaneEdges[e][2]
  <2>1. a \in DOMAIN LaneNodes /\ b \in DOMAIN LaneNodes
    BY EdgeIs
  <2>2. EndOne(e) \in Ends(a) /\ EndTwo(e) \in Ends(b)
    BY EdgeIs, EndsAre DEF EndOne, EndTwo
  <2>3. EndOne(e) \in C <=> EndTwo(e) \in C
    BY LinesAre DEF Joint
  <2> HIDE DEF a, b
  <2>4. Ends(a) \subseteq C <=> EndOne(e) \in C
    BY <1>1, <2>1, <2>2
  <2>5. Ends(b) \subseteq C <=> EndTwo(e) \in C
    BY <1>1, <2>1, <2>2
  <2> QED
    BY <2>1, <2>3, <2>4, <2>5 DEF a, b
<1> HIDE DEF N
<1>4. N \in SUBSET (DOMAIN LaneNodes) /\ N # {}
  BY <1>2 DEF N
<1>5. N = DOMAIN LaneNodes
  BY <1>3, <1>4, LanesAssumption
<1> QED
  BY <1>5 DEF N

LEMMA LaneIs ==
  ASSUME CapInv
  PROVE  LaneThreadsFlags
<1> DEFINE depths == {LaneNodes[n].depth : n \in DOMAIN LaneNodes}
           flags == {Anchor(z) : z \in {y \in ReadZones : ZoneOf[y].depth \in depths}}
           ends == {EndOne(e) : e \in 1..Len(LaneEdges)} \ {None}
           all == flags \cup ends
<1> SUFFICES ASSUME zones # << >>, LaneEdges # << >>
             PROVE  \E p \in all : all \subseteq LaneSpread(LaneLines, {p}, Cardinality(LaneLines))
  BY DEF LaneThreadsFlags, EndOne
<1>1. IsFiniteSet(LaneLines)
  <2>1. IsFiniteSet(SUBSET AllPoints)
    BY PointsFinite, FS_SUBSET
  <2> QED
    BY <2>1, LinesAre, FS_Subset
<1>2. \A p \in all : \E n \in DOMAIN LaneNodes : p \in Ends(n)
  <2>1. ASSUME NEW p \in flags PROVE \E n \in DOMAIN LaneNodes : p \in Ends(n)
    <3>1. PICK n \in DOMAIN LaneNodes : p \in Flags(LaneNodes[n].depth)
      BY DEF Flags
    <3> QED
      BY <3>1 DEF Ends
  <2>2. ASSUME NEW e \in 1..Len(LaneEdges) PROVE \E n \in DOMAIN LaneNodes : EndOne(e) \in Ends(n)
    BY EdgeIs, EndsAre DEF EndOne
  <2> QED
    BY <2>1, <2>2
<1>3. all # {}
  <2>1. 1 \in 1..Len(LaneEdges)
    BY LanesAssumption
  <2>2. \A e \in 1..Len(LaneEdges) : EndOne(e) \in Int
    BY EdgeIs, EndsAre DEF EndOne
  <2>3. EndOne(1) # None
    BY <2>1, <2>2, LanesAssumption
  <2> QED
    BY <2>1, <2>3
<1>4. PICK p \in all : TRUE
  BY <1>3
<1> DEFINE C == LaneSpread(LaneLines, {p}, Cardinality(LaneLines))
<1>5. p \in C /\ Closed(LaneLines, C)
  BY <1>1, SpreadCloses
<1> HIDE DEF all, C
<1>6. PICK m \in DOMAIN LaneNodes : p \in Ends(m)
  BY <1>2
<1>7. \A n \in DOMAIN LaneNodes : Ends(n) \subseteq C
  BY <1>5, <1>6, LaneHangs
<1>8. all \subseteq C
  BY <1>2, <1>7
<1> QED
  BY <1>8 DEF C

(* The objectives on the map agree with one another, whatever lane the     *)
(* layer rolls and however the flags change hands: the fog lifts with the  *)
(* roll and not before, a flag in dispute shows it, the line goes through  *)
(* every flag of the lane, and the cursor on a flag finds that flag or,    *)
(* zoomed in too far from the place read from memory, none - however far   *)
(* the two are apart within the reader's reach and however near the cursor *)
(* must be (canvas/capVisibility.ts, draw.ts and hitTest.ts).              *)
THEOREM ZonesHold == ScreenSpec => []ZonesAgree
<1>1. ScreenInit => CapInv
  BY PartsInit, CapStarts
<1>2. CapInv /\ [ScreenNext]_screenVars => CapInv'
  BY PartsNext, CapKeeps
<1>3. CapInv => ZonesAgree
  BY FogIs, ContestIs, LaneIs, MarksHit DEF ZonesAgree
<1> QED
  BY <1>1, <1>2, <1>3, PTL DEF ScreenSpec
=============================================================================
