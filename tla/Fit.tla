-------------------------------- MODULE Fit ---------------------------------
(***************************************************************************)
(* The rectangle of the map the canvas shows at zoom 1 (autoFit and        *)
(* refitAspect of canvas/worldToScreen.ts, called by the paint loop of     *)
(* canvas/MapCanvas.tsx): fitted once, to the first frame, and reshaped    *)
(* whenever the canvas changes its aspect.                                 *)
(*                                                                         *)
(* A point is <<x, y>>, a rectangle [minX, minY, maxX, maxY] and a canvas  *)
(* <<width, height>> with the smaller of the two 1.  The code divides      *)
(* numbers that have fractions; here the unit of length is so small that   *)
(* no division leaves a remainder (FitAssumption).                         *)
(***************************************************************************)
EXTENDS ReplayBasics

CONSTANTS
  Crowds,     \* sets of points: where things are in the first frame
  LayerRects, \* bounds of the layer, or None
  Canvases, Pad,
  Grain,      \* a multiple of every width and height of a canvas
  MaxResizes  \* bound: changes of the canvas

VARIABLES
  crowd, layerRect, canvas, rect, resizes

fitVars == <<crowd, layerRect, canvas, rect, resizes>>

Wide(r) == MaxOf(r.maxX - r.minX, 1)
High(r) == MaxOf(r.maxY - r.minY, 1)

(* The side that is too short for the canvas is padded on both ends. *)
Widen(r, extra) ==
  [minX |-> r.minX - extra, maxX |-> r.maxX + extra, minY |-> r.minY, maxY |-> r.maxY]
Heighten(r, extra) ==
  [minX |-> r.minX, maxX |-> r.maxX, minY |-> r.minY - extra, maxY |-> r.maxY + extra]

RefitCropping(r, c) ==
  IF Wide(r) * c[2] < High(r) * c[1]
  THEN Heighten(r, -((High(r) - (Wide(r) * c[2]) \div c[1]) \div 2))
  ELSE Widen(r, -((Wide(r) - (High(r) * c[1]) \div c[2]) \div 2))

RefitAspect(r, c) ==
  IF Wide(r) * c[2] < High(r) * c[1]
  THEN Widen(r, ((High(r) * c[1]) \div c[2] - Wide(r)) \div 2)
  ELSE Heighten(r, ((Wide(r) * c[2]) \div c[1] - High(r)) \div 2)

Least(S) == CHOOSE x \in S : \A y \in S : x <= y
Most(S) == CHOOSE x \in S : \A y \in S : x >= y

(* The box of the things, with a margin. *)
Box(P) ==
  [minX |-> Least({p[1] : p \in P}) - Pad, maxX |-> Most({p[1] : p \in P}) + Pad,
   minY |-> Least({p[2] : p \in P}) - Pad, maxY |-> Most({p[2] : p \in P}) + Pad]

ToFit(P, layer) == IF layer # None THEN layer ELSE Box(P)
AutoFit(P, layer, c) == RefitAspect(ToFit(P, layer), c)

(* What the sides of the rectangle are multiples of while n refits are to  *)
(* come: each divides them by a side of a canvas.                          *)
Unit ==
  LET unit[n \in 0..MaxResizes + 1] == IF n = 0 THEN 2 ELSE unit[n - 1] * Grain
  IN  unit

Rect == [minX : Int, maxX : Int, minY : Int, maxY : Int]

ASSUME FitAssumption ==
  /\ MaxResizes \in Nat /\ Pad \in Nat /\ Grain \in Nat \ {0}
  /\ \A c \in Canvases : /\ c \in (Nat \ {0}) \X (Nat \ {0})
                         /\ Grain % c[1] = 0 /\ Grain % c[2] = 0
  /\ \A P \in Crowds : P # {} /\ IsFiniteSet(P) /\ P \subseteq Int \X Int
  /\ \A l \in LayerRects \ {None} : l \in Rect
  /\ \A P \in Crowds, l \in LayerRects :
       LET r == ToFit(P, l)
       IN  /\ r.maxX - r.minX > 0 /\ (r.maxX - r.minX) % Unit[MaxResizes + 1] = 0
           /\ r.maxY - r.minY > 0 /\ (r.maxY - r.minY) % Unit[MaxResizes + 1] = 0

FitInit ==
  /\ crowd \in Crowds /\ layerRect \in LayerRects /\ canvas \in Canvases
  /\ rect = AutoFit(crowd, layerRect, canvas)
  /\ resizes = 0

FitOff == crowd = {} /\ layerRect = None /\ canvas = None /\ rect = None /\ resizes = 0

Resize(c) ==
  /\ c # canvas /\ resizes < MaxResizes
  /\ canvas' = c /\ resizes' = resizes + 1
  /\ rect' = RefitAspect(rect, c)
  /\ UNCHANGED <<crowd, layerRect>>

FitNext == rect # None /\ \E c \in Canvases : Resize(c)

-----------------------------------------------------------------------------
(* Properties *)

Holds(r, p) == p[1] \in r.minX..r.maxX /\ p[2] \in r.minY..r.maxY

(* However the window is resized, all of the layer - without one, all that *)
(* was on the map at the start - stays in view, and both axes keep one     *)
(* scale, so that headings agree with the map.                             *)
FitHoldsAll ==
  rect # None =>
    /\ Wide(rect) * canvas[2] = High(rect) * canvas[1]
    /\ IF layerRect = None THEN \A p \in crowd : Holds(rect, p)
       ELSE Holds(rect, <<layerRect.minX, layerRect.minY>>) /\
            Holds(rect, <<layerRect.maxX, layerRect.maxY>>)
=============================================================================
