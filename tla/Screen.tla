------------------------------- MODULE Screen -------------------------------
(***************************************************************************)
(* The parts of the screen around the map, side by side.  Each draws or    *)
(* answers for itself: it reads the frame on display and its own state,    *)
(* and none writes what another reads.  A behaviour here is therefore one  *)
(* of a single part, the others not being on the page (their ...Off).      *)
(***************************************************************************)
EXTENDS VehiclePanel, RosterPanels, HudPanels, Captures, Rounds, Motion, Fit,
        Painting, Pages, Loading

screenVars == <<vehicleVars, rosterVars, hudVars, capVars, roundVars, motionVars,
                fitVars, paintVars, pageVars, catalogVars, clip>>

ScreenInit ==
  \/ /\ VehicleInit /\ RosterOff /\ HudOff /\ CapOff /\ RoundsOff /\ MotionOff
     /\ FitOff /\ PaintOff /\ PageOff /\ CatalogOff /\ ClipOff
  \/ /\ RosterInit /\ VehicleOff /\ HudOff /\ CapOff /\ RoundsOff /\ MotionOff
     /\ FitOff /\ PaintOff /\ PageOff /\ CatalogOff /\ ClipOff
  \/ /\ HudInit /\ VehicleOff /\ RosterOff /\ CapOff /\ RoundsOff /\ MotionOff
     /\ FitOff /\ PaintOff /\ PageOff /\ CatalogOff /\ ClipOff
  \/ /\ CapInit /\ VehicleOff /\ RosterOff /\ HudOff /\ RoundsOff /\ MotionOff
     /\ FitOff /\ PaintOff /\ PageOff /\ CatalogOff /\ ClipOff
  \/ /\ RoundsInit /\ VehicleOff /\ RosterOff /\ HudOff /\ CapOff /\ MotionOff
     /\ FitOff /\ PaintOff /\ PageOff /\ CatalogOff /\ ClipOff
  \/ /\ MotionInit /\ VehicleOff /\ RosterOff /\ HudOff /\ CapOff /\ RoundsOff
     /\ FitOff /\ PaintOff /\ PageOff /\ CatalogOff /\ ClipOff
  \/ /\ FitInit /\ VehicleOff /\ RosterOff /\ HudOff /\ CapOff /\ RoundsOff
     /\ MotionOff /\ PaintOff /\ PageOff /\ CatalogOff /\ ClipOff
  \/ /\ PaintInit /\ VehicleOff /\ RosterOff /\ HudOff /\ CapOff /\ RoundsOff
     /\ MotionOff /\ FitOff /\ PageOff /\ CatalogOff /\ ClipOff
  \/ /\ PageInit /\ VehicleOff /\ RosterOff /\ HudOff /\ CapOff /\ RoundsOff
     /\ MotionOff /\ FitOff /\ PaintOff /\ CatalogOff /\ ClipOff
  \/ /\ CatalogInit /\ VehicleOff /\ RosterOff /\ HudOff /\ CapOff /\ RoundsOff
     /\ MotionOff /\ FitOff /\ PaintOff /\ PageOff /\ ClipOff
  \/ /\ ClipInit /\ VehicleOff /\ RosterOff /\ HudOff /\ CapOff /\ RoundsOff
     /\ MotionOff /\ FitOff /\ PaintOff /\ PageOff /\ CatalogOff

ScreenNext ==
  \/ VehicleNext /\ UNCHANGED <<rosterVars, hudVars, capVars, roundVars, motionVars,
                                 fitVars, paintVars, pageVars, catalogVars, clip>>
  \/ RosterNext /\ UNCHANGED <<vehicleVars, hudVars, capVars, roundVars, motionVars,
                                fitVars, paintVars, pageVars, catalogVars, clip>>
  \/ HudNext /\ UNCHANGED <<vehicleVars, rosterVars, capVars, roundVars, motionVars,
                             fitVars, paintVars, pageVars, catalogVars, clip>>
  \/ CapNext /\ UNCHANGED <<vehicleVars, rosterVars, hudVars, roundVars, motionVars,
                             fitVars, paintVars, pageVars, catalogVars, clip>>
  \/ RoundsNext /\ UNCHANGED <<vehicleVars, rosterVars, hudVars, capVars, motionVars,
                                fitVars, paintVars, pageVars, catalogVars, clip>>
  \/ MotionNext /\ UNCHANGED <<vehicleVars, rosterVars, hudVars, capVars, roundVars,
                                fitVars, paintVars, pageVars, catalogVars, clip>>
  \/ FitNext /\ UNCHANGED <<vehicleVars, rosterVars, hudVars, capVars, roundVars,
                             motionVars, paintVars, pageVars, catalogVars, clip>>
  \/ PaintNext /\ UNCHANGED <<vehicleVars, rosterVars, hudVars, capVars, roundVars,
                               motionVars, fitVars, pageVars, catalogVars, clip>>
  \/ PageNext /\ UNCHANGED <<vehicleVars, rosterVars, hudVars, capVars, roundVars,
                              motionVars, fitVars, paintVars, catalogVars, clip>>
  \/ CatalogNext /\ UNCHANGED <<vehicleVars, rosterVars, hudVars, capVars, roundVars,
                                 motionVars, fitVars, paintVars, pageVars, clip>>
  \/ ClipNext /\ UNCHANGED <<vehicleVars, rosterVars, hudVars, capVars, roundVars,
                              motionVars, fitVars, paintVars, pageVars, catalogVars>>

ScreenSpec == ScreenInit /\ [][ScreenNext]_screenVars
=============================================================================
