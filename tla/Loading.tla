------------------------------ MODULE Loading ------------------------------
(***************************************************************************)
(* Two things of the page that go on beside the match: the two catalogues  *)
(* of weapons, pulled in as chunks of their own by the first panel that    *)
(* needs them (data/staticCatalogs.ts), and the clip a user records of the *)
(* map (ui/ClipRecorder.tsx), whose data and end the browser reports in    *)
(* events of their own.                                                    *)
(***************************************************************************)
EXTENDS ReplayBasics

CONSTANTS
  MaxMounts,   \* bounds the panels that come up
  MaxClips,    \* and the clips recorded
  MaxData      \* and the pieces of a clip

Catalogues == {"weapons", "vehicleWeapons"}

VARIABLES
  loaded,      \* None, or the catalogues that are in
  started,     \* the guard of ensureCatalogs
  imports,     \* the imports under way: [which, mount]
  mounts,      \* panels that came up so far
  clip         \* None, or [component, recording, recorders, chunks, made, saved]

catalogVars == <<loaded, started, imports, mounts>>
loadVars == <<catalogVars, clip>>

-----------------------------------------------------------------------------
(* The catalogues *)

PanelMounts ==
  /\ mounts < MaxMounts
  /\ mounts' = mounts + 1
  /\ started' = TRUE
  /\ imports' = IF started THEN imports ELSE imports \cup {[which |-> c, mount |-> mounts + 1] : c \in Catalogues}
  /\ UNCHANGED loaded

Imported(i) ==
  /\ imports' = imports \ {i}
  /\ loaded' = loaded \cup {i.which}
  /\ UNCHANGED <<started, mounts>>

(* Either of the two lets a later panel try again. *)
ImportFails(i) ==
  /\ imports' = imports \ {i}
  /\ started' = FALSE
  /\ UNCHANGED <<loaded, mounts>>

CatalogInit == loaded = {} /\ started = FALSE /\ imports = {} /\ mounts = 0
CatalogOff == loaded = None /\ started = FALSE /\ imports = {} /\ mounts = 0

CatalogNext ==
  /\ loaded # None
  /\ PanelMounts \/ \E i \in imports : Imported(i) \/ ImportFails(i)

-----------------------------------------------------------------------------
(* The clip *)

Recorder(state) == {r \in clip.recorders : r.component = clip.component /\ r.state = state}
Becomes(rs, state) == (clip.recorders \ rs) \cup {[r EXCEPT !.state = state] : r \in rs}

StartClip ==
  /\ ~clip.recording /\ Len(clip.made) < MaxClips
  /\ clip' = [clip EXCEPT
       !.recording = TRUE, !.made = Append(@, 0), !.chunks[clip.component] = << >>,
       !.recorders = @ \cup {[component |-> clip.component, of |-> Len(clip.made) + 1, state |-> "recording"]}]

(* stop() has the recorder end; the button stays a stop until it has.      *)
StopClipAtOnce ==
  /\ clip.recording
  /\ clip' = [clip EXCEPT !.recorders = Becomes(Recorder("recording"), "stopping"), !.recording = FALSE]

StopClip ==
  /\ clip.recording
  /\ clip' = [clip EXCEPT !.recorders = Becomes(Recorder("recording"), "stopping")]

(* ondataavailable *)
Data(r) ==
  /\ clip.made[r.of] < MaxData
  /\ clip' = [clip EXCEPT !.made[r.of] = @ + 1, !.chunks[r.component] = Append(@, r.of)]

(* onstop: the file is saved. *)
Stopped(r) ==
  /\ r.state = "stopping"
  /\ clip' = [clip EXCEPT
       !.recorders = @ \ {r}, !.chunks[r.component] = << >>,
       !.saved = @ \cup {[of |-> r.of, chunks |-> clip.chunks[r.component]]},
       !.recording = @ /\ r.component # clip.component]

(* The browser ends a recorder itself. *)
RecorderEnds(r) ==
  r.state = "recording" /\ clip' = [clip EXCEPT !.recorders = Becomes({r}, "stopping")]

(* The component goes, stopping its recorder, and comes up anew. *)
ClipRemount ==
  /\ clip.component = 1
  /\ clip' = [clip EXCEPT !.component = 2, !.recording = FALSE,
                          !.recorders = Becomes(Recorder("recording"), "stopping")]

ClipInit ==
  clip = [component |-> 1, recording |-> FALSE, recorders |-> {}, chunks |-> [c \in 1..2 |-> << >>],
          made |-> << >>, saved |-> {}]
ClipOff == clip = None

ClipNext ==
  /\ clip # None
  /\ \/ StartClip \/ StopClip \/ ClipRemount
     \/ \E r \in clip.recorders : Data(r) \/ Stopped(r) \/ RecorderEnds(r)

-----------------------------------------------------------------------------
(* Properties *)

(* Catalogues that did not come are asked for again: when nothing is under *)
(* way and one is missing, the next panel starts both (ensureCatalogs).    *)
CatalogsRetried ==
  loaded # None /\ imports = {} /\ ~(Catalogues \subseteq loaded) => ~started

(* A saved clip is one recording, whole: all the data its recorder gave    *)
(* and none of another, though the recorder ends after the click, by       *)
(* itself, or when its component has gone.                                 *)
ClipIsOneRecording ==
  clip # None =>
    \A file \in clip.saved :
      /\ Range(file.chunks) \subseteq {file.of}
      /\ Len(file.chunks) = clip.made[file.of]

(* What is fetched or recorded in pieces is whole in the end or tried      *)
(* again: the catalogues of the panels, the data of a clip.                *)
LoadsWhole == CatalogsRetried /\ ClipIsOneRecording
=============================================================================
