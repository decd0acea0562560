----------------------------- MODULE ZoneWizard -----------------------------
(***************************************************************************)
(* The zones of the settings (components/settings/ZoneWizardPanel.tsx),    *)
(* drawn on one canvas for whichever camera is selected (components/       *)
(* enterprise/ZoneWizard.tsx).  The panel keeps the zones of each camera,  *)
(* the wizard a copy of those it shows; both change with every zone.       *)
(* A zone is the cameras that its points were clicked over and its colour. *)
(***************************************************************************)
EXTENDS Integers, FiniteSets, Sequences, Functions

CONSTANTS
  Cameras,
  Colours,   \* ZONE_COLORS.length
  MaxZones,  \* bound: zones in all
  MaxPoints  \* bound: points of a zone

NoCamera == "none"
None     == 0

VARIABLES
  camera,                   \* selectedCameraId
  zones,                    \* of the panel, per camera
  local,                    \* zones of the wizard
  colorIndex,
  selectedZone,             \* selectedZoneIndex, from 1
  isDrawing, currentPoints, \* each point as the camera that was shown
  naming,                   \* showNameInput
  storage                   \* cameras with zones in localStorage

drawing == <<isDrawing, currentPoints, naming>>
vars    == <<camera, zones, local, colorIndex, selectedZone, drawing, storage>>

Mounted == camera # NoCamera

NoZones == [c \in Cameras |-> <<>>]

Init ==
  /\ camera = NoCamera /\ zones = NoZones /\ local = <<>> /\ colorIndex = 0
  /\ selectedZone = None /\ isDrawing = FALSE /\ currentPoints = <<>> /\ naming = FALSE
  /\ storage = {}

(* Another panel is opened, and this one again: what was saved is not read.*)
Reopen ==
  /\ Mounted
  /\ camera' = NoCamera /\ zones' = NoZones /\ local' = <<>> /\ colorIndex' = 0
  /\ selectedZone' = None /\ isDrawing' = FALSE /\ currentPoints' = <<>> /\ naming' = FALSE
  /\ UNCHANGED storage

-----------------------------------------------------------------------------
(* Variant: the copy is the one the wizard was mounted with.               *)
ShowOnce(list) ==
  IF local = <<>> THEN local' = list /\ colorIndex' = Len(list) % Colours
  ELSE UNCHANGED <<local, colorIndex>>

(* The effect on existingZones.                                            *)
Show(list) == local' = list /\ colorIndex' = Len(list) % Colours

(* The wizard stays mounted, with what is drawn and selected in it.        *)
SelectCamera(c) ==
  /\ c # camera /\ camera' = c
  /\ Show(zones[c])
  /\ UNCHANGED <<zones, selectedZone, drawing, storage>>

(* setZones and onZonesChange, after which existingZones is another list.  *)
Change(list) == zones' = [zones EXCEPT ![camera] = list] /\ Show(list)

(* handleCanvasClick: a point, or the zone that is hit.                    *)
Click ==
  /\ Mounted
  /\ IF isDrawing
     THEN /\ Len(currentPoints) < MaxPoints
          /\ currentPoints' = Append(currentPoints, camera)
          /\ UNCHANGED selectedZone
     ELSE selectedZone' \in DOMAIN local \cup {None} /\ UNCHANGED currentPoints
  /\ UNCHANGED <<camera, zones, local, colorIndex, isDrawing, naming, storage>>

SelectListed(i) ==
  /\ Mounted /\ i \in DOMAIN local /\ selectedZone' = i
  /\ UNCHANGED <<camera, zones, local, colorIndex, drawing, storage>>

(* finishZone.                                                             *)
Finish(points) ==
  /\ Len(points) >= 3 /\ SumFunction([c \in Cameras |-> Len(zones[c])]) < MaxZones
  /\ Change(Append(local, [over |-> Range(points), color |-> colorIndex]))
  /\ isDrawing' = FALSE /\ currentPoints' = <<>> /\ naming' = FALSE
  /\ UNCHANGED <<camera, selectedZone, storage>>

(* A shift click, or the button by the name that was asked for.            *)
FinishDrawn == Mounted /\ isDrawing /\ Finish(currentPoints)

(* A double click is two clicks first, at the same place.                  *)
DoubleClick ==
  LET twice == currentPoints \o <<camera, camera>>
  IN  /\ Mounted /\ isDrawing /\ Len(twice) <= MaxPoints
      /\ IF Len(twice) >= 3 THEN Finish(twice)
         ELSE /\ currentPoints' = twice
              /\ UNCHANGED <<camera, zones, local, colorIndex, selectedZone, isDrawing, naming, storage>>

StartDrawing ==
  /\ Mounted /\ ~isDrawing
  /\ isDrawing' = TRUE /\ currentPoints' = <<>> /\ selectedZone' = None
  /\ UNCHANGED <<camera, zones, local, colorIndex, naming, storage>>

(* The field for the name stays.                                           *)
CancelDrawing ==
  /\ isDrawing /\ isDrawing' = FALSE /\ currentPoints' = <<>>
  /\ UNCHANGED <<camera, zones, local, colorIndex, selectedZone, naming, storage>>

AskName ==
  /\ isDrawing /\ Len(currentPoints) >= 3 /\ ~naming /\ naming' = TRUE
  /\ UNCHANGED <<camera, zones, local, colorIndex, selectedZone, isDrawing, currentPoints, storage>>

UndoLastPoint ==
  /\ isDrawing /\ currentPoints # <<>>
  /\ currentPoints' = SubSeq(currentPoints, 1, Len(currentPoints) - 1)
  /\ UNCHANGED <<camera, zones, local, colorIndex, selectedZone, isDrawing, naming, storage>>

(* An index that is not in the list removes nothing.                       *)
DeleteSelectedZone ==
  /\ Mounted /\ ~isDrawing /\ selectedZone # None
  /\ Change(IF selectedZone \in DOMAIN local
              THEN SubSeq(local, 1, selectedZone - 1) \o SubSeq(local, selectedZone + 1, Len(local))
              ELSE local)
  /\ selectedZone' = None
  /\ UNCHANGED <<camera, drawing, storage>>

ClearAllZones ==
  /\ Mounted /\ ~isDrawing /\ local # <<>>
  /\ Change(<<>>) /\ selectedZone' = None
  /\ UNCHANGED <<camera, drawing, storage>>

HandleSaveZones ==
  /\ Mounted /\ zones[camera] # <<>> /\ storage' = {c \in Cameras : zones[c] # <<>>}
  /\ UNCHANGED <<camera, zones, local, colorIndex, selectedZone, drawing>>

Next ==
  \/ \E c \in Cameras : SelectCamera(c)
  \/ \E i \in DOMAIN local : SelectListed(i)
  \/ Click \/ FinishDrawn \/ DoubleClick \/ StartDrawing \/ CancelDrawing \/ AskName
  \/ UndoLastPoint \/ DeleteSelectedZone \/ ClearAllZones \/ HandleSaveZones \/ Reopen

Spec == Init /\ [][Next]_vars

-----------------------------------------------------------------------------
(* The zones that the wizard shows, and appends to, are the panel's of the *)
(* camera, whatever was selected or drawn before (existingZones).          *)
InStep == Mounted => local = zones[camera]

-----------------------------------------------------------------------------
(* What the code does not do; each is refuted by a demonstration.          *)

(* A zone was drawn over its own camera.                                   *)
OwnPoints == \A c \in Cameras : \A z \in Range(zones[c]) : z.over = {c}

(* The colours of a camera's zones tell them apart while there are enough. *)
ColorsApart == Len(local) <= Colours => IsInjective([i \in DOMAIN local |-> local[i].color])

(* What was saved for one camera is kept when another one's is saved.      *)
SavedStay == [][HandleSaveZones => storage \ {camera} \subseteq storage']_vars
=============================================================================
