--------------------------- MODULE CountingLines ----------------------------
(***************************************************************************)
(* The lines of the people counter (ConfigTab, LineEditor and its form in  *)
(* pages/plugins/PeopleCountingPage.tsx): a copy of the lines of one       *)
(* camera, edited here and saved as a whole, which an effect loads again   *)
(* whenever the camera or the configuration of the plugin changes.         *)
(***************************************************************************)
EXTENDS Integers, Sequences

CONSTANTS
  Cameras,
  AtStart,   \* per camera, the lines stored when the page is opened
  LineKinds, \* what the form can say of a line
  MaxLines,  \* bound: lines of a camera
  MaxSaves   \* bound: PUTs

OfEach == DOMAIN AtStart = Cameras

VARIABLES
  selected,  \* selectedCamera, or none
  config,    \* plugin.config: countingLines, as last fetched
  query,     \* the plugins query: idle, asked, or what the server read
  stored,    \* the configuration in the database
  lines,     \* localLines
  dirty,     \* Cambios sin guardar: the button saves only then
  put,       \* the PUT under way, saveMut
  phase,     \* idle, p1, p2
  pending,   \* the form: none, new, the index of the line it edits, or gone
  began,     \* history: the camera over whose picture p1 of the line being drawn was placed
  late,      \* history: the lines were changed while they were being saved
  saves

tab == <<selected, config, query, stored, lines, dirty, put, phase, pending, began, late, saves>>

NoCamera == [none |-> "camera"]
Idle == [step |-> "idle"]
Closed == [form |-> "none"]
New == [form |-> "new"]
Editing(i) == [form |-> "edit", line |-> i]
Gone == [form |-> "gone"]   \* editingId is the id of no line

Init ==
  /\ selected = NoCamera
  /\ config = [c \in Cameras |-> <<>>] /\ stored = AtStart /\ query = Idle
  /\ lines = <<>> /\ dirty = FALSE /\ put = Idle
  /\ phase = "idle" /\ pending = Closed
  /\ began = NoCamera /\ late = FALSE /\ saves = 0

-----------------------------------------------------------------------------
(* The effect on selectedCamera.id and plugin.config: configToLines gives  *)
(* every line a new id, so that the line in the form is not found again.   *)

Orphaned == IF pending.form = "edit" THEN Gone ELSE pending

Load(c, conf) ==
  /\ lines' = conf[c] /\ dirty' = FALSE
  /\ pending' = Orphaned /\ late' = FALSE

(* The form covers the page: nothing else is pressed while it is open.     *)
Select(c) ==
  /\ pending = Closed /\ c # selected
  /\ selected' = c
  /\ Load(c, config)
  /\ UNCHANGED <<config, query, stored, put, phase, began, saves>>

Refetched == IF query = Idle THEN [step |-> "asked"] ELSE query

(* The page is opened, or the window gets the focus.                       *)
Refocus ==
  /\ query = Idle
  /\ query' = Refetched
  /\ UNCHANGED <<selected, config, stored, lines, dirty, put, phase, pending, began, late, saves>>

Read ==
  /\ query.step = "asked"
  /\ query' = [step |-> "read", conf |-> stored]
  /\ UNCHANGED <<selected, config, stored, lines, dirty, put, phase, pending, began, late, saves>>

(* An equal answer keeps the object, and the effect does not run.          *)
Fetched ==
  /\ query.step = "read"
  /\ query' = Idle /\ config' = query.conf
  /\ IF query.conf # config /\ selected # NoCamera THEN Load(selected, query.conf)
     ELSE UNCHANGED <<lines, dirty, pending, late>>
  /\ UNCHANGED <<selected, stored, put, phase, began, saves>>

FetchFails ==
  /\ query.step # "idle"
  /\ query' = Idle
  /\ UNCHANGED <<selected, config, stored, lines, dirty, put, phase, pending, began, late, saves>>

-----------------------------------------------------------------------------
(* LineEditor.                                                             *)

(* handleLinesChange.                                                      *)
Changed(list) ==
  /\ lines' = list /\ dirty' = TRUE
  /\ late' = (late \/ put # Idle)

StartDraw ==
  /\ selected # NoCamera /\ pending = Closed /\ phase = "idle" /\ Len(lines) < MaxLines
  /\ phase' = "p1"
  /\ UNCHANGED <<selected, config, query, stored, lines, dirty, put, pending, began, late, saves>>

CancelDraw ==
  /\ phase # "idle"
  /\ phase' = "idle" /\ began' = NoCamera
  /\ UNCHANGED <<selected, config, query, stored, lines, dirty, put, pending, late, saves>>

(* handleSvgClick; a line that is too short changes nothing.               *)
ClickStart ==
  /\ phase = "p1"
  /\ phase' = "p2" /\ began' = selected
  /\ UNCHANGED <<selected, config, query, stored, lines, dirty, put, pending, late, saves>>

ClickEnd ==
  /\ phase = "p2"
  /\ phase' = "idle" /\ pending' = New
  /\ UNCHANGED <<selected, config, query, stored, lines, dirty, put, began, late, saves>>

EditLine(i) ==
  /\ pending = Closed /\ i \in DOMAIN lines
  /\ pending' = Editing(i)
  /\ UNCHANGED <<selected, config, query, stored, lines, dirty, put, phase, began, late, saves>>

DeleteLine(i) ==
  /\ pending = Closed /\ i \in DOMAIN lines
  /\ Changed(SubSeq(lines, 1, i - 1) \o SubSeq(lines, i + 1, Len(lines)))
  /\ UNCHANGED <<selected, config, query, stored, put, phase, pending, began, saves>>

(* handleFormConfirm: a line that is not found is not changed.             *)
Confirm(kind) ==
  /\ pending # Closed
  /\ Changed(CASE pending = New -> Append(lines, kind)
               [] pending.form = "edit" -> [lines EXCEPT ![pending.line] = kind]
               [] pending = Gone -> lines)
  /\ pending' = Closed /\ began' = NoCamera
  /\ UNCHANGED <<selected, config, query, stored, put, phase, saves>>

CancelForm ==
  /\ pending # Closed
  /\ pending' = Closed /\ began' = NoCamera
  /\ UNCHANGED <<selected, config, query, stored, lines, dirty, put, phase, late, saves>>

-----------------------------------------------------------------------------
(* saveMut.                                                                *)

Save ==
  /\ selected # NoCamera /\ pending = Closed /\ dirty /\ put = Idle /\ saves < MaxSaves
  /\ saves' = saves + 1
  /\ put' = [step |-> "sent", conf |-> [config EXCEPT ![selected] = lines]]
  /\ late' = FALSE
  /\ UNCHANGED <<selected, config, query, stored, lines, dirty, phase, pending, began>>

Apply ==
  /\ put.step = "sent"
  /\ put' = [put EXCEPT !.step = "applied"] /\ stored' = put.conf
  /\ UNCHANGED <<selected, config, query, lines, dirty, phase, pending, began, late, saves>>

(* Variant: the lines count as saved whatever the answer is.               *)
SaveSettled ==
  /\ put.step \in {"sent", "applied"}
  /\ put' = Idle /\ dirty' = FALSE
  /\ query' = Refetched
  /\ UNCHANGED <<selected, config, stored, lines, phase, pending, began, late, saves>>

(* onSuccess.                                                              *)
Saved ==
  /\ put.step = "applied"
  /\ put' = Idle /\ dirty' = FALSE
  /\ query' = Refetched
  /\ UNCHANGED <<selected, config, stored, lines, phase, pending, began, late, saves>>

(* Nothing tells it; the lines stay dirty.                                 *)
SaveFails ==
  /\ put.step \in {"sent", "applied"}
  /\ put' = Idle
  /\ UNCHANGED <<selected, config, query, stored, lines, dirty, phase, pending, began, late, saves>>

Next ==
  \/ Refocus \/ Read \/ Fetched \/ FetchFails
  \/ StartDraw \/ CancelDraw \/ ClickStart \/ ClickEnd \/ CancelForm
  \/ Save \/ Apply \/ Saved \/ SaveFails
  \/ \E c \in Cameras : Select(c)
  \/ \E i \in 1..MaxLines : EditLine(i) \/ DeleteLine(i)
  \/ \E kind \in LineKinds : Confirm(kind)

Spec == Init /\ [][Next]_tab

-----------------------------------------------------------------------------
(* What the page shows as saved is what is stored, once its configuration  *)
(* is the stored one and no PUT is under way, whatever was drawn, edited,  *)
(* selected, refused or fetched before; not if the lines were changed      *)
(* while they were being saved (dirty, the effect, onSuccess).             *)
SavedIsStored ==
  selected # NoCamera /\ ~dirty /\ ~late /\ put = Idle /\ query = Idle /\ config = stored
    => lines = stored[selected]

(* What the code does not do; each is refuted by a demonstration.          *)

(* Also of lines that were changed meanwhile.                              *)
SavedIsStoredLate ==
  selected # NoCamera /\ ~dirty /\ put = Idle /\ query = Idle /\ config = stored
    => lines = stored[selected]

(* Both ends of a line are placed over the picture of one camera.          *)
DrawnOverOne == pending = New => began = selected

(* Lines that were not saved go only when another camera is selected.      *)
EditsKept == [][dirty /\ selected' = selected /\ ~dirty' => stored[selected] = lines]_tab
=============================================================================
