---------------------------- MODULE RuleDrawing -----------------------------
(***************************************************************************)
(* How a rule is drawn over the picture of its camera: a line from p1 to   *)
(* p2 (LineRuleForm and LinePreview of LineCrossingPage), or the polygon   *)
(* of a zone (ZoneRuleForm and ZonePreview of LoiteringPage).  A point is  *)
(* moved by numbers, by Colocar and a click, or by dragging it.            *)
(***************************************************************************)
EXTENDS Integers, Sequences, SequencesExt

CONSTANTS
  Places,     \* of the picture
  Outline,    \* per kind, the points of DEFAULT_LINE, DEFAULT_ZONE
  MaxPoints   \* bound: points of a polygon

Outlines == Outline \in [{"line", "zone"} -> Seq(Places)]

VARIABLES
  kind,       \* "line" or "zone": which page it is
  points,     \* draft.p1 and p2, draft.polygon
  edited,     \* a rule of the list is being edited: its points can be dragged
  placing,    \* placingPoint, from 1, or 0 for null
  dragging,   \* draggingPoint, likewise
  pure        \* history: nothing was being placed when the drag began

drawing == <<kind, points, edited, placing, dragging, pure>>

Init ==
  /\ kind \in {"line", "zone"}
  /\ points = Outline[kind]
  /\ edited = FALSE /\ placing = 0 /\ dragging = 0 /\ pure = FALSE

-----------------------------------------------------------------------------
(* The form.                                                               *)

(* The rule chosen is any that can have been saved.                        *)
Edit(outline) ==
  /\ dragging = 0
  /\ points' = outline /\ edited' = TRUE /\ placing' = 0
  /\ UNCHANGED <<kind, dragging, pure>>

(* Cancelled, or saved: the answer may come in the middle of a drag.       *)
Emptied ==
  /\ points' = Outline[kind] /\ edited' = FALSE /\ placing' = 0
  /\ UNCHANGED <<kind, dragging, pure>>

Drawn(outline, p) ==
  /\ points' = outline /\ placing' = p
  /\ UNCHANGED <<kind, edited, dragging, pure>>

SetPoint(k, x) == dragging = 0 /\ k \in DOMAIN points /\ Drawn([points EXCEPT ![k] = x], placing)

PlaceButton(k) == dragging = 0 /\ k \in DOMAIN points /\ Drawn(points, IF placing = k THEN 0 ELSE k)

(* Invertir puntos.                                                        *)
SwapPoints == kind = "line" /\ dragging = 0 /\ Drawn(Reverse(points), placing)

(* Agregar punto, at the centre; it is placed next.                        *)
AddPoint ==
  /\ kind = "zone" /\ dragging = 0 /\ Len(points) < MaxPoints
  /\ \E centre \in Places : Drawn(Append(points, centre), Len(points) + 1)

(* movePoint: the point being placed is an index, and stays the same.      *)
MovePoint(k) ==
  /\ kind = "zone" /\ dragging = 0 /\ {k, k + 1} \subseteq DOMAIN points
  /\ Drawn([points EXCEPT ![k] = points[k + 1], ![k + 1] = points[k]], placing)

RemovePoint(k) ==
  /\ kind = "zone" /\ dragging = 0 /\ k \in DOMAIN points
  /\ Drawn(RemoveAt(points, k), 0)

-----------------------------------------------------------------------------
(* The picture.                                                            *)

(* Variant: as the page of the lines does it.                              *)
NextToPlaceOfLine(k) == IF k = 1 THEN 2 ELSE 0

(* onPlacePoint: the first point of a line is followed by the second.      *)
NextToPlace(k) == IF kind = "line" /\ k = 1 THEN 2 ELSE 0

(* An index past the end makes the polygon longer.                         *)
At(k, x) == [j \in 1..(IF k > Len(points) THEN k ELSE Len(points)) |->
               IF j = k THEN x ELSE IF j <= Len(points) THEN points[j] ELSE "hole"]

PlacePoint(k, x) == points' = At(k, x) /\ placing' = NextToPlace(k)

Click(x) ==
  /\ dragging = 0 /\ placing # 0
  /\ PlacePoint(placing, x)
  /\ UNCHANGED <<kind, edited, dragging, pure>>

(* Only the points of the rule being edited take the mouse.                *)
DragStart(k) ==
  /\ edited /\ dragging = 0 /\ k \in DOMAIN points
  /\ dragging' = k /\ pure' = (placing = 0)
  /\ UNCHANGED <<kind, points, edited, placing>>

DragMove(x) ==
  /\ dragging # 0
  /\ PlacePoint(dragging, x)
  /\ UNCHANGED <<kind, edited, dragging, pure>>

(* The mouse goes up over the point that followed it, which is a click on  *)
(* the picture too.                                                        *)
DragEnd ==
  /\ dragging # 0
  /\ dragging' = 0
  /\ IF placing = 0 THEN UNCHANGED <<points, placing>>
     ELSE \E x \in Places : dragging \in DOMAIN points /\ x = points[dragging] /\ PlacePoint(placing, x)
  /\ UNCHANGED <<kind, edited, pure>>

DragLeave ==
  /\ dragging # 0
  /\ dragging' = 0
  /\ UNCHANGED <<kind, points, edited, placing, pure>>

Next ==
  \/ Emptied \/ SwapPoints \/ AddPoint \/ DragEnd \/ DragLeave
  \/ \E outline \in {Outline[kind], Reverse(Outline[kind])} : Edit(outline)
  \/ \E k \in 1..MaxPoints : PlaceButton(k) \/ MovePoint(k) \/ RemovePoint(k) \/ DragStart(k)
  \/ \E k \in 1..MaxPoints, x \in Places : SetPoint(k, x)
  \/ \E x \in Places : Click(x) \/ DragMove(x)

Spec == Init /\ [][Next]_drawing

-----------------------------------------------------------------------------
(* A drag moves the point it began at and no other, whatever was placed,   *)
(* added or removed before it, as long as the rule stays the one in the    *)
(* form.                                                                   *)
Single ==
  dragging # 0 /\ pure /\ edited /\ edited' =>
    \A k \in DOMAIN points : k # dragging => k \in DOMAIN points' /\ points'[k] = points[k]

(* The zones keep to it (onPlacePoint of LoiteringPage).                   *)
DragsOne == [][kind = "zone" => Single]_drawing

(* What the code does not do; each is refuted by a demonstration.          *)

(* The lines do not: after the drag of p1 the click places p2.             *)
DragsOneOfLine == [][kind = "line" => Single]_drawing

(* A polygon has no hole: a drag that outlives its rule may make one.      *)
Filled == \A k \in DOMAIN points : points[k] # "hole"
=============================================================================
