--------------------------- MODULE FrontEndProofs ---------------------------
(***************************************************************************)
(* Theorems about the pages of FrontEnd, for any pictures, polygons, days, *)
(* recordings, cameras, rows, filters and sizes of a page.                 *)
(***************************************************************************)
EXTENDS FrontEnd, FiniteSetTheorems, SequenceTheorems, TLAPS, WellFoundedInduction

-----------------------------------------------------------------------------
(* The drawing of a rule.                                                  *)

DrawType ==
  /\ kind \in {"line", "zone"}
  /\ points \in Seq(Places \cup {"hole"})
  /\ placing \in Nat /\ dragging \in Nat

\* No click follows the drag of a corner of a zone: nothing is placed then,
\* and the drag leaves nothing to be placed.
NothingPlaced ==
  kind = "zone" /\ dragging # 0 /\ pure /\ edited => placing = 0

DrawIInv == DrawType /\ NothingPlaced

LEMMA DrawInit == Init => DrawIInv
  BY Parameters DEF Init, Drawing!Init, Drawing!Outlines, DrawIInv, DrawType, NothingPlaced

\* What is placed is put at its index, which may be past the end.
LEMMA AtType ==
  ASSUME DrawType, NEW k \in Nat \ {0}, NEW x \in Places
  PROVE  /\ Drawing!At(k, x) \in Seq(Places \cup {"hole"})
         /\ DOMAIN points \subseteq DOMAIN Drawing!At(k, x)
         /\ \A j \in DOMAIN points : j # k => Drawing!At(k, x)[j] = points[j]
  <1> DEFINE n == IF k > Len(points) THEN k ELSE Len(points)
  <1>1. n \in Nat /\ Len(points) \in Nat /\ Len(points) <= n
        /\ DOMAIN points = 1..Len(points)
    BY DEF DrawType
  <1>2. \A j \in 1..n : Drawing!At(k, x)[j] \in Places \cup {"hole"}
    BY <1>1 DEF Drawing!At, DrawType
  <1>3. Drawing!At(k, x) \in [1..n -> Places \cup {"hole"}]
    BY <1>2 DEF Drawing!At
  <1>4. Drawing!At(k, x) \in Seq(Places \cup {"hole"})
    BY <1>1, <1>3
  <1> QED
    BY <1>1, <1>4 DEF Drawing!At

\* The form, which is out of reach during a drag.
LEMMA FormDraws ==
  ASSUME DrawIInv, Drawing!Next, dragging = 0
  PROVE  DrawIInv'
  <1> USE DEF DrawIInv, DrawType, NothingPlaced
  <1> DEFINE P == Places \cup {"hole"}
  <1>1. CASE Drawing!Emptied
    BY <1>1, Parameters DEF Drawing!Emptied, Drawing!Outlines
  <1>2. CASE Drawing!SwapPoints
    <2>1. Len(points) \in Nat
      OBVIOUS
    <2>2. Drawing!Reverse(points) \in Seq(P)
      BY <2>1 DEF Drawing!Reverse
    <2> QED
      BY <1>2, <2>2 DEF Drawing!SwapPoints, Drawing!Drawn
  <1>3. CASE Drawing!AddPoint
    <2>1. PICK centre \in Places : Drawing!Drawn(Append(points, centre), Len(points) + 1)
      BY <1>3 DEF Drawing!AddPoint
    <2>2. Append(points, centre) \in Seq(P) /\ Len(points) + 1 \in Nat
      BY <2>1
    <2> QED
      BY <1>3, <2>1, <2>2 DEF Drawing!Drawn
  <1>4. CASE Drawing!DragEnd \/ Drawing!DragLeave \/ \E x \in Places : Drawing!DragMove(x)
    BY <1>4 DEF Drawing!DragEnd, Drawing!DragLeave, Drawing!DragMove
  <1>5. ASSUME NEW outline \in {Outline[kind], Drawing!Reverse(Outline[kind])},
               Drawing!Edit(outline)
        PROVE  DrawIInv'
    <2>1. Outline[kind] \in Seq(Places) /\ Len(Outline[kind]) \in Nat
      BY Parameters DEF Drawing!Outlines
    <2>2. Drawing!Reverse(Outline[kind]) \in Seq(Places)
      BY <2>1 DEF Drawing!Reverse
    <2>3. outline \in Seq(P)
      BY <2>1, <2>2
    <2> QED
      BY <1>5, <2>3 DEF Drawing!Edit
  <1>6. ASSUME NEW k \in 1..MaxPoints,
               \/ Drawing!PlaceButton(k) \/ Drawing!MovePoint(k) \/ Drawing!RemovePoint(k)
               \/ \E x \in Places : Drawing!SetPoint(k, x)
        PROVE  DrawIInv'
    <2>1. PICK outline, p : Drawing!Drawn(outline, p) /\ outline \in Seq(P) /\ p \in Nat
      <3>1. CASE Drawing!PlaceButton(k)
        BY <1>6, <3>1 DEF Drawing!PlaceButton
      <3>2. CASE Drawing!MovePoint(k)
        <4>1. [points EXCEPT ![k] = points[k + 1], ![k + 1] = points[k]] \in Seq(P)
          BY <3>2 DEF Drawing!MovePoint
        <4> QED
          BY <3>2, <4>1 DEF Drawing!MovePoint
      <3>3. CASE Drawing!RemovePoint(k)
        <4>1. /\ k \in DOMAIN points /\ DOMAIN points = 1..Len(points) /\ Len(points) \in Nat
              /\ \A i \in 1..Len(points) : points[i] \in P
          BY <3>3 DEF Drawing!RemovePoint
        <4>2. Len(points) - 1 \in Nat
          BY <4>1
        <4>3. Drawing!RemoveAt(points, k) \in Seq(P)
          BY <4>1, <4>2 DEF Drawing!RemoveAt
        <4> QED
          BY <3>3, <4>3 DEF Drawing!RemovePoint
      <3>4. ASSUME NEW x \in Places, Drawing!SetPoint(k, x)
            PROVE  \E outline, p : Drawing!Drawn(outline, p) /\ outline \in Seq(P) /\ p \in Nat
        <4>1. [points EXCEPT ![k] = x] \in Seq(P)
          BY <3>4 DEF Drawing!SetPoint
        <4> QED
          BY <3>4, <4>1 DEF Drawing!SetPoint
      <3> QED
        BY <1>6, <3>1, <3>2, <3>3, <3>4
    <2> QED
      BY <2>1 DEF Drawing!Drawn
  <1>7. ASSUME NEW k \in 1..MaxPoints, Drawing!DragStart(k)
        PROVE  DrawIInv'
    <2>1. pure' => placing = 0
      BY <1>7, Zenon DEF Drawing!DragStart
    <2> QED
      BY <1>7, <2>1 DEF Drawing!DragStart
  <1>8. ASSUME NEW x \in Places, Drawing!Click(x)
        PROVE  DrawIInv'
    <2>1. points' \in Seq(P)
      BY <1>8, AtType DEF Drawing!Click, Drawing!PlacePoint
    <2> QED
      BY <1>8, <2>1 DEF Drawing!Click, Drawing!PlacePoint, Drawing!NextToPlace
  <1> QED
    BY <1>1, <1>2, <1>3, <1>4, <1>5, <1>6, <1>7, <1>8 DEF Drawing!Next

\* A drag.
LEMMA DragDraws ==
  ASSUME DrawIInv, Drawing!Next, dragging # 0
  PROVE  DrawIInv' /\ (kind = "zone" => Drawing!Single)
  <1> USE DEF DrawIInv, DrawType, NothingPlaced, Drawing!Single
  <1>1. CASE Drawing!Emptied
    BY <1>1, Parameters DEF Drawing!Emptied, Drawing!Outlines
  <1>2. ASSUME NEW x \in Places, Drawing!DragMove(x)
        PROVE  DrawIInv' /\ (kind = "zone" => Drawing!Single)
    BY <1>2, AtType DEF Drawing!DragMove, Drawing!PlacePoint, Drawing!NextToPlace
  <1>3. CASE Drawing!DragEnd
    <2>1. CASE placing = 0
      BY <1>3, <2>1 DEF Drawing!DragEnd
    <2>2. CASE placing # 0
      <3>1. PICK x \in Places : Drawing!PlacePoint(placing, x)
        BY <1>3, <2>2 DEF Drawing!DragEnd
      <3> QED
        BY <1>3, <2>2, <3>1, AtType DEF Drawing!DragEnd, Drawing!PlacePoint, Drawing!NextToPlace
    <2> QED
      BY <2>1, <2>2
  <1>4. CASE Drawing!DragLeave
    BY <1>4 DEF Drawing!DragLeave
  <1> QED
    BY <1>1, <1>2, <1>3, <1>4
       DEF Drawing!Next, Drawing!SwapPoints, Drawing!AddPoint, Drawing!Edit, Drawing!PlaceButton,
           Drawing!MovePoint, Drawing!RemovePoint, Drawing!DragStart, Drawing!SetPoint,
           Drawing!Click

LEMMA DrawNext == DrawIInv /\ [Next]_vars => DrawIInv' /\ [kind = "zone" => Drawing!Single]_drawing
  <1> SUFFICES ASSUME DrawIInv, [Next]_vars
               PROVE  DrawIInv' /\ [kind = "zone" => Drawing!Single]_drawing
    OBVIOUS
  <1>1. CASE UNCHANGED drawing
    BY <1>1 DEF drawing, DrawIInv, DrawType, NothingPlaced
  <1>2. CASE Drawing!Next
    <2>1. dragging = 0 => Drawing!Single
      BY DEF Drawing!Single
    <2> QED
      BY <1>2, <2>1, FormDraws, DragDraws
  <1> QED
    BY <1>1, <1>2 DEF Next, vars

(* While a corner of a zone is dragged, whatever was placed, added or      *)
(* removed before, no other corner moves, as long as the rule stays the    *)
(* one in the form (onPlacePoint, ZonePreview of LoiteringPage.tsx).       *)
THEOREM DragMovesOne == Spec => DragsOne
  <1>1. DrawIInv /\ [Next]_vars => [kind = "zone" => Drawing!Single]_Drawing!drawing
    BY DrawNext DEF drawing, Drawing!drawing
  <1> QED
    BY <1>1, DrawInit, DrawNext, PTL DEF Spec, DragsOne, Drawing!DragsOne

-----------------------------------------------------------------------------
(* Playback.                                                               *)

Segs == {s \in [start : Nat, end : Nat] : s.start < s.end /\ s.end <= Day}

Videos == [seg : Segs \cup {Playback!Empty}, at : Nat, leads : BOOLEAN]

\* The player of a camera that shows a segment has not gone past its end.
Inside(v) == v.at <= v.seg.end - v.seg.start

PlayIInv ==
  /\ clock \in Nat /\ clock <= Day
  /\ playing \in BOOLEAN
  /\ video \in [Cameras -> Videos]
  /\ \A c \in Cameras : Inside(video[c])

\* Every set of natural numbers that is not empty has a least element.
LEMMA LeastNat ==
  ASSUME NEW T, T \subseteq Nat, T # {}
  PROVE  Playback!Min(T) \in T /\ \A y \in T : Playback!Min(T) <= y
  <1>1. PICK x \in T : \A y \in T : ~(<<y, x>> \in OpToRel(<, Nat))
    BY NatLessThanWellFounded, WFMin
  <1>2. \A y \in T : x <= y
    <2> SUFFICES ASSUME NEW y \in T, ~(x <= y) PROVE FALSE
      OBVIOUS
    <2>1. y < x /\ <<y, x>> \in Nat \X Nat
      OBVIOUS
    <2> QED
      BY <1>1, <2>1 DEF OpToRel
  <1> QED
    BY <1>2 DEF Playback!Min

LEMMA ElementOf ==
  ASSUME NEW R, NEW s \in Seq(R), NEW i \in DOMAIN s
  PROVE  s[i] \in R
  OBVIOUS

LEMMA SegmentsOfDay ==
  ASSUME NEW C, NEW L
  PROVE  /\ Playback!AllSegments(C, L) \subseteq Segs
         /\ \A c \in Cameras :
              Playback!Range(Playback!Segments(C, L, c)) \subseteq Playback!AllSegments(C, L)
         /\ Playback!Unhurried =>
              \A s \in Playback!AllSegments(C, L) : s.end - s.start >= 2 /\ s.end - s.start >= Stride
  <1>1. ASSUME NEW c \in Cameras, NEW s \in Playback!Range(Playback!Segments(C, L, c))
        PROVE  \E i \in DOMAIN Recorded[c] : s = Recorded[c][i]
    BY <1>1 DEF Playback!Range, Playback!Segments
  <1>2. ASSUME NEW c \in Cameras, NEW i \in DOMAIN Recorded[c]
        PROVE  Recorded[c][i] \in Segs
    <2>1. Recorded[c] \in Seq([start : Nat, end : Nat])
      BY Parameters DEF Playback!Recordings
    <2>2. Recorded[c][i] \in [start : Nat, end : Nat]
      BY <1>2, <2>1, ElementOf
    <2>3. Recorded[c][i].start < Recorded[c][i].end /\ Recorded[c][i].end <= Day
      BY <1>2, Parameters, Zenon DEF Playback!Recordings
    <2> QED
      BY <2>2, <2>3 DEF Segs
  <1>3. ASSUME NEW s \in Playback!AllSegments(C, L)
        PROVE  \E c \in Cameras : s \in Playback!Range(Playback!Segments(C, L, c))
    BY <1>3 DEF Playback!AllSegments
  <1>4. Playback!AllSegments(C, L) \subseteq Segs
    BY <1>1, <1>2, <1>3
  <1>5. \A c \in Cameras :
          Playback!Range(Playback!Segments(C, L, c)) \subseteq Playback!AllSegments(C, L)
    BY DEF Playback!AllSegments
  <1>6. ASSUME Playback!Unhurried, NEW s \in Playback!AllSegments(C, L)
        PROVE  s.end - s.start >= 2 /\ s.end - s.start >= Stride
    <2>1. PICK c \in Cameras : s \in Playback!Range(Playback!Segments(C, L, c))
      BY <1>3
    <2>2. PICK i \in DOMAIN Recorded[c] : s = Recorded[c][i]
      BY <1>1, <2>1
    <2> QED
      BY <1>6, <2>2 DEF Playback!Unhurried
  <1> QED
    BY <1>4, <1>5, <1>6

\* findContinuousTime goes on, and passes over nothing that it has not come to.
LEMMA JumpsToNext ==
  ASSUME NEW S \in SUBSET Segs, NEW t \in Nat, t <= Day
  PROVE  /\ Playback!Continuous(S, t) \in Nat /\ Playback!Continuous(S, t) <= Day
         /\ t <= Playback!Continuous(S, t)
         /\ \A s \in S : s.end <= Playback!Continuous(S, t) => s.end <= t
  <1> DEFINE later == {s.start : s \in {s \in S : s.start > t}}
             m == Playback!FirstAfter(S, t)
  <1>1. Day \in Nat
    BY Parameters DEF Playback!Recordings
  <1>2. \A s \in S : s.start \in Nat /\ s.end \in Nat /\ s.start < s.end /\ s.end <= Day
    BY DEF Segs
  <1>3. CASE \E s \in S : Playback!Covers(s, t)
    BY <1>3 DEF Playback!Continuous
  <1>4. CASE ~(\E s \in S : Playback!Covers(s, t)) /\ \E s \in S : s.start > t
    <2>1. later \subseteq Nat /\ later # {}
      BY <1>2, <1>4
    <2>2. m = Playback!Min(later)
      BY DEF Playback!FirstAfter
    <2>3. m \in later /\ \A y \in later : m <= y
      BY <2>1, <2>2, LeastNat
    <2>4. PICK r \in S : m = r.start /\ r.start > t
      BY <2>3
    <2>5. \A s \in S : s.start > t => m <= s.start
      BY <2>3
    <2>6. ASSUME NEW s \in S, s.end <= m
          PROVE  s.end <= t
      <3>1. ~(s.start > t)
        BY <1>2, <2>4, <2>5, <2>6
      <3>2. ~(s.start <= t /\ t < s.end)
        BY <1>4 DEF Playback!Covers
      <3> QED
        BY <1>2, <3>1, <3>2
    <2>7. Playback!Continuous(S, t) = m
      BY <1>4 DEF Playback!Continuous
    <2> QED
      BY <1>1, <1>2, <2>4, <2>6, <2>7
  <1>5. CASE ~(\E s \in S : Playback!Covers(s, t)) /\ ~\E s \in S : s.start > t
    <2>1. Playback!Continuous(S, t) = Day
      BY <1>5 DEF Playback!Continuous
    <2>2. \A s \in S : ~(s.start <= t /\ t < s.end) /\ ~(s.start > t)
      BY <1>5 DEF Playback!Covers
    <2> QED
      BY <1>1, <1>2, <2>1, <2>2
  <1> QED
    BY <1>3, <1>4, <1>5

\* A player that follows the clock is inside the segment that it shows.
LEMMA FollowsInside ==
  ASSUME NEW v \in Videos, Inside(v), NEW s \in Segs, NEW t \in Nat, Playback!Covers(s, t)
  PROVE  Playback!Followed(v, s, t) \in Videos /\ Inside(Playback!Followed(v, s, t))
  <1>1. s.start \in Nat /\ s.end \in Nat /\ s.start <= t /\ t < s.end
    BY DEF Segs, Playback!Covers
  <1>2. PICK w : w = IF v.seg = s THEN v ELSE [v EXCEPT !.seg = s, !.at = 0]
    OBVIOUS
  <1>3. w \in Videos /\ Inside(w) /\ w.seg = s
    <2>1. CASE v.seg = s
      BY <1>2, <2>1
    <2>2. CASE v.seg # s
      <3>1. w = [v EXCEPT !.seg = s, !.at = 0]
        BY <1>2, <2>2
      <3>2. w = [seg |-> s, at |-> 0, leads |-> v.leads]
        BY <3>1 DEF Videos
      <3>3. w \in Videos /\ w.at = 0 /\ w.seg = s
        BY <3>2 DEF Videos
      <3> QED
        BY <1>1, <3>3 DEF Inside
    <2> QED
      BY <2>1, <2>2
  <1>4. t - s.start \in Nat /\ t - s.start <= s.end - s.start
    BY <1>1
  <1>5. [w EXCEPT !.at = t - s.start] \in Videos /\ Inside([w EXCEPT !.at = t - s.start])
    BY <1>3, <1>4 DEF Videos, Inside
  <1>6. Playback!Followed(v, s, t) \in {w, [w EXCEPT !.at = t - s.start]}
    BY <1>2 DEF Playback!Followed
  <1> QED
    BY <1>3, <1>5, <1>6

LEMMA GoesOnInside ==
  ASSUME NEW v \in Videos, NEW n \in Nat, n <= v.seg.end - v.seg.start
  PROVE  LET w == [v EXCEPT !.at = n, !.leads = TRUE] IN w \in Videos /\ Inside(w)
  <1>1. PICK w : w = [v EXCEPT !.at = n, !.leads = TRUE]
    OBVIOUS
  <1>2. w = [seg |-> v.seg, at |-> n, leads |-> TRUE]
    BY <1>1 DEF Videos
  <1>3. w \in Videos /\ w.at = n /\ w.seg = v.seg
    BY <1>2 DEF Videos
  <1> QED
    BY <1>1, <1>3 DEF Inside

LEMMA EndsInside ==
  ASSUME NEW v \in Videos, Inside(v)
  PROVE  LET w == [v EXCEPT !.leads = FALSE] IN w \in Videos /\ Inside(w)
  <1>1. PICK w : w = [v EXCEPT !.leads = FALSE]
    OBVIOUS
  <1>2. w = [seg |-> v.seg, at |-> v.at, leads |-> FALSE]
    BY <1>1 DEF Videos
  <1>3. w \in Videos /\ w.at = v.at /\ w.seg = v.seg
    BY <1>2 DEF Videos
  <1> QED
    BY <1>1, <1>3 DEF Inside

\* What a camera's player shows once the clock says t.
LEMMA ShowsInside ==
  ASSUME NEW C, NEW L, NEW t \in Nat, NEW V \in [Cameras -> Videos],
         \A c \in Cameras : Inside(V[c])
  PROVE  LET Active(u) == {s \in Playback!Range(Playback!Segments(C, L, u)) : Playback!Covers(s, t)}
             W == [u \in Cameras |->
                    IF Active(u) = {} THEN Playback!NoVideo
                    ELSE Playback!Followed(V[u], CHOOSE s \in Active(u) : TRUE, t)]
         IN  W \in [Cameras -> Videos] /\ \A u \in Cameras : Inside(W[u])
  <1> DEFINE Active(u) == {s \in Playback!Range(Playback!Segments(C, L, u)) : Playback!Covers(s, t)}
             X(u) == IF Active(u) = {} THEN Playback!NoVideo
                     ELSE Playback!Followed(V[u], CHOOSE s \in Active(u) : TRUE, t)
  <1>1. ASSUME NEW u \in Cameras
        PROVE  X(u) \in Videos /\ Inside(X(u))
    <2>1. Playback!NoVideo \in Videos /\ Inside(Playback!NoVideo)
      BY DEF Playback!NoVideo, Playback!Empty, Videos, Inside
    <2>2. CASE Active(u) # {}
      <3>1. PICK s \in Active(u) : s = CHOOSE r \in Active(u) : TRUE
        BY <2>2
      <3>2. s \in Segs /\ Playback!Covers(s, t)
        BY <3>1, SegmentsOfDay
      <3>3. X(u) = Playback!Followed(V[u], s, t)
        BY <2>2, <3>1
      <3> HIDE DEF X
      <3> QED
        BY <3>2, <3>3, FollowsInside
    <2> QED
      BY <2>1, <2>2
  <1> HIDE DEF X
  <1>2. [u \in Cameras |-> X(u)] \in [Cameras -> Videos]
        /\ \A u \in Cameras : Inside([w \in Cameras |-> X(w)][u])
    BY <1>1
  <1> QED
    BY <1>2 DEF X

\* After the effects, the clock has passed over nothing beyond t.
LEMMA RenderPlays ==
  ASSUME PlayIInv, NEW C, NEW L, NEW p \in BOOLEAN, NEW t \in Nat, t <= Day,
         Playback!Render(C, L, p, t)
  PROVE  /\ PlayIInv'
         /\ chosen' = C /\ loading' = L /\ playing' = p
         /\ t <= clock'
         /\ \A s \in Playback!AllSegments(C, L) : s.end <= clock' => s.end <= t
  <1> DEFINE S == Playback!AllSegments(C, L)
             now == IF p /\ S # {} THEN Playback!Continuous(S, t) ELSE t
  <1>1. S \subseteq Segs
    BY SegmentsOfDay
  <1>2. /\ now \in Nat /\ now <= Day /\ t <= now
        /\ \A s \in S : s.end <= now => s.end <= t
    BY <1>1, JumpsToNext
  <1>3. chosen' = C /\ loading' = L /\ playing' = p /\ clock' = now
    BY DEF Playback!Render
  <1>4. video' \in [Cameras -> Videos] /\ \A u \in Cameras : Inside(video'[u])
    <2> HIDE DEF now
    <2>1. PICK k \in Nat : k = now
      BY <1>2
    <2>2. video' = [c \in Cameras |->
            IF {s \in Playback!Range(Playback!Segments(C, L, c)) : Playback!Covers(s, k)} = {}
            THEN Playback!NoVideo
            ELSE Playback!Followed(video[c],
                   CHOOSE s \in {s \in Playback!Range(Playback!Segments(C, L, c)) :
                                   Playback!Covers(s, k)} : TRUE, k)]
      BY <2>1 DEF Playback!Render, now
    <2> QED
      BY <2>2, ShowsInside DEF PlayIInv
  <1> QED
    BY <1>2, <1>3, <1>4 DEF PlayIInv

\* A video that goes on.
LEMMA TimeUpdatePlays ==
  ASSUME PlayIInv, NEW c \in Cameras, Playback!TimeUpdate(c)
  PROVE  /\ PlayIInv'
         /\ UNCHANGED <<chosen, loading, playing>>
         /\ clock' >= clock - 1
         /\ ~Playback!Ahead(c) =>
              \A s \in Playback!AllSegments(chosen, loading) : s.end <= clock' => s.end <= clock + 2
  <1> DEFINE s  == video[c].seg
             at == IF video[c].at < s.end - s.start THEN video[c].at + 1 ELSE video[c].at
             t  == s.start + at
             S  == Playback!AllSegments(chosen, loading)
             to == IF t >= s.end THEN Playback!Continuous(S, s.end) ELSE t
             V  == [video EXCEPT ![c].at = at, ![c].leads = TRUE]
  <1>1. s \in Segs
    BY DEF PlayIInv, Videos, Playback!TimeUpdate
  <1>2. /\ s.start \in Nat /\ s.end \in Nat /\ s.end <= Day /\ Day \in Nat
        /\ video[c] \in Videos /\ video[c].at \in Nat /\ video[c].at <= s.end - s.start
    BY <1>1, Parameters DEF PlayIInv, Inside, Segs, Videos, Playback!Recordings
  <1>3. at \in Nat /\ at <= s.end - s.start /\ at <= video[c].at + 1
    BY <1>2
  <1>4. t \in Nat /\ t <= s.end /\ t <= s.start + video[c].at + 1
    BY <1>2, <1>3
  <1>5. /\ to \in Nat /\ to <= Day /\ t <= to
        /\ \A r \in S : r.end <= to => r.end <= t
    <2>1. S \subseteq Segs
      BY SegmentsOfDay
    <2>2. CASE t >= s.end
      <3>1. t = s.end
        BY <1>2, <1>4, <2>2
      <3>2. to = Playback!Continuous(S, s.end)
        BY <2>2
      <3> QED
        BY <1>2, <2>1, <3>1, <3>2, JumpsToNext
    <2>3. CASE ~(t >= s.end)
      BY <1>2, <1>4, <2>3
    <2> QED
      BY <2>2, <2>3
  <1>6. V \in [Cameras -> Videos] /\ \A u \in Cameras : Inside(V[u])
    <2>1. PICK v \in Videos : v = [video[c] EXCEPT !.at = at, !.leads = TRUE] /\ Inside(v)
      BY <1>2, <1>3, GoesOnInside
    <2>2. V = [video EXCEPT ![c] = v]
      BY <2>1 DEF PlayIInv, Videos
    <2> QED
      BY <2>1, <2>2 DEF PlayIInv
  <1>7. UNCHANGED <<chosen, loading, playing>>
    BY DEF Playback!TimeUpdate
  <1>8. CASE t < clock - 1
    <2>1. clock' = clock /\ video' = V
      BY <1>8 DEF Playback!TimeUpdate
    <2>2. \A r \in S : r.end \in Nat
      BY SegmentsOfDay DEF Segs
    <2>3. PlayIInv'
      <3> HIDE DEF V
      <3> QED
        BY <1>6, <1>7, <2>1 DEF PlayIInv
    <2> HIDE DEF t, V
    <2> QED
      BY <1>7, <2>1, <2>2, <2>3 DEF PlayIInv
  <1>9. CASE ~(t < clock - 1)
    <2>1. clock' = to /\ video' = [u \in Cameras |->
            IF {r \in Playback!Range(Playback!Segments(chosen, loading, u)) :
                  Playback!Covers(r, to)} = {}
            THEN Playback!NoVideo
            ELSE Playback!Followed(V[u],
                   CHOOSE r \in {r \in Playback!Range(Playback!Segments(chosen, loading, u)) :
                                   Playback!Covers(r, to)} : TRUE, to)]
      BY <1>9 DEF Playback!TimeUpdate
    <2>2. video' \in [Cameras -> Videos] /\ \A u \in Cameras : Inside(video'[u])
      <3> HIDE DEF to, V
      <3> QED
        BY <1>5, <1>6, <2>1, ShowsInside
    <2>3. PlayIInv'
      BY <1>5, <1>7, <2>1, <2>2 DEF PlayIInv
    <2>4. ASSUME ~Playback!Ahead(c)
          PROVE  t <= clock + 2
      <3>1. ~(s.start + video[c].at > clock + 1)
        BY <2>4 DEF Playback!Ahead, Playback!TimeUpdate
      <3> QED
        BY <1>2, <1>4, <3>1 DEF PlayIInv
    <2>5. \A r \in S : r.end \in Nat
      BY SegmentsOfDay DEF Segs
    <2> HIDE DEF to, t, S
    <2> QED
      BY <1>4, <1>5, <1>7, <1>9, <2>1, <2>3, <2>4, <2>5 DEF PlayIInv, S
  <1> QED
    BY <1>8, <1>9

LEMMA PlayInit == Init => PlayIInv
  <1> SUFFICES ASSUME Init PROVE PlayIInv
    OBVIOUS
  <1>1. /\ clock = 0 /\ playing = FALSE
        /\ video = [c \in Cameras |-> Playback!NoVideo]
    BY DEF Init, Playback!Init
  <1>2. Playback!NoVideo \in Videos /\ Inside(Playback!NoVideo)
    BY DEF Playback!NoVideo, Playback!Empty, Videos, Inside
  <1>3. 0 <= Day /\ playing \in BOOLEAN
    <2>1. Day \in Nat
      BY Parameters DEF Playback!Recordings
    <2>2. playing \in BOOLEAN
      BY <1>1, Zenon
    <2> QED
      BY <2>1, <2>2
  <1>4. video \in [Cameras -> Videos] /\ \A c \in Cameras : Inside(video[c])
    <2>1. \A c \in Cameras : video[c] = Playback!NoVideo
      BY <1>1
    <2>2. \A c \in Cameras : Inside(video[c])
      BY <1>2, <2>1, Zenon
    <2> QED
      BY <1>1, <1>2, <2>2
  <1> QED
    BY <1>1, <1>3, <1>4 DEF PlayIInv

\* What PassesAll says of a step.
PassesOn ==
  /\ playing /\ playing' /\ chosen' = chosen /\ loading' = loading
  /\ \A c \in Cameras : ~Playback!Ahead(c)
  /\ \A t \in Playback!Sought : ~Playback!Seek(t)
  => /\ clock' >= clock - 1
     /\ \A s \in Playback!AllSegments(chosen, loading) : ~(clock < s.start /\ s.end <= clock')

\* The operator's actions, each of which is the end of such a stretch.
LEMMA UserPlays ==
  ASSUME PlayIInv, Playback!User
  PROVE  PlayIInv' /\ PassesOn
  <1>1. clock \in Nat /\ clock <= Day /\ Day \in Nat \ {0} /\ playing \in BOOLEAN
    BY Parameters DEF PlayIInv, Playback!Recordings
  <1>2. CASE Playback!OpenPage
    <2>1. \A s \in Playback!AllSegments(chosen, loading) : s.start < s.end /\ s.start \in Nat /\ s.end \in Nat
      BY SegmentsOfDay DEF Segs
    <2> QED
      BY <1>1, <1>2, <2>1 DEF Playback!OpenPage, PlayIInv, PassesOn
  <1>3. CASE Playback!Refocus
    BY <1>1, <1>3, RenderPlays DEF Playback!Refocus, PassesOn
  <1>4. CASE Playback!PlayPause
    <2>1. PICK p \in BOOLEAN : p = (~playing)
      BY Zenon
    <2>2. Playback!Render(chosen, loading, p, clock)
      BY <1>4, <2>1, Zenon DEF Playback!PlayPause
    <2>3. PlayIInv' /\ playing' = p
      BY <1>1, <2>2, RenderPlays
    <2>4. ~(playing /\ playing')
      BY <2>1, <2>3, Zenon
    <2> QED
      BY <2>3, <2>4 DEF PassesOn
  <1>5. CASE Playback!DateChange
    <2>1. PICK p \in BOOLEAN : ~p /\ Playback!Render(chosen, chosen, p, 0)
      BY <1>5, Zenon DEF Playback!DateChange
    <2>2. PlayIInv' /\ playing' = p
      <3>1. 0 \in Nat /\ 0 <= Day
        BY <1>1
      <3> QED
        BY <2>1, <3>1, RenderPlays
    <2>3. ~(playing /\ playing')
      BY <2>1, <2>2, Zenon
    <2> QED
      BY <2>2, <2>3 DEF PassesOn
  <1>6. ASSUME NEW c \in Cameras, Playback!Toggle(c)
        PROVE  PlayIInv' /\ PassesOn
    <2>1. CASE c \in chosen
      <3>1. PlayIInv' /\ chosen' = chosen \ {c}
        BY <1>1, <1>6, <2>1, RenderPlays DEF Playback!Toggle
      <3> QED
        BY <2>1, <3>1 DEF PassesOn
    <2>2. CASE c \notin chosen
      <3>1. PlayIInv' /\ chosen' = chosen \cup {c}
        BY <1>1, <1>6, <2>2, RenderPlays DEF Playback!Toggle
      <3> QED
        BY <2>2, <3>1 DEF PassesOn
    <2> QED
      BY <2>1, <2>2
  <1>7. ASSUME NEW c \in Cameras, Playback!Loaded(c)
        PROVE  PlayIInv' /\ PassesOn
    <2>1. PlayIInv' /\ loading' = loading \ {c}
      BY <1>1, <1>7, RenderPlays DEF Playback!Loaded
    <2> QED
      BY <1>7, <2>1 DEF Playback!Loaded, PassesOn
  <1>8. ASSUME NEW t \in Playback!Sought, Playback!Seek(t)
        PROVE  PlayIInv' /\ PassesOn
    <2>1. Playback!Clip(t) \in Nat /\ Playback!Clip(t) <= Day
      BY <1>1 DEF Playback!Sought, Playback!Clip
    <2> QED
      BY <1>8, <2>1, RenderPlays DEF Playback!Seek, PassesOn
  <1> QED
    BY <1>2, <1>3, <1>4, <1>5, <1>6, <1>7, <1>8 DEF Playback!User

LEMMA PlayNext ==
  ASSUME PlayIInv, [Next]_vars
  PROVE  PlayIInv' /\ (Playback!Unhurried => [PassesOn]_playback)
  <1> DEFINE S == Playback!AllSegments(chosen, loading)
  <1>1. /\ clock \in Nat /\ clock <= Day /\ Day \in Nat /\ Stride \in Nat
    BY Parameters DEF PlayIInv, Playback!Recordings
  <1>2. \A s \in S : s.start \in Nat /\ s.end \in Nat
    BY SegmentsOfDay DEF Segs
  <1>3. Playback!Unhurried => \A s \in S : s.end - s.start >= 2 /\ s.end - s.start >= Stride
    BY SegmentsOfDay
  <1>4. CASE UNCHANGED playback
    BY <1>4 DEF playback, PlayIInv
  <1>5. ASSUME NEW d \in 1..Stride, Playback!Timer(d)
        PROVE  PlayIInv' /\ (Playback!Unhurried => PassesOn)
    <2>1. PICK t \in Nat : t = Playback!Clip(clock + d) /\ t <= Day /\ t <= clock + d /\ t >= clock
      BY <1>1 DEF Playback!Clip
    <2>2. PlayIInv' /\ t <= clock' /\ \A s \in S : s.end <= clock' => s.end <= t
      <3>1. Playback!Render(chosen, loading, playing, t) /\ playing \in BOOLEAN
        BY <1>5, <2>1 DEF Playback!Timer, PlayIInv
      <3> QED
        BY <2>1, <3>1, RenderPlays
    <2>3. clock' \in Nat
      BY <2>2 DEF PlayIInv
    <2>4. clock' >= clock - 1
      BY <1>1, <2>1, <2>2, <2>3
    <2>5. ASSUME Playback!Unhurried, NEW s \in S, clock < s.start, s.end <= clock'
          PROVE  FALSE
      <3> HIDE DEF S
      <3>1. s.end <= clock + d /\ s.end - s.start >= Stride
        BY <1>1, <1>2, <1>3, <2>1, <2>2, <2>5
      <3> QED
        BY <1>1, <1>2, <2>5, <3>1
    <2> QED
      BY <2>2, <2>4, <2>5 DEF PassesOn
  <1>6. ASSUME NEW c \in Cameras, Playback!TimeUpdate(c)
        PROVE  PlayIInv' /\ (Playback!Unhurried => PassesOn)
    <2>1. /\ PlayIInv' /\ clock' >= clock - 1
          /\ ~Playback!Ahead(c) => \A s \in S : s.end <= clock' => s.end <= clock + 2
      BY <1>6, TimeUpdatePlays
    <2>2. ASSUME Playback!Unhurried, ~Playback!Ahead(c), NEW s \in S, clock < s.start,
                 s.end <= clock'
          PROVE  FALSE
      <3> HIDE DEF S
      <3>1. s.end <= clock + 2 /\ s.end - s.start >= 2
        BY <1>3, <2>1, <2>2
      <3> QED
        BY <1>1, <1>2, <2>2, <3>1
    <2> QED
      BY <2>1, <2>2 DEF PassesOn
  <1>7. ASSUME NEW c \in Cameras, Playback!LeadEnds(c)
        PROVE  PlayIInv' /\ PassesOn
    <2>1. clock' = clock /\ playing' = playing
          /\ video' = [video EXCEPT ![c] = [@ EXCEPT !.leads = FALSE]]
      BY <1>7 DEF Playback!LeadEnds, PlayIInv
    <2>2. PICK v \in Videos : v = [video[c] EXCEPT !.leads = FALSE] /\ Inside(v)
      <3>1. video[c] \in Videos /\ Inside(video[c])
        BY DEF PlayIInv
      <3> QED
        BY <3>1, EndsInside
    <2>3. video' = [video EXCEPT ![c] = v]
      BY <2>1, <2>2
    <2>4. PlayIInv'
      BY <2>1, <2>2, <2>3 DEF PlayIInv
    <2>5. \A s \in S : ~(clock < s.start /\ s.end <= clock)
      <3>1. \A s \in S : s.start < s.end
        BY SegmentsOfDay DEF Segs
      <3> QED
        BY <1>1, <1>2, <3>1
    <2> QED
      BY <1>1, <2>1, <2>4, <2>5 DEF PassesOn
  <1>8. Playback!Next => PlayIInv' /\ (Playback!Unhurried => PassesOn)
    BY <1>5, <1>6, <1>7, UserPlays DEF Playback!Next
  <1> QED
    BY <1>4, <1>8 DEF Next, vars

(* However the timer and the videos of any number of cameras follow each   *)
(* other, the clock of the playback does not go back and skips nothing     *)
(* that a chosen camera has recorded, as long as the timer is called in    *)
(* time for the segments (handleTimeUpdate, findContinuousTime of          *)
(* PlaybackView.tsx).                                                      *)
THEOREM NothingIsPassed == Playback!Unhurried => (Spec => PassesAll)
  <1> SUFFICES ASSUME Playback!Unhurried PROVE Spec => PassesAll
    OBVIOUS
  <1>1. PlayIInv /\ [Next]_vars => PlayIInv' /\ [PassesOn]_Playback!vars
    BY PlayNext DEF playback, Playback!vars
  <1> QED
    BY <1>1, PlayInit, PTL DEF Spec, PassesAll, Playback!PassesAll, PassesOn

-----------------------------------------------------------------------------
(* The rows of a page.                                                     *)

Rank(S, r) == Cardinality({x \in S : x > r})

LEMMA RankIs ==
  ASSUME NEW S \in SUBSET Int, IsFiniteSet(S)
  PROVE  /\ Cardinality(S) \in Nat
         /\ \A r \in S : Rank(S, r) \in Nat /\ Rank(S, r) < Cardinality(S)
         /\ \A r, s \in S : r > s => Rank(S, r) < Rank(S, s)
  <1>1. ASSUME NEW T \in SUBSET S, NEW U \in SUBSET T, NEW r \in T, r \notin U
        PROVE  /\ Cardinality(U) \in Nat /\ Cardinality(T) \in Nat
               /\ Cardinality(U) < Cardinality(T)
    <2>1. IsFiniteSet(T) /\ IsFiniteSet(U)
      BY FS_Subset
    <2>2. Cardinality(U) \in Nat /\ Cardinality(T) \in Nat
      BY <2>1, FS_CardinalityType
    <2>3. Cardinality(U) <= Cardinality(T) /\ (Cardinality(T) = Cardinality(U) => T = U)
      BY <2>1, FS_Subset
    <2> QED
      BY <1>1, <2>2, <2>3
  <1>2. ASSUME NEW r \in S
        PROVE  Rank(S, r) \in Nat /\ Rank(S, r) < Cardinality(S)
    BY <1>1 DEF Rank
  <1>3. ASSUME NEW r \in S, NEW s \in S, r > s
        PROVE  Rank(S, r) < Rank(S, s)
    <2>1. /\ {x \in S : x > s} \in SUBSET S
          /\ {x \in S : x > r} \in SUBSET {x \in S : x > s}
          /\ r \in {x \in S : x > s} /\ r \notin {x \in S : x > r}
      <3>1. \A x, y, z \in Int : (x > y /\ y > z => x > z) /\ ~(x > x)
        OBVIOUS
      <3> QED
        BY <1>3, <3>1, Zenon
    <2> QED
      BY <1>1, <2>1 DEF Rank
  <1> QED
    BY <1>2, <1>3, FS_CardinalityType

Nth(S, n) == CHOOSE r \in S : Rank(S, r) = n - 1

LEMMA NthIs ==
  ASSUME NEW S \in SUBSET Int, IsFiniteSet(S), NEW n \in 1..Cardinality(S)
  PROVE  Nth(S, n) \in S /\ Rank(S, Nth(S, n)) = n - 1
  <1>1. PICK c \in Nat : c = Cardinality(S)
    BY FS_CardinalityType
  <1>2. PICK f : f = [r \in S |-> Rank(S, r)]
    OBVIOUS
  <1>3. f \in Injection(S, 0..(c - 1))
    <2>1. f \in [S -> 0..(c - 1)]
      BY <1>1, <1>2, RankIs
    <2>2. ASSUME NEW r \in S, NEW s \in S, f[r] = f[s]
          PROVE  r = s
      <3>1. ~(r > s) /\ ~(s > r)
        BY <1>2, <2>2, RankIs
      <3>2. r \in Int /\ s \in Int
        OBVIOUS
      <3> QED
        BY <3>1, <3>2
    <2>3. \A r, s \in S : f[r] = f[s] => r = s
      BY <2>2
    <2>4. DOMAIN f = S
      BY <2>1
    <2> QED
      BY <2>1, <2>3, <2>4, Zenon DEF Injection, IsInjective
  <1>4. IsFiniteSet(0..(c - 1)) /\ Cardinality(0..(c - 1)) = c
    BY FS_Interval
  <1>5. f \in Surjection(S, 0..(c - 1))
    BY <1>1, <1>3, <1>4, FS_Injection
  <1>6. \E r \in S : Rank(S, r) = n - 1
    <2>1. n - 1 \in 0..(c - 1)
      BY <1>1
    <2> QED
      BY <1>2, <1>5, <2>1 DEF Surjection
  <1> QED
    BY <1>6 DEF Nth

Falling(q) == \A i, j \in 1..Len(q) : i < j => q[i] > q[j]

Among(r, q) == \E i \in 1..Len(q) : q[i] = r

\* The m largest of a set, the largest first.
LEMMA LargestFirst ==
  ASSUME NEW S \in SUBSET Int, IsFiniteSet(S), NEW m \in 0..Cardinality(S),
         NEW q, q = [k \in 1..m |-> Nth(S, k)]
  PROVE  /\ q \in Seq(S) /\ Len(q) = m /\ Falling(q)
         /\ \A r \in S : m = Cardinality(S) \/ (m > 0 /\ r >= q[m]) => Among(r, q)
  <1>1. PICK c \in Nat : c = Cardinality(S)
    BY FS_CardinalityType
  <1>2. \A k \in 1..m : q[k] \in S /\ Rank(S, q[k]) = k - 1
    BY <1>1, NthIs
  <1>3. q \in [1..m -> S]
    BY <1>2
  <1>4. q \in Seq(S) /\ Len(q) = m
    BY <1>1, <1>3
  <1>5. ASSUME NEW i \in 1..m, NEW j \in 1..m, i < j
        PROVE  q[i] > q[j]
    <2>1. PICK a \in S, b \in S : a = q[i] /\ b = q[j]
      BY <1>2
    <2>2. Rank(S, a) < Rank(S, b)
      BY <1>1, <1>2, <1>5, <2>1
    <2>3. Rank(S, a) \in Nat /\ Rank(S, b) \in Nat
      BY RankIs
    <2>4. ~(b > a) /\ a # b
      BY <2>2, <2>3, RankIs
    <2>5. a \in Int /\ b \in Int
      OBVIOUS
    <2> QED
      BY <2>1, <2>4, <2>5
  <1>6. ASSUME NEW r \in S, m = c \/ (m > 0 /\ r >= q[m])
        PROVE  \E i \in 1..m : q[i] = r
    <2>1. PICK k \in Nat : k = Rank(S, r) /\ k < c
      BY <1>1, RankIs
    <2>2. k < m
      <3>1. SUFFICES ASSUME m > 0, r >= q[m], k >= m PROVE FALSE
        BY <1>1, <1>6, <2>1
      <3>2. m \in 1..m /\ q[m] \in S /\ Rank(S, q[m]) = m - 1
        BY <1>1, <1>2, <3>1
      <3>3. PICK s \in S : s = q[m] /\ Rank(S, s) = m - 1
        BY <3>2
      <3>4. r # s /\ ~(r > s)
        BY <1>1, <2>1, <3>1, <3>3, RankIs
      <3>5. r \in Int /\ s \in Int
        OBVIOUS
      <3> QED
        BY <3>1, <3>3, <3>4, <3>5
    <2>3. k + 1 \in 1..m
      BY <1>1, <2>1, <2>2
    <2>4. PICK s \in S : s = q[k + 1] /\ Rank(S, s) = k
      <3>1. PICK l \in 1..m : l = k + 1
        BY <2>3
      <3>2. q[l] \in S /\ Rank(S, q[l]) = l - 1
        BY <1>2
      <3>3. Rank(S, q[l]) = k /\ q[l] = q[k + 1]
        BY <2>1, <3>1, <3>2
      <3> QED
        BY <3>2, <3>3
    <2>5. ~(r > s) /\ ~(s > r)
      BY <2>1, <2>4, RankIs
    <2>6. r \in Int /\ s \in Int
      OBVIOUS
    <2> QED
      BY <2>3, <2>4, <2>5, <2>6
  <1> QED
    BY <1>1, <1>4, <1>5, <1>6 DEF Falling, Among

\* A page of a set: its rows down to end, which is 0 when that is all.
Page(q, S, end) ==
  /\ q \in Seq(S) /\ Falling(q) /\ end \in S \cup {0}
  /\ \A i \in 1..Len(q) : q[i] >= end
  /\ \A r \in S : r >= end => Among(r, q)

LEMMA PageIs ==
  ASSUME NEW S \in SUBSET (Nat \ {0}), IsFiniteSet(S), NEW n \in Nat \ {0}, NEW q,
         q = [k \in 1..(IF Cardinality(S) < n THEN Cardinality(S) ELSE n) |-> Nth(S, k)]
  PROVE  Page(q, S, IF Cardinality(S) > n THEN q[n] ELSE 0)
  <1>1. PICK c \in Nat : c = Cardinality(S)
    BY FS_CardinalityType
  <1>2. PICK m \in 0..c : m = IF c < n THEN c ELSE n
    BY <1>1
  <1>3. /\ q \in Seq(S) /\ Len(q) = m /\ Falling(q)
        /\ \A r \in S : m = c \/ (m > 0 /\ r >= q[m]) => Among(r, q)
    BY <1>1, <1>2, LargestFirst
  <1>4. \A i \in 1..m : q[i] \in S /\ q[i] \in Nat
    <2>1. q \in Seq(S) /\ DOMAIN q = 1..m
      BY <1>1, <1>2, <1>3
    <2>2. \A i \in 1..m : q[i] \in S
      BY <2>1, ElementOf
    <2> QED
      BY <2>2
  <1>5. CASE c > n
    <2>1. m = n /\ m \in 1..m
      BY <1>1, <1>2, <1>5
    <2>2. ASSUME NEW i \in 1..m
          PROVE  q[i] >= q[n]
      <3>1. PICK a \in Nat, b \in Nat : a = q[i] /\ b = q[m]
        BY <1>4, <2>1
      <3>2. i = m \/ i < m
        BY <2>1
      <3>3. i < m => a > b
        BY <1>3, <2>1, <3>1 DEF Falling
      <3> QED
        BY <2>1, <3>1, <3>2, <3>3
    <2> QED
      BY <1>1, <1>3, <1>4, <1>5, <2>1, <2>2 DEF Page
  <1>6. CASE ~(c > n)
    <2>1. m = c
      BY <1>1, <1>2, <1>6
    <2> QED
      BY <1>1, <1>3, <1>4, <1>6, <2>1 DEF Page
  <1> QED
    BY <1>5, <1>6

\* What a list keeps of the rows of T.
Filtered(q, T) ==
  LET kept == {i \in DOMAIN q : q[i] \in T}
  IN  [j \in 1..Cardinality(kept) |-> q[Nth(kept, Cardinality(kept) + 1 - j)]]

LEMMA FilteredIs ==
  ASSUME NEW R, NEW q \in Seq(R), NEW T, NEW p, p = Filtered(q, T)
  PROVE  /\ p \in Seq(R \cap T)
         /\ \A i \in 1..Len(p) : Among(p[i], q)
         /\ \A r \in T : Among(r, q) => Among(r, p)
         /\ Falling(q) => Falling(p)
  <1>1. PICK K : K = {i \in DOMAIN q : q[i] \in T}
    OBVIOUS
  <1>2. K \in SUBSET Int /\ K \subseteq 1..Len(q) /\ Len(q) \in Nat /\ DOMAIN q = 1..Len(q)
    BY <1>1
  <1>3. IsFiniteSet(K)
    <2>1. PICK n \in Nat : n = Len(q)
      BY <1>2
    <2>2. IsFiniteSet(1..n)
      BY FS_Interval
    <2> QED
      BY <1>2, <2>1, <2>2, FS_Subset
  <1>4. PICK c \in Nat : c = Cardinality(K)
    BY <1>3, FS_CardinalityType
  <1>5. PICK h : h = [j \in 1..c |-> Nth(K, c + 1 - j)]
    OBVIOUS
  <1>6. ASSUME NEW j \in 1..c
        PROVE  h[j] \in K /\ Rank(K, h[j]) = c - j
    <2>1. PICK k \in 1..c : k = c + 1 - j
      BY <1>4
    <2>2. Nth(K, k) \in K /\ Rank(K, Nth(K, k)) = k - 1
      BY <1>2, <1>3, <1>4, NthIs
    <2>3. h[j] = Nth(K, k)
      BY <1>5, <2>1
    <2> QED
      BY <2>1, <2>2, <2>3
  <1>7. p = [j \in 1..c |-> q[h[j]]]
    BY <1>1, <1>4, <1>5, Zenon DEF Filtered
  <1>8. p \in Seq(R \cap T) /\ Len(p) = c
    <2>1. \A j \in 1..c : q[h[j]] \in R \cap T
      BY <1>1, <1>2, <1>6, ElementOf
    <2>2. p \in [1..c -> R \cap T]
      BY <1>7, <2>1
    <2> QED
      BY <1>4, <2>2
  <1>9. \A j \in 1..c : p[j] = q[h[j]]
    BY <1>7
  <1>10. \A i \in 1..Len(p) : Among(p[i], q)
    BY <1>2, <1>6, <1>8, <1>9 DEF Among
  <1>11. ASSUME NEW r \in T, Among(r, q)
         PROVE  Among(r, p)
    <2>1. PICK i \in K : q[i] = r
      BY <1>1, <1>2, <1>11 DEF Among
    <2>2. PICK k \in Nat : k = Rank(K, i) /\ k < c
      BY <1>2, <1>3, <1>4, RankIs
    <2>3. PICK j \in 1..c : j = c - k
      BY <2>2
    <2>4. PICK l \in K : l = h[j] /\ Rank(K, l) = k
      <3>1. c - j = k
        BY <2>2, <2>3
      <3> QED
        BY <1>6, <3>1
    <2>5. ~(l > i) /\ ~(i > l) /\ l \in Int /\ i \in Int
      BY <1>2, <1>3, <2>2, <2>4, RankIs
    <2>6. l = i
      BY <2>5
    <2> QED
      BY <1>8, <1>9, <2>1, <2>4, <2>6 DEF Among
  <1>12. ASSUME Falling(q)
         PROVE  Falling(p)
    <2> SUFFICES ASSUME NEW i \in 1..c, NEW j \in 1..c, i < j
                 PROVE  p[i] > p[j]
      BY <1>8 DEF Falling
    <2>1. PICK a \in K, b \in K : a = h[i] /\ b = h[j] /\ Rank(K, a) = c - i /\ Rank(K, b) = c - j
      BY <1>6
    <2>2. Rank(K, b) < Rank(K, a)
      BY <1>4, <2>1
    <2>3. ~(a > b) /\ a # b /\ Rank(K, a) \in Nat /\ Rank(K, b) \in Nat
      <3>1. /\ Rank(K, a) \in Nat /\ Rank(K, b) \in Nat
            /\ a > b => Rank(K, a) < Rank(K, b)
        BY <1>2, <1>3, RankIs
      <3> QED
        BY <2>2, <3>1
    <2>4. a \in 1..Len(q) /\ b \in 1..Len(q) /\ a < b
      BY <1>2, <2>3
    <2>5. q[a] > q[b]
      BY <1>12, <2>4 DEF Falling
    <2> QED
      BY <1>9, <2>1, <2>5
  <1> QED
    BY <1>8, <1>10, <1>11, <1>12

-----------------------------------------------------------------------------
(* Lists of rows, of which S are stored and numbered up to top.            *)

\* From its first row down to end, or to the last one of all, a list has
\* every stored row.
Listed(q, end, S, top) ==
  /\ q \in Seq(1..top) /\ Falling(q) /\ end \in 0..top
  /\ \A i \in 1..Len(q) : q[i] >= end
  /\ \A r \in S : Len(q) > 0 /\ r <= q[1] /\ r >= end => Among(r, q)

\* What comes below hi: every stored row from there down to end.
Follows(q, end, S, top, hi) ==
  /\ q \in Seq(1..top) /\ Falling(q) /\ hi \in 1..top /\ end \in 0..(hi - 1)
  /\ \A i \in 1..Len(q) : q[i] >= end /\ q[i] < hi
  /\ \A r \in S : r < hi /\ r >= end => Among(r, q)

LEMMA RowsOf ==
  ASSUME NEW top \in Nat, NEW q \in Seq(1..top)
  PROVE  /\ Len(q) \in Nat
         /\ \A i \in 1..Len(q) : q[i] \in Nat /\ q[i] >= 1 /\ q[i] <= top
  <1>1. ASSUME NEW i \in 1..Len(q)
        PROVE  q[i] \in 1..top
    <2>1. i \in DOMAIN q
      OBVIOUS
    <2> QED
      BY <2>1, ElementOf
  <1> QED
    BY <1>1

\* A page of the stored rows is such a list, ...
LEMMA PageListed ==
  ASSUME NEW top \in Nat, NEW S \in SUBSET (1..top), NEW q, NEW end, Page(q, S, end)
  PROVE  Listed(q, end, S, top)
  <1>1. q \in Seq(1..top) /\ end \in 0..top
    <2>1. q \in Seq(S) /\ end \in S \cup {0}
      BY DEF Page
    <2>2. \A i \in 1..Len(q) : q[i] \in 1..top
      <3>1. DOMAIN q = 1..Len(q)
        BY <2>1
      <3> QED
        BY <2>1, <3>1, ElementOf
    <2> QED
      BY <2>1, <2>2
  <1> QED
    BY <1>1 DEF Page, Listed

\* ... and one of those below hi follows it.
LEMMA PageFollows ==
  ASSUME NEW top \in Nat, NEW S \in SUBSET (1..top), NEW hi \in 1..top, NEW q, NEW end,
         Page(q, {r \in S : r < hi}, end)
  PROVE  Follows(q, end, S, top, hi)
  <1>1. PICK B \in SUBSET (1..top) : B = {r \in S : r < hi}
    OBVIOUS
  <1>2. q \in Seq(B) /\ end \in B \cup {0}
    BY <1>1 DEF Page
  <1>3. \A i \in 1..Len(q) : q[i] \in B
    <2>1. DOMAIN q = 1..Len(q)
      BY <1>2
    <2> QED
      BY <1>2, <2>1, ElementOf
  <1>4. q \in Seq(1..top)
    <2>1. \A i \in 1..Len(q) : q[i] \in 1..top
      BY <1>1, <1>3
    <2> QED
      BY <1>2, <2>1
  <1>5. end \in 0..(hi - 1) /\ \A i \in 1..Len(q) : q[i] < hi
    BY <1>1, <1>2, <1>3
  <1> QED
    BY <1>4, <1>5 DEF Page, Follows

LEMMA Grown ==
  ASSUME NEW top \in Nat, NEW S \in SUBSET (1..top), NEW q, NEW end, NEW hi, NEW U,
         U \subseteq S \cup {top + 1}
  PROVE  /\ Listed(q, end, S, top) => Listed(q, end, U, top + 1)
         /\ Follows(q, end, S, top, hi) => Follows(q, end, U, top + 1, hi)
  <1>1. ASSUME Listed(q, end, S, top)
        PROVE  Listed(q, end, U, top + 1)
    <2>1. q \in Seq(1..top) /\ q \in Seq(1..(top + 1)) /\ end \in 0..(top + 1)
      BY <1>1 DEF Listed
    <2>2. Len(q) > 0 => q[1] \in Nat /\ q[1] <= top
      BY <2>1, RowsOf
    <2> QED
      BY <1>1, <2>1, <2>2 DEF Listed
  <1>2. ASSUME Follows(q, end, S, top, hi)
        PROVE  Follows(q, end, U, top + 1, hi)
    <2>1. q \in Seq(1..(top + 1)) /\ hi \in 1..(top + 1)
      BY <1>2 DEF Follows
    <2>2. \A r \in U : r < hi => r \in S
      BY <1>2 DEF Follows
    <2> QED
      BY <1>2, <2>1, <2>2 DEF Follows
  <1> QED
    BY <1>1, <1>2

LEMMA Fewer ==
  ASSUME NEW top \in Nat, NEW S, NEW U \in SUBSET S, NEW q, NEW end, NEW hi
  PROVE  /\ Listed(q, end, S, top) => Listed(q, end, U, top)
         /\ Follows(q, end, S, top, hi) => Follows(q, end, U, top, hi)
  BY DEF Listed, Follows

LEMMA NoneListed ==
  ASSUME NEW top \in Nat, NEW S
  PROVE  Listed(<<>>, 0, S, top)
  BY DEF Listed, Falling

\* The rows of T that are left of it.
LEMMA FilteredListed ==
  ASSUME NEW top \in Nat, NEW S \in SUBSET (1..top), NEW T, NEW q, NEW end, NEW hi
  PROVE  /\ Listed(q, end, S, top) => Listed(Filtered(q, T), end, S \cap T, top)
         /\ Follows(q, end, S, top, hi) => Follows(Filtered(q, T), end, S \cap T, top, hi)
  <1>1. PICK p : p = Filtered(q, T)
    OBVIOUS
  <1>2. ASSUME q \in Seq(1..top), Falling(q)
        PROVE  /\ p \in Seq(1..top) /\ Falling(p)
               /\ \A i \in 1..Len(p) : \E j \in 1..Len(q) : p[i] = q[j]
               /\ \A r \in T : Among(r, q) => Among(r, p)
               /\ Len(p) > 0 => Len(q) > 0 /\ p[1] <= q[1]
    <2>1. /\ p \in Seq((1..top) \cap T) /\ Falling(p)
          /\ \A i \in 1..Len(p) : Among(p[i], q)
          /\ \A r \in T : Among(r, q) => Among(r, p)
      BY <1>1, <1>2, FilteredIs
    <2>2. p \in Seq(1..top)
      BY <2>1
    <2>3. \A i \in 1..Len(p) : \E j \in 1..Len(q) : p[i] = q[j]
      BY <2>1 DEF Among
    <2>4. ASSUME Len(p) > 0
          PROVE  Len(q) > 0 /\ p[1] <= q[1]
      <3>1. PICK j \in 1..Len(q) : p[1] = q[j]
        BY <2>2, <2>3, <2>4
      <3>2. PICK a \in Nat, b \in Nat : a = q[1] /\ b = q[j]
        BY <1>2, <3>1, RowsOf
      <3>3. j = 1 \/ a > b
        BY <1>2, <3>1, <3>2 DEF Falling
      <3> QED
        BY <1>2, <3>1, <3>2, <3>3
    <2> QED
      BY <2>1, <2>2, <2>3, <2>4
  <1>3. ASSUME Listed(q, end, S, top)
        PROVE  Listed(p, end, S \cap T, top)
    <2>1. q \in Seq(1..top) /\ Falling(q)
      BY <1>3 DEF Listed
    <2>2. \A i \in 1..Len(p) : p[i] >= end
      BY <1>2, <1>3, <2>1 DEF Listed
    <2>3. ASSUME NEW r \in S \cap T, Len(p) > 0, r <= p[1], r >= end
          PROVE  Among(r, p)
      <3>1. Len(q) > 0 /\ p[1] <= q[1] /\ p[1] \in Nat /\ q[1] \in Nat
        BY <1>2, <2>1, <2>3, RowsOf
      <3>2. r <= q[1]
        BY <2>3, <3>1
      <3> QED
        BY <1>2, <1>3, <2>1, <2>3, <3>1, <3>2 DEF Listed
    <2> QED
      BY <1>2, <1>3, <2>1, <2>2, <2>3 DEF Listed
  <1>4. ASSUME Follows(q, end, S, top, hi)
        PROVE  Follows(p, end, S \cap T, top, hi)
    <2>1. q \in Seq(1..top) /\ Falling(q)
      BY <1>4 DEF Follows
    <2>2. \A i \in 1..Len(p) : p[i] >= end /\ p[i] < hi
      BY <1>2, <1>4, <2>1 DEF Follows
    <2> QED
      BY <1>2, <1>4, <2>1, <2>2 DEF Follows
  <1> QED
    BY <1>1, <1>3, <1>4

\* A list, and what follows it.
LEMMA Joined ==
  ASSUME NEW top \in Nat, NEW S \in SUBSET (1..top), NEW q, NEW p, NEW hi, NEW end,
         Listed(q, hi, S, top), Follows(p, end, S, top, hi)
  PROVE  Listed(q \o p, end, S, top)
  <1>1. /\ q \in Seq(1..top) /\ p \in Seq(1..top) /\ Len(q) \in Nat /\ Len(p) \in Nat
        /\ hi \in 1..top /\ end \in 0..(hi - 1)
    BY RowsOf DEF Listed, Follows
  <1>2. PICK l : l = q \o p
    OBVIOUS
  <1>3. /\ l \in Seq(1..top) /\ Len(l) = Len(q) + Len(p)
        /\ \A i \in 1..Len(q) : l[i] = q[i]
        /\ \A i \in 1..Len(p) : l[Len(q) + i] = p[i]
    BY <1>1, <1>2
  <1>4. ASSUME NEW i \in 1..Len(l)
        PROVE  \/ i \in 1..Len(q) /\ l[i] = q[i]
               \/ \E k \in 1..Len(p) : i = Len(q) + k /\ l[i] = p[k]
    <2>1. CASE i <= Len(q)
      BY <1>1, <1>3, <2>1
    <2>2. CASE i > Len(q)
      <3>1. PICK k \in 1..Len(p) : i = Len(q) + k
        <4>1. i - Len(q) \in 1..Len(p) /\ i = Len(q) + (i - Len(q))
          BY <1>1, <1>3, <2>2
        <4> QED
          BY <4>1
      <3> QED
        BY <1>3, <3>1
    <2> QED
      BY <1>1, <2>1, <2>2
  <1>5. /\ \A i \in 1..Len(q) : q[i] \in Nat /\ q[i] >= hi
        /\ \A i \in 1..Len(p) : p[i] \in Nat /\ p[i] < hi /\ p[i] >= end
    BY <1>1, RowsOf DEF Listed, Follows
  <1>6. Falling(l)
    <2> SUFFICES ASSUME NEW i \in 1..Len(l), NEW j \in 1..Len(l), i < j
                 PROVE  l[i] > l[j]
      BY DEF Falling
    <2>1. CASE j \in 1..Len(q) /\ l[j] = q[j]
      <3>1. i \in 1..Len(q) /\ l[i] = q[i]
        <4>1. i \in Nat /\ j \in Nat /\ i >= 1 /\ j <= Len(q)
          BY <1>1, <1>3, <2>1
        <4>2. i \in 1..Len(q)
          BY <1>1, <4>1
        <4> QED
          BY <1>3, <4>2
      <3> QED
        BY <2>1, <3>1 DEF Listed, Falling
    <2>2. ASSUME NEW k \in 1..Len(p), j = Len(q) + k, l[j] = p[k]
          PROVE  l[i] > l[j]
      <3>1. CASE i \in 1..Len(q) /\ l[i] = q[i]
        <4>1. PICK a \in Nat, b \in Nat : a = q[i] /\ b = p[k] /\ a >= hi /\ b < hi
          BY <1>5, <2>2, <3>1
        <4>2. a > b
          BY <1>1, <4>1
        <4> QED
          BY <2>2, <3>1, <4>1, <4>2
      <3>2. ASSUME NEW m \in 1..Len(p), i = Len(q) + m, l[i] = p[m]
            PROVE  l[i] > l[j]
        <4>1. m < k
          BY <1>1, <2>2, <3>2
        <4> QED
          BY <2>2, <3>2, <4>1 DEF Follows, Falling
      <3> QED
        BY <1>4, <3>1, <3>2
    <2> QED
      BY <1>4, <2>1, <2>2
  <1>7. ASSUME NEW i \in 1..Len(l)
        PROVE  l[i] >= end
    <2>1. CASE i \in 1..Len(q) /\ l[i] = q[i]
      <3>1. PICK a \in Nat : a = q[i] /\ a >= hi
        BY <1>5, <2>1
      <3>2. a >= end
        BY <1>1, <3>1
      <3> QED
        BY <2>1, <3>1, <3>2
    <2>2. ASSUME NEW k \in 1..Len(p), l[i] = p[k]
          PROVE  l[i] >= end
      BY <1>5, <2>2
    <2> QED
      BY <1>4, <2>1, <2>2
  <1>8. ASSUME NEW r \in S, Len(l) > 0, r <= l[1], r >= end
        PROVE  Among(r, l)
    <2>1. CASE r < hi
      <3>1. PICK k \in 1..Len(p) : p[k] = r
        BY <1>8, <2>1 DEF Follows, Among
      <3>2. PICK i \in Nat : i = Len(q) + k
        BY <1>1, <3>1
      <3>3. i \in 1..Len(l)
        BY <1>1, <1>3, <3>1, <3>2
      <3>4. l[i] = r
        BY <1>3, <3>1, <3>2
      <3> QED
        BY <3>3, <3>4 DEF Among
    <2>2. CASE r >= hi
      <3>1. Len(q) > 0
        <4> SUFFICES ASSUME Len(q) = 0 PROVE FALSE
          BY <1>1
        <4>1. 1 \in 1..Len(p) /\ l[1] = p[1]
          BY <1>1, <1>3, <1>8
        <4>2. p[1] \in Nat /\ p[1] < hi
          BY <1>5, <4>1
        <4> QED
          BY <1>1, <1>8, <2>2, <4>1, <4>2
      <3>2. l[1] = q[1]
        BY <1>1, <1>3, <3>1
      <3>3. PICK i \in 1..Len(q) : q[i] = r
        BY <1>8, <2>2, <3>1, <3>2 DEF Listed, Among
      <3>4. i \in 1..Len(l) /\ l[i] = r
        BY <1>1, <1>3, <3>3
      <3> QED
        BY <3>4 DEF Among
    <2> QED
      BY <1>1, <2>1, <2>2
  <1>9. end \in 0..top
    BY <1>1
  <1> QED
    BY <1>2, <1>3, <1>6, <1>7, <1>8, <1>9 DEF Listed

-----------------------------------------------------------------------------
(* The list of events.                                                     *)

ListInv ==
  /\ newest \in Nat /\ newest <= MaxRows /\ rows \in SUBSET (1..newest)
  /\ filter \in Filters /\ raced \in BOOLEAN
  /\ first.at = "answer" => Listed(first.rows, first.next, rows \cap filter, newest)
  /\ ~raced =>
       /\ Listed(items, cursor, rows \cap filter, newest)
       /\ more.at = "asked" => more.filter = filter /\ more.cursor = cursor /\ cursor # 0
       /\ more.at = "answer" => Follows(more.rows, more.next, rows \cap filter, newest, cursor)

LEMMA ListSizes ==
  /\ Limit \in Nat \ {0} /\ MaxRows \in Nat /\ OnMount \in 0..MaxRows
  /\ All = 1..MaxRows /\ All \in Filters /\ Filters \subseteq SUBSET All
  BY Parameters DEF List!PageSizes

LEMMA InitList == List!Init => ListInv
  <1> SUFFICES ASSUME List!Init PROVE ListInv
    OBVIOUS
  <1>1. first.at = "idle" /\ more.at = "idle"
    BY DEF List!Init, List!Idle
  <1>2. Listed(items, cursor, rows \cap filter, newest)
    BY ListSizes, NoneListed DEF List!Init, List!None
  <1>3. newest \in Nat /\ newest <= MaxRows /\ rows \in SUBSET (1..newest) /\ filter \in Filters
    BY ListSizes DEF List!Init
  <1>4. raced = FALSE
    BY DEF List!Init
  <1> QED
    BY <1>1, <1>2, <1>3, <1>4 DEF ListInv

\* What the server answers.
LEMMA AnswerIs ==
  ASSUME ListInv, NEW f, NEW c, NEW S, S = {r \in rows \cap f : c = 0 \/ r < c}
  PROVE  /\ List!Answer(f, c).at = "answer"
         /\ Page(List!Answer(f, c).rows, S, List!Answer(f, c).next)
  <1>1. S \in SUBSET (1..newest) /\ newest \in Nat
    BY DEF ListInv
  <1>2. S \in SUBSET (Nat \ {0}) /\ IsFiniteSet(S)
    <2>1. IsFiniteSet(1..newest)
      BY <1>1, FS_Interval
    <2> QED
      BY <1>1, <2>1, FS_Subset
  <1>3. PICK q : q = [k \in 1..(IF Cardinality(S) < Limit THEN Cardinality(S) ELSE Limit) |-> Nth(S, k)]
    OBVIOUS
  <1>4. Page(q, S, IF Cardinality(S) > Limit THEN q[Limit] ELSE 0)
    BY <1>2, <1>3, ListSizes, PageIs
  <1>5. List!Cardinality(S) = Cardinality(S) /\ \A n : List!Nth(S, n) = Nth(S, n)
    <2>1. \A T : List!Cardinality(T) = Cardinality(T)
      BY Zenon DEF List!Cardinality, Cardinality
    <2> QED
      BY <2>1, Zenon DEF List!Nth, Nth, Rank
  <1>6. List!Newest(S, Limit) = q
    BY <1>3, <1>5, Zenon DEF List!Newest
  <1>7. List!NextCursor(S) = IF Cardinality(S) > Limit THEN q[Limit] ELSE 0
    BY <1>5, <1>6 DEF List!NextCursor, List!None
  <1>8. List!Answer(f, c) = [at |-> "answer", rows |-> q, next |-> List!NextCursor(S),
                             safe |-> safe \cap List!Range(q)]
    BY <1>6, Zenon DEF List!Answer, List!None
  <1> QED
    BY <1>4, <1>7, <1>8

\* Steps that leave the rows, the filter and the list as they are.
LEMMA ListStands ==
  ASSUME ListInv, UNCHANGED <<rows, newest, filter, items, cursor, raced>>,
         \/ first' = first
         \/ first'.at # "answer"
         \/ Listed(first'.rows, first'.next, rows \cap filter, newest),
         \/ more' = more
         \/ more'.at \notin {"asked", "answer"}
         \/ ~raced /\ more'.at = "asked" /\ more'.filter = filter /\ more'.cursor = cursor
              /\ cursor # 0
         \/ raced
         \/ ~raced /\ more'.at = "answer"
              /\ Follows(more'.rows, more'.next, rows \cap filter, newest, cursor)
  PROVE  ListInv'
  BY DEF ListInv

LEMMA ListFilters == \A q, T : List!Filtered(q, T) = Filtered(q, T)
  <1>1. \A T : List!Cardinality(T) = Cardinality(T)
    BY Zenon DEF List!Cardinality, Cardinality
  <1>2. \A S, n : List!Nth(S, n) = Nth(S, n)
    BY <1>1, Zenon DEF List!Nth, Nth, Rank
  <1> QED
    BY <1>1, <1>2, Zenon DEF List!Filtered, Filtered

\* The first page, and a new search.
LEMMA FirstSteps ==
  ASSUME ListInv
  PROVE  /\ List!Visit \/ List!Focus \/ List!Refresh => ListInv'
         /\ \A f \in Filters : List!Apply(f) => ListInv'
         /\ List!Serve \/ List!OnFirst => ListInv'
  <1>1. CASE List!Visit \/ List!Focus \/ List!Refresh
    <2>1. /\ UNCHANGED <<rows, newest, filter, items, cursor, raced, more>>
          /\ first' = first \/ first' = List!Asked
      BY <1>1, Zenon DEF List!Visit, List!Focus, List!Refresh, List!Sent, List!server, List!table
    <2>2. List!Asked.at # "answer"
      BY DEF List!Asked
    <2> QED
      BY <2>1, <2>2, ListStands
  <1>2. ASSUME NEW f \in Filters, List!Apply(f)
        PROVE  ListInv'
    <2>1. /\ UNCHANGED <<rows, newest, more>> /\ filter' = f /\ items' = <<>> /\ cursor' = 0
          /\ first' = IF f = filter THEN first ELSE List!Asked
          /\ raced' = (raced \/ more # List!Idle)
      BY <1>2 DEF List!Apply, List!server, List!None
    <2>2. first'.at = "answer" => Listed(first'.rows, first'.next, rows \cap f, newest)
      <3>1. List!Asked.at # "answer"
        BY DEF List!Asked
      <3> QED
        BY <2>1, <3>1 DEF ListInv
    <2>3. newest \in Nat /\ Listed(<<>>, 0, rows \cap f, newest)
      BY NoneListed DEF ListInv
    <2>4. ~raced' => more.at = "idle"
      <3>1. List!Idle.at = "idle"
        BY DEF List!Idle
      <3>2. ~raced' => more = List!Idle
        BY <2>1, Zenon
      <3> QED
        BY <3>1, <3>2
    <2>5. raced' \in BOOLEAN
      <3>1. raced \in BOOLEAN /\ (more # List!Idle) \in BOOLEAN
        BY DEF ListInv
      <3> QED
        BY <2>1, <3>1, Zenon
    <2> QED
      BY <2>1, <2>2, <2>3, <2>4, <2>5 DEF ListInv
  <1>3. CASE List!Serve
    <2>1. /\ UNCHANGED <<rows, newest, filter, items, cursor, raced, more>>
          /\ first' = List!Answer(filter, 0) \/ first' = List!Idle
      BY <1>3 DEF List!Serve, List!server, List!table, List!None
    <2>2. PICK S : S = {r \in rows \cap filter : 0 = 0 \/ r < 0}
      OBVIOUS
    <2>3. PICK a : a = List!Answer(filter, 0)
      OBVIOUS
    <2>4. Page(a.rows, S, a.next)
      BY <2>2, <2>3, AnswerIs
    <2>5. S = rows \cap filter /\ S \in SUBSET (1..newest) /\ newest \in Nat
      BY <2>2 DEF ListInv
    <2>6. Listed(a.rows, a.next, rows \cap filter, newest)
      BY <2>4, <2>5, PageListed
    <2>7. List!Idle.at # "answer"
      BY DEF List!Idle
    <2> QED
      BY <2>1, <2>3, <2>6, <2>7, ListStands
  <1>4. CASE List!OnFirst
    <2>1. /\ UNCHANGED <<rows, newest, filter, more>> /\ first.at = "answer" /\ first' = List!Idle
          /\ items' = first.rows /\ cursor' = first.next /\ raced' = (more # List!Idle)
      BY <1>4 DEF List!OnFirst, List!server
    <2>2. first'.at = "idle" /\ (~raced' => more.at = "idle") /\ raced' \in BOOLEAN
      <3>1. List!Idle.at = "idle"
        BY DEF List!Idle
      <3>2. (~raced' => more = List!Idle) /\ raced' \in BOOLEAN
        BY <2>1, Zenon
      <3> QED
        BY <2>1, <3>1, <3>2
    <2> QED
      BY <2>1, <2>2 DEF ListInv
  <1> QED
    BY <1>1, <1>2, <1>3, <1>4

\* "Load more".
LEMMA MoreSteps ==
  ASSUME ListInv, List!LoadMore \/ List!ServeMore \/ List!OnMore
  PROVE  ListInv'
  <1>1. CASE List!LoadMore
    <2>1. /\ UNCHANGED <<rows, newest, filter, items, cursor, raced, first>> /\ cursor # 0
          /\ more' = [at |-> "asked", filter |-> filter, cursor |-> cursor]
      BY <1>1 DEF List!LoadMore, List!server, List!table, List!None
    <2> QED
      BY <2>1, ListStands DEF ListInv
  <1>2. CASE List!ServeMore
    <2>1. /\ UNCHANGED <<rows, newest, filter, items, cursor, raced, first>> /\ more.at = "asked"
          /\ more' = List!Answer(more.filter, more.cursor) \/ more' = List!Idle
      BY <1>2 DEF List!ServeMore, List!server, List!table
    <2>2. List!Idle.at \notin {"asked", "answer"}
      BY DEF List!Idle
    <2>3. CASE ~raced /\ more' = List!Answer(more.filter, more.cursor)
      <3>1. more.filter = filter /\ more.cursor = cursor /\ cursor # 0
        BY <2>1, <2>3 DEF ListInv
      <3>2. PICK S : S = {r \in rows \cap filter : cursor = 0 \/ r < cursor}
        OBVIOUS
      <3>3. more' = List!Answer(filter, cursor)
        BY <2>3, <3>1
      <3>4. more'.at = "answer" /\ Page(more'.rows, S, more'.next)
        BY <3>2, <3>3, AnswerIs
      <3>5. /\ newest \in Nat /\ rows \cap filter \in SUBSET (1..newest) /\ cursor \in 1..newest
        <4>1. newest \in Nat /\ rows \in SUBSET (1..newest)
          BY DEF ListInv
        <4>2. cursor \in 0..newest
          BY <2>3 DEF ListInv, Listed
        <4>3. cursor \in 1..newest
          BY <3>1, <4>1, <4>2
        <4>4. rows \cap filter \in SUBSET (1..newest)
          BY <4>1, Zenon
        <4> QED
          BY <4>1, <4>3, <4>4
      <3>6. S = {r \in rows \cap filter : r < cursor}
        BY <3>1, <3>2
      <3>7. Follows(more'.rows, more'.next, rows \cap filter, newest, cursor)
        BY <3>4, <3>5, <3>6, PageFollows
      <3> QED
        BY <2>1, <2>3, <3>4, <3>7, ListStands
    <2> QED
      BY <2>1, <2>2, <2>3, ListStands DEF ListInv
  <1>3. CASE List!OnMore
    <2>1. /\ UNCHANGED <<rows, newest, filter, raced, first>> /\ more.at = "answer"
          /\ more' = List!Idle /\ items' = items \o more.rows /\ cursor' = more.next
      BY <1>3 DEF List!OnMore, List!server
    <2>2. ~raced => Listed(items', cursor', rows \cap filter, newest)
      <3> SUFFICES ASSUME ~raced PROVE Listed(items', cursor', rows \cap filter, newest)
        OBVIOUS
      <3>1. /\ newest \in Nat /\ rows \cap filter \in SUBSET (1..newest)
            /\ Listed(items, cursor, rows \cap filter, newest)
            /\ Follows(more.rows, more.next, rows \cap filter, newest, cursor)
        BY <2>1 DEF ListInv
      <3> QED
        BY <2>1, <3>1, Joined
    <2>3. more'.at = "idle"
      BY <2>1 DEF List!Idle
    <2> QED
      BY <2>1, <2>2, <2>3 DEF ListInv
  <1> QED
    BY <1>1, <1>2, <1>3

\* Rows come, are protected and go.
LEMMA RowsSteps ==
  ASSUME ListInv
  PROVE  /\ List!NewRow \/ List!Deleted => ListInv'
         /\ \A r : List!Delete(r) \/ List!Protect(r) => ListInv'
  <1> DEFINE S == rows \cap filter
  <1>1. newest \in Nat /\ S \in SUBSET (1..newest) /\ newest <= MaxRows /\ MaxRows \in Nat
    BY ListSizes DEF ListInv
  <1>2. CASE List!NewRow
    <2>1. /\ UNCHANGED <<filter, items, cursor, raced, first, more>> /\ newest < MaxRows
          /\ newest' = newest + 1 /\ rows' = rows \cup {newest + 1}
      BY <1>2 DEF List!NewRow, List!requests, List!table
    <2>2. PICK U : U = rows' \cap filter /\ U \subseteq S \cup {newest + 1}
      BY <2>1
    <2>3. \A q, end, hi : /\ Listed(q, end, S, newest) => Listed(q, end, U, newest + 1)
                          /\ Follows(q, end, S, newest, hi) => Follows(q, end, U, newest + 1, hi)
      BY <1>1, <2>2, Grown
    <2>4. newest' \in Nat /\ newest' <= MaxRows /\ rows' \in SUBSET (1..newest')
      <3>1. rows \in SUBSET (1..newest)
        BY DEF ListInv
      <3> QED
        BY <1>1, <2>1, <3>1
    <2> QED
      BY <2>1, <2>2, <2>3, <2>4 DEF ListInv
  <1>3. CASE List!Deleted
    <2>1. /\ UNCHANGED <<newest, filter, cursor, raced, first, more>>
          /\ \/ UNCHANGED <<rows, items>>
             \/ rows' = rows \ {doomed} /\ items' = List!Filtered(items, All \ {doomed})
      BY <1>3 DEF List!Deleted
    <2>2. CASE UNCHANGED <<rows, items>>
      BY <2>1, <2>2 DEF ListInv
    <2>3. CASE rows' = rows \ {doomed} /\ items' = List!Filtered(items, All \ {doomed})
      <3>1. PICK T : T = All \ {doomed}
        OBVIOUS
      <3>2. items' = Filtered(items, T)
        BY <2>3, <3>1, ListFilters
      <3>3. rows' \cap filter = S \cap T /\ rows' \cap filter \in SUBSET S
        BY <1>1, <2>3, <3>1, ListSizes
      <3>4. \A q, end, hi : /\ Listed(q, end, S, newest) =>
                                 Listed(q, end, rows' \cap filter, newest)
                            /\ Follows(q, end, S, newest, hi) =>
                                 Follows(q, end, rows' \cap filter, newest, hi)
        BY <1>1, <3>3, Fewer
      <3>5. Listed(items, cursor, S, newest) => Listed(items', cursor, rows' \cap filter, newest)
        BY <1>1, <3>2, <3>3, FilteredListed
      <3>6. rows' \in SUBSET (1..newest)
        BY <2>3 DEF ListInv
      <3> QED
        BY <2>1, <3>4, <3>5, <3>6 DEF ListInv
    <2> QED
      BY <2>1, <2>2, <2>3
  <1>4. ASSUME NEW r, List!Delete(r) \/ List!Protect(r)
        PROVE  ListInv'
    <2>1. UNCHANGED <<rows, newest, filter, items, cursor, raced, first, more>>
      BY <1>4 DEF List!Delete, List!Protect, List!server, List!table, List!requests
    <2> QED
      BY <2>1, ListStands
  <1> QED
    BY <1>2, <1>3, <1>4

LEMMA ListKept == ListInv /\ (List!Next \/ UNCHANGED list) => ListInv'
  <1>1. ListInv /\ UNCHANGED list => ListInv'
    BY DEF list, ListInv
  <1>2. ListInv /\ List!Next => ListInv'
    BY FirstSteps, MoreSteps, RowsSteps DEF List!Next
  <1> QED
    BY <1>1, <1>2

LEMMA ListSays == ListInv => List!NoSkip
  <1> SUFFICES ASSUME ListInv, ~raced PROVE /\ List!IsInjective(items)
                 /\ \A r \in rows \cap filter :
                      items # <<>> /\ r <= items[1] /\ (cursor # 0 => r >= cursor) =>
                        r \in List!Range(items)
    BY DEF List!NoSkip, List!None
  <1>1. Listed(items, cursor, rows \cap filter, newest) /\ newest \in Nat
    BY DEF ListInv
  <1>2. items \in Seq(1..newest) /\ Len(items) \in Nat /\ DOMAIN items = 1..Len(items) /\ Falling(items)
    BY <1>1 DEF Listed
  <1>3. List!IsInjective(items)
    <2> SUFFICES ASSUME NEW i \in 1..Len(items), NEW j \in 1..Len(items), items[i] = items[j]
                 PROVE  i = j
      BY <1>2 DEF List!IsInjective
    <2>1. items[i] \in Nat
      BY <1>1, <1>2, RowsOf
    <2> QED
      BY <1>2, <2>1 DEF Falling
  <1>4. ASSUME NEW r \in rows \cap filter, items # <<>>, r <= items[1], cursor # 0 => r >= cursor
        PROVE  r \in List!Range(items)
    <2>1. r \in Nat
      BY DEF ListInv
    <2>2. r >= cursor /\ Len(items) > 0
      BY <1>2, <1>4, <2>1
    <2> QED
      BY <1>1, <1>4, <2>2 DEF Listed, Among, List!Range
  <1> QED
    BY <1>3, <1>4

-----------------------------------------------------------------------------
(* The lists of the analytics.                                             *)

\* What is asked for by one request, or by two for two labels.
Pair(asks) == \E A, B \in SUBSET (1..MaxDetections) : asks = {A, B} /\ A # B /\ A \cap B = {}

\* Of the rows of S up to top, every one that is between two of T.
Between(S, T, top) ==
  \A r \in S \cap (1..top), x, y \in T \cap S : r >= x /\ r <= y => r \in T

\* What the requests of the query that merges have got.
Got(b, top) ==
  /\ Pair(b.asks) /\ b = [at |-> "asked", asks |-> b.asks, got |-> b.got]
  /\ \A g \in b.got : g.of \in b.asks /\ g.rows \in SUBSET (g.of \cap (1..top)) /\ Between(g.of, g.rows, top)
  /\ \A g, h \in b.got : g.of = h.of => g = h

Sought == Found!Ask(choice)

OneListed ==
  /\ ~Found!Merges(choice) =>
       Listed(detections, below, Sought \cap choice.keeps \cap (1..latestRow), latestRow)
  /\ next.at = "asked" =>
       ~Found!Merges(choice) /\ next.of = Sought /\ next.cursor = below /\ below # 0
  /\ next.at = "answer" =>
       /\ ~Found!Merges(choice)
       /\ Follows(next.rows, next.next, Sought \cap (1..latestRow), latestRow, below)

TwoListed ==
  Found!Merges(choice) =>
    /\ detections \in Seq(1..latestRow) /\ Falling(detections)
    /\ \A S \in choice.asks : Between(S, {r \in 1..latestRow : Among(r, detections)}, latestRow)

FoundInv ==
  /\ latestRow \in Nat /\ latestRow <= MaxDetections /\ met \in BOOLEAN
  /\ page \in Found!Pages /\ choice \in page
  /\ single.at # "idle" => ~Found!Merges(choice)
  /\ single.at = "answer" =>
       Listed(single.rows, single.next, Sought \cap (1..latestRow), latestRow)
  /\ both # Found!Idle =>
       Got(both, latestRow) /\ (Found!Merges(choice) => both.asks = choice.asks)
  /\ ~met => OneListed /\ TwoListed

LEMMA FoundSizes ==
  /\ PageSize \in Nat \ {0} /\ MaxDetections \in Nat /\ Found!Stored = 1..MaxDetections
  BY Parameters DEF Found!Sizes, Found!Stored

LEMMA FoundCounts ==
  /\ \A T : Found!Cardinality(T) = Cardinality(T)
  /\ \A S, n : Found!Nth(S, n) = Nth(S, n)
  /\ \A q, T : Found!Filtered(q, T) = Filtered(q, T)
  <1>1. \A T : Found!Cardinality(T) = Cardinality(T)
    BY Zenon DEF Found!Cardinality, Cardinality
  <1>2. \A S, n : Found!Nth(S, n) = Nth(S, n)
    BY <1>1, Zenon DEF Found!Nth, Nth, Rank
  <1>3. \A q, T : Found!Filtered(q, T) = Filtered(q, T)
    BY <1>1, <1>2, Zenon DEF Found!Filtered, Filtered
  <1> QED
    BY <1>1, <1>2, <1>3

LEMMA OneAsks ==
  ASSUME NEW ch, NEW A, ch.asks = {A}
  PROVE  ~Found!Merges(ch) /\ Found!Ask(ch) = A
  <1>1. Cardinality({A}) = 1
    BY FS_Singleton
  <1>2. Found!Cardinality(ch.asks) = 1
    BY <1>1, FoundCounts
  <1> QED
    BY <1>2 DEF Found!Merges, Found!Ask

LEMMA TwoAsk ==
  ASSUME NEW ch, Pair(ch.asks)
  PROVE  Found!Merges(ch)
  <1>1. PICK A, B : ch.asks = {A, B} /\ A # B
    BY DEF Pair
  <1>2. IsFiniteSet({B}) /\ Cardinality({B}) = 1
    BY FS_Singleton
  <1>3. Cardinality({B} \cup {A}) = 2
    BY <1>1, <1>2, FS_AddElement
  <1>4. ch.asks = {B} \cup {A}
    BY <1>1
  <1>5. Found!Cardinality(ch.asks) = 2
    BY <1>3, <1>4, FoundCounts
  <1> QED
    BY <1>5 DEF Found!Merges

Chosen(ch) ==
  \/ Found!Merges(ch) /\ Pair(ch.asks)
  \/ ~Found!Merges(ch) /\ ch.asks = {Found!Ask(ch)} /\ Found!Ask(ch) \in SUBSET (1..MaxDetections)

\* What can be chosen asks for one set of rows, or for two that are disjoint.
LEMMA ChoiceIs == \A pg \in Found!Pages : \A ch \in pg : Chosen(ch)
  <1>1. ASSUME NEW ch, NEW A \in SUBSET (1..MaxDetections), ch.asks = {A}
        PROVE  Chosen(ch)
    BY <1>1, OneAsks DEF Chosen
  <1>2. \A c \in Found!OfCamera : c \in SUBSET (1..MaxDetections)
    BY FoundSizes DEF Found!OfCamera
  <1>3. ASSUME NEW label, NEW ch \in Found!Single(label)
        PROVE  Chosen(ch)
    <2>1. PICK c \in Found!OfCamera : ch.asks = {Found!Labelled(label) \cap c}
      BY <1>3 DEF Found!Single
    <2>2. PICK A : A = Found!Labelled(label) \cap c
      OBVIOUS
    <2>3. A \in SUBSET (1..MaxDetections)
      BY <1>2, <2>2
    <2> QED
      BY <1>1, <2>1, <2>2, <2>3
  <1>4. ASSUME NEW ch \in Found!AbandonedObjectPage
        PROVE  Chosen(ch)
    <2>1. PICK c \in Found!OfCamera : ch.asks = {c}
      BY <1>4 DEF Found!AbandonedObjectPage
    <2> QED
      BY <1>1, <1>2, <2>1
  <1>5. ASSUME NEW ch \in {[asks |-> {Found!Labelled("fire_detected") \cap c,
                                      Found!Labelled("smoke_detected") \cap c},
                            keeps |-> Found!Stored] : c \in Found!OfCamera}
        PROVE  Chosen(ch)
    <2>1. PICK c \in Found!OfCamera :
            ch.asks = {Found!Labelled("fire_detected") \cap c,
                       Found!Labelled("smoke_detected") \cap c}
      BY <1>5
    <2>2. PICK A, B : /\ A = Found!Labelled("fire_detected") \cap c
                      /\ B = Found!Labelled("smoke_detected") \cap c
      OBVIOUS
    <2>3. A \in SUBSET (1..MaxDetections) /\ B \in SUBSET (1..MaxDetections)
      BY <1>2, <2>2
    <2>4. A \cap B = {}
      BY <2>2 DEF Found!Labelled
    <2>5. ch.asks = {A, B}
      BY <2>1, <2>2
    <2>6. CASE A = B
      BY <1>1, <2>3, <2>5, <2>6
    <2>7. CASE A # B
      <3>1. Pair(ch.asks)
        BY <2>3, <2>4, <2>5, <2>7 DEF Pair
      <3> QED
        BY <3>1, TwoAsk DEF Chosen
    <2> QED
      BY <2>6, <2>7
  <1>6. \A ch \in Found!LprAdvancedPage : Chosen(ch)
    BY <1>3 DEF Found!LprAdvancedPage
  <1>7. \A ch \in Found!SmokeFirePage : Chosen(ch)
    BY <1>3, <1>5 DEF Found!SmokeFirePage
  <1>8. /\ \A ch \in Found!EppPage : Chosen(ch)
        /\ \A ch \in Found!FallDetectionPage : Chosen(ch)
        /\ \A ch \in Found!OcrPage : Chosen(ch)
    BY <1>3 DEF Found!EppPage, Found!FallDetectionPage, Found!OcrPage
  <1> QED
    BY <1>4, <1>6, <1>7, <1>8 DEF Found!Pages

\* The newest rows of a set, and what the server answers.
LEMMA NewestIs ==
  ASSUME NEW T \in SUBSET (Nat \ {0}), IsFiniteSet(T), NEW n \in Nat \ {0}
  PROVE  /\ Page(Found!Newest(T, n), T, IF Cardinality(T) > n THEN Found!Newest(T, n)[n] ELSE 0)
         /\ Cardinality(T) > n => Len(Found!Newest(T, n)) = n
  <1>1. PICK q : q = [k \in 1..(IF Cardinality(T) < n THEN Cardinality(T) ELSE n) |-> Nth(T, k)]
    OBVIOUS
  <1>2. Page(q, T, IF Cardinality(T) > n THEN q[n] ELSE 0)
    BY <1>1, PageIs
  <1>3. Found!Newest(T, n) = q
    BY <1>1, FoundCounts, Zenon DEF Found!Newest
  <1>4. Cardinality(T) \in Nat
    BY FS_CardinalityType
  <1>5. Cardinality(T) > n => Len(q) = n
    <2> SUFFICES ASSUME Cardinality(T) > n PROVE Len(q) = n
      OBVIOUS
    <2>1. q = [k \in 1..n |-> Nth(T, k)]
      BY <1>1, <1>4
    <2> QED
      BY <2>1
  <1> QED
    BY <1>2, <1>3, <1>5

LEMMA FoundAnswerIs ==
  ASSUME latestRow \in Nat, NEW S, NEW c, NEW T,
         T = {r \in S \cap (1..latestRow) : c = 0 \/ r < c}
  PROVE  /\ Found!Answer(S, c).at = "answer"
         /\ Page(Found!Answer(S, c).rows, T, Found!Answer(S, c).next)
  <1>1. T \in SUBSET (Nat \ {0}) /\ IsFiniteSet(T)
    <2>1. IsFiniteSet(1..latestRow) /\ T \in SUBSET (1..latestRow)
      BY FS_Interval
    <2> QED
      BY <2>1, FS_Subset
  <1>2. PICK q : q = Found!Newest(T, PageSize)
    OBVIOUS
  <1>3. PICK d : d = Cardinality(T)
    OBVIOUS
  <1>4. d \in Nat /\ d = Found!Cardinality(T)
    BY <1>1, <1>3, FoundCounts, FS_CardinalityType
  <1>5. Page(q, T, IF d > PageSize THEN q[PageSize] ELSE 0) /\ (d > PageSize => Len(q) = PageSize)
    BY <1>1, <1>2, <1>3, FoundSizes, NewestIs
  <1>6. Found!Answer(S, c) =
          [at |-> "answer", rows |-> q,
           next |-> IF d > PageSize THEN q[PageSize] ELSE 0]
    BY <1>2, <1>4, Zenon DEF Found!Answer, Found!Gone
  <1> QED
    BY <1>5, <1>6

LEMMA NothingFound ==
  ASSUME latestRow \in Nat
  PROVE  /\ \A S : Listed(<<>>, 0, S, latestRow)
         /\ \A S : Between(S, {r \in 1..latestRow : Among(r, <<>>)}, latestRow)
         /\ <<>> \in Seq(1..latestRow) /\ Falling(<<>>)
  <1>1. \A S : Listed(<<>>, 0, S, latestRow)
    BY NoneListed
  <1>2. \A S : Between(S, {r \in 1..latestRow : Among(r, <<>>)}, latestRow)
    BY DEF Between, Among
  <1>3. Falling(<<>>)
    BY DEF Falling
  <1> QED
    BY <1>1, <1>2, <1>3

LEMMA MergingIs ==
  ASSUME NEW ch, Pair(ch.asks), NEW top
  PROVE  /\ Got(Found!Merging(ch), top) /\ Found!Merging(ch).asks = ch.asks
         /\ Found!Merging(ch) # Found!Idle
  <1>1. PICK b : b = [at |-> "asked", asks |-> ch.asks, got |-> {}]
    OBVIOUS
  <1>2. b = Found!Merging(ch)
    BY <1>1 DEF Found!Merging
  <1>3. b.at = "asked" /\ b.asks = ch.asks /\ b.got = {}
    BY <1>1
  <1>4. Got(b, top)
    BY <1>1, <1>3 DEF Got
  <1>5. b # Found!Idle
    BY <1>3 DEF Found!Idle
  <1> QED
    BY <1>2, <1>3, <1>4, <1>5

\* A list without rows, of a choice that nothing else is asked for.
LEMMA EmptyFound ==
  ASSUME latestRow \in Nat, detections = <<>>, below = 0, next.at = "idle"
  PROVE  OneListed /\ TwoListed
  <1>1. /\ \A S : Listed(<<>>, 0, S, latestRow)
        /\ \A S : Between(S, {r \in 1..latestRow : Among(r, <<>>)}, latestRow)
        /\ <<>> \in Seq(1..latestRow) /\ Falling(<<>>)
    BY NothingFound
  <1>2. Listed(detections, below, Sought \cap choice.keeps \cap (1..latestRow), latestRow)
    BY <1>1
  <1>3. OneListed
    BY <1>2 DEF OneListed
  <1>4. TwoListed
    BY <1>1 DEF TwoListed
  <1> QED
    BY <1>3, <1>4

LEMMA InitFound == Found!Init => FoundInv
  <1> SUFFICES ASSUME Found!Init PROVE FoundInv
    OBVIOUS
  <1>1. latestRow \in Nat /\ latestRow <= MaxDetections
    BY FoundSizes DEF Found!Init
  <1>2. page \in Found!Pages /\ choice \in page /\ met = FALSE /\ detections = <<>> /\ below = 0
    BY DEF Found!Init, Found!Gone
  <1>3. next.at = "idle" /\ Found!Idle.at = "idle"
    BY DEF Found!Init, Found!Idle
  <1>4. Chosen(choice)
    BY <1>2, ChoiceIs
  <1>5. /\ single.at # "idle" => ~Found!Merges(choice)
        /\ single.at # "answer"
    BY <1>3 DEF Found!Init, Found!Asked
  <1>6. both # Found!Idle =>
          Got(both, latestRow) /\ (Found!Merges(choice) => both.asks = choice.asks)
    <2> SUFFICES ASSUME both # Found!Idle
                 PROVE  Got(both, latestRow) /\ (Found!Merges(choice) => both.asks = choice.asks)
      OBVIOUS
    <2>1. Found!Merges(choice) /\ both = Found!Merging(choice)
      BY DEF Found!Init
    <2>2. Pair(choice.asks)
      BY <1>4, <2>1 DEF Chosen
    <2> QED
      BY <2>1, <2>2, MergingIs
  <1>7. OneListed /\ TwoListed
    BY <1>1, <1>2, <1>3, EmptyFound
  <1> QED
    BY <1>1, <1>2, <1>5, <1>6, <1>7 DEF FoundInv

\* A select is changed, ...
LEMMA ChooseSteps ==
  ASSUME FoundInv, NEW ch, Found!Choose(ch)
  PROVE  FoundInv'
  <1>1. /\ latestRow' = latestRow /\ page' = page /\ next' = next
        /\ ch \in page /\ choice' = ch /\ detections' = <<>> /\ below' = 0
        /\ single' = IF Found!Merges(ch) THEN Found!Idle ELSE Found!Asked
        /\ both' = IF both # Found!Idle /\ ch.asks \subseteq both.asks THEN both
                   ELSE IF Found!Merges(ch) THEN Found!Merging(ch) ELSE Found!Idle
        /\ met' = (met \/ next # Found!Idle \/ (both' # Found!Idle /\ ~Found!Merges(ch)))
    BY DEF Found!Choose, Found!Gone
  <1>2. /\ latestRow \in Nat /\ latestRow <= MaxDetections /\ met \in BOOLEAN
        /\ page \in Found!Pages
    BY DEF FoundInv
  <1>3. Chosen(ch)
    BY <1>1, <1>2, ChoiceIs
  <1>4. Found!Idle.at = "idle" /\ Found!Asked.at = "asked"
    BY DEF Found!Idle, Found!Asked
  <1>5. (single'.at # "idle" => ~Found!Merges(ch)) /\ single'.at # "answer"
    BY <1>1, <1>4
  <1>6. met' \in BOOLEAN
    BY <1>1, <1>2, Zenon
  <1>7. ~met' => next.at = "idle"
    <2>1. ~met' => next = Found!Idle
      BY <1>1, Zenon
    <2> QED
      BY <1>4, <2>1
  <1>8. both' # Found!Idle =>
          Got(both', latestRow) /\ (Found!Merges(ch) => both'.asks = ch.asks)
    <2>1. CASE both # Found!Idle /\ ch.asks \subseteq both.asks
      <3>1. both' = both /\ Got(both, latestRow)
        BY <1>1, <2>1 DEF FoundInv
      <3>2. ASSUME Found!Merges(ch) PROVE both.asks = ch.asks
        <4>1. Pair(ch.asks) /\ Pair(both.asks)
          BY <1>3, <3>1, <3>2 DEF Chosen, Got
        <4>2. PICK A, B : ch.asks = {A, B} /\ A # B
          BY <4>1 DEF Pair
        <4>3. PICK C, D : both.asks = {C, D}
          BY <4>1 DEF Pair
        <4> QED
          BY <2>1, <4>2, <4>3
      <3> QED
        BY <3>1, <3>2
    <2>2. CASE ~(both # Found!Idle /\ ch.asks \subseteq both.asks)
      <3>1. both' # Found!Idle => Found!Merges(ch) /\ both' = Found!Merging(ch)
        BY <1>1, <2>2
      <3> QED
        BY <1>3, <3>1, MergingIs DEF Chosen
    <2> QED
      BY <2>1, <2>2
  <1>9. latestRow' \in Nat /\ next'.at = next.at
    BY <1>1, <1>2
  <1>10. ~met' => (OneListed /\ TwoListed)'
    <2> SUFFICES ASSUME next'.at = "idle" PROVE (OneListed /\ TwoListed)'
      BY <1>7, <1>9
    <2>1. /\ \A S : Listed(<<>>, 0, S, latestRow)
          /\ \A S : Between(S, {r \in 1..latestRow : Among(r, <<>>)}, latestRow)
          /\ <<>> \in Seq(1..latestRow) /\ Falling(<<>>)
      BY <1>2, NothingFound
    <2>2. Listed(<<>>, 0, Sought' \cap choice'.keeps \cap (1..latestRow), latestRow)
      BY <2>1
    <2>3. OneListed'
      BY <1>1, <2>2 DEF OneListed
    <2>4. TwoListed'
      BY <1>1, <2>1 DEF TwoListed
    <2> QED
      BY <2>3, <2>4
  <1> QED
    BY <1>1, <1>2, <1>5, <1>6, <1>8, <1>10 DEF FoundInv

LEMMA ListsStand ==
  ASSUME OneListed /\ TwoListed, UNCHANGED <<latestRow, choice, detections, below, next>>
  PROVE  (OneListed /\ TwoListed)'
  BY DEF OneListed, TwoListed, Sought

\* ... the window gets the focus, the one request is answered, ...
LEMMA OneSteps ==
  ASSUME FoundInv, Found!Focus \/ Found!Serve \/ Found!OnFirst
  PROVE  FoundInv'
  <1> DEFINE S == Sought \cap (1..latestRow)
  <1>1. latestRow \in Nat /\ latestRow <= MaxDetections /\ met \in BOOLEAN
        /\ page \in Found!Pages /\ choice \in page
    BY DEF FoundInv
  <1>2. Chosen(choice)
    BY <1>1, ChoiceIs
  <1>3. Found!Idle.at = "idle" /\ Found!Asked.at = "asked"
    BY DEF Found!Idle, Found!Asked
  <1>4. CASE Found!Focus
    <2>1. /\ UNCHANGED <<latestRow, page, choice, detections, below, next, met>>
          /\ single' = IF Found!Merges(choice) THEN Found!Idle ELSE Found!Asked
          /\ both' = IF Found!Merges(choice) THEN Found!Merging(choice) ELSE Found!Idle
      BY <1>4 DEF Found!Focus, Found!table
    <2>2. (single'.at # "idle" => ~Found!Merges(choice)) /\ single'.at # "answer"
      BY <1>3, <2>1
    <2>3. both' # Found!Idle =>
            Got(both', latestRow) /\ (Found!Merges(choice) => both'.asks = choice.asks)
      <3>1. both' # Found!Idle => Found!Merges(choice) /\ both' = Found!Merging(choice)
        BY <2>1
      <3> QED
        BY <1>2, <3>1, MergingIs DEF Chosen
    <2>4. ~met' => (OneListed /\ TwoListed)'
      BY <2>1, ListsStand DEF FoundInv
    <2> QED
      BY <1>1, <2>1, <2>2, <2>3, <2>4 DEF FoundInv
  <1>5. CASE Found!Serve
    <2>1. /\ UNCHANGED <<latestRow, page, choice, detections, below, next, met, both>>
          /\ single = Found!Asked
          /\ single' = Found!Answer(Sought, 0) \/ single' = Found!Idle
      BY <1>5 DEF Found!Serve, Found!table, Found!Gone, Sought
    <2>2. ~Found!Merges(choice)
      BY <1>3, <2>1 DEF FoundInv
    <2>3. single'.at = "answer" => Listed(single'.rows, single'.next, S, latestRow)
      <3>1. PICK T : T = {r \in Sought \cap (1..latestRow) : 0 = 0 \/ r < 0}
        OBVIOUS
      <3>2. T = S /\ T \in SUBSET (1..latestRow)
        BY <3>1
      <3>3. PICK a : a = Found!Answer(Sought, 0)
        OBVIOUS
      <3>4. Page(a.rows, T, a.next)
        BY <1>1, <3>1, <3>3, FoundAnswerIs
      <3>5. Listed(a.rows, a.next, T, latestRow)
        BY <1>1, <3>2, <3>4, PageListed
      <3> QED
        BY <1>3, <2>1, <3>2, <3>3, <3>5
    <2>4. ~met' => (OneListed /\ TwoListed)'
      BY <2>1, ListsStand DEF FoundInv
    <2>5. both' # Found!Idle =>
            Got(both', latestRow) /\ (Found!Merges(choice) => both'.asks = choice.asks)
      BY <2>1 DEF FoundInv
    <2> QED
      BY <1>1, <2>1, <2>2, <2>3, <2>4, <2>5 DEF FoundInv, Sought
  <1>6. CASE Found!OnFirst
    <2>1. /\ UNCHANGED <<latestRow, page, choice, both, next>> /\ single.at = "answer"
          /\ single' = Found!Idle /\ detections' = Found!Kept(single.rows) /\ below' = single.next
          /\ met' = (both # Found!Idle \/ next # Found!Idle)
      BY <1>6 DEF Found!OnFirst
    <2>2. ~Found!Merges(choice) /\ Listed(single.rows, single.next, S, latestRow)
      BY <2>1 DEF FoundInv
    <2>3. detections' = Filtered(single.rows, choice.keeps)
      BY <2>1, FoundCounts DEF Found!Kept
    <2>4. Listed(detections', below', S \cap choice.keeps, latestRow)
      <3>1. S \in SUBSET (1..latestRow)
        OBVIOUS
      <3> QED
        BY <1>1, <2>1, <2>2, <2>3, <3>1, FilteredListed
    <2>5. S \cap choice.keeps = Sought \cap choice.keeps \cap (1..latestRow)
      OBVIOUS
    <2>6. ~met' => next.at = "idle"
      <3>1. ~met' => next = Found!Idle
        BY <2>1, Zenon
      <3> QED
        BY <1>3, <3>1
    <2>7. met' \in BOOLEAN
      BY <2>1, Zenon
    <2>8. ~met' => (OneListed /\ TwoListed)'
      <3> SUFFICES ASSUME next.at = "idle" PROVE (OneListed /\ TwoListed)'
        BY <2>6
      <3>1. OneListed'
        BY <2>1, <2>4, <2>5 DEF OneListed, Sought
      <3>2. TwoListed'
        BY <2>1, <2>2 DEF TwoListed
      <3> QED
        BY <3>1, <3>2
    <2>9. both' # Found!Idle =>
            Got(both', latestRow) /\ (Found!Merges(choice) => both'.asks = choice.asks)
      BY <2>1 DEF FoundInv
    <2>10. single'.at = "idle"
      BY <1>3, <2>1
    <2> QED
      BY <1>1, <2>1, <2>7, <2>8, <2>9, <2>10 DEF FoundInv
  <1> QED
    BY <1>4, <1>5, <1>6

\* ... and "load more".
LEMMA FurtherSteps ==
  ASSUME FoundInv, Found!LoadMore \/ Found!ServeMore \/ Found!OnMore
  PROVE  FoundInv'
  <1> DEFINE S == Sought \cap (1..latestRow)
  <1>1. latestRow \in Nat /\ latestRow <= MaxDetections /\ met \in BOOLEAN
        /\ page \in Found!Pages /\ choice \in page
    BY DEF FoundInv
  <1>2. /\ Found!Idle.at = "idle" /\ S \in SUBSET (1..latestRow)
        /\ S \cap choice.keeps = Sought \cap choice.keeps \cap (1..latestRow)
    BY DEF Found!Idle
  <1>3. UNCHANGED <<latestRow, page, choice, single, both, met>>
    BY DEF Found!LoadMore, Found!ServeMore, Found!OnMore, Found!table
  <1>4. SUFFICES ASSUME ~met PROVE (OneListed /\ TwoListed)'
    <2>1. both' # Found!Idle =>
            Got(both', latestRow) /\ (Found!Merges(choice) => both'.asks = choice.asks)
      BY <1>3 DEF FoundInv
    <2>2. single'.at = "answer" => Listed(single'.rows, single'.next, S, latestRow)
      BY <1>3 DEF FoundInv
    <2>3. single'.at # "idle" => ~Found!Merges(choice)
      BY <1>3 DEF FoundInv
    <2>4. ~met' => (OneListed /\ TwoListed)'
      BY <1>3, <1>4
    <2> QED
      BY <1>1, <1>3, <2>1, <2>2, <2>3, <2>4 DEF FoundInv, Sought
  <1>5. OneListed /\ TwoListed
    BY <1>4 DEF FoundInv
  <1>6. CASE Found!LoadMore
    <2>1. /\ UNCHANGED <<detections, below>> /\ below # 0 /\ ~Found!Merges(choice)
          /\ next' = [at |-> "asked", of |-> Sought, cursor |-> below]
      BY <1>6 DEF Found!LoadMore, Found!table, Found!Gone, Sought
    <2>2. next'.at = "asked" /\ next'.of = Sought /\ next'.cursor = below
      BY <2>1
    <2>3. OneListed'
      BY <1>3, <1>5, <2>1, <2>2 DEF OneListed, Sought
    <2> QED
      BY <1>3, <1>5, <2>1, <2>3 DEF TwoListed
  <1>7. CASE Found!ServeMore
    <2>1. /\ UNCHANGED <<detections, below>> /\ next.at = "asked"
          /\ next' = Found!Answer(next.of, next.cursor) \/ next' = Found!Idle
      BY <1>7 DEF Found!ServeMore, Found!table
    <2>2. ~Found!Merges(choice) /\ next.of = Sought /\ next.cursor = below /\ below # 0
      BY <1>5, <2>1 DEF OneListed
    <2>3. Listed(detections, below, S \cap choice.keeps, latestRow)
      BY <1>2, <1>5, <2>2 DEF OneListed
    <2>4. below \in 1..latestRow
      <3>1. below \in 0..latestRow
        BY <2>3 DEF Listed
      <3> QED
        BY <1>1, <2>2, <3>1
    <2>5. PICK T : T = {r \in Sought \cap (1..latestRow) : below = 0 \/ r < below}
      OBVIOUS
    <2>6. T = {r \in S : r < below}
      BY <2>2, <2>5
    <2>7. PICK a : a = Found!Answer(Sought, below)
      OBVIOUS
    <2>8. a.at = "answer" /\ Page(a.rows, T, a.next)
      BY <1>1, <2>5, <2>7, FoundAnswerIs
    <2>9. Follows(a.rows, a.next, S, latestRow, below)
      BY <1>1, <1>2, <2>4, <2>6, <2>8, PageFollows
    <2>10. OneListed'
      <3>1. CASE next' = a
        BY <1>3, <1>5, <2>1, <2>2, <2>8, <2>9, <3>1 DEF OneListed, Sought
      <3>2. CASE next' = Found!Idle
        BY <1>2, <1>3, <1>5, <2>1, <3>2 DEF OneListed, Sought
      <3> QED
        BY <2>1, <2>2, <2>7, <3>1, <3>2
    <2> QED
      BY <1>3, <1>5, <2>1, <2>10 DEF TwoListed
  <1>8. CASE Found!OnMore
    <2>1. /\ next.at = "answer" /\ next' = Found!Idle
          /\ detections' = detections \o Found!Kept(next.rows) /\ below' = next.next
      BY <1>8 DEF Found!OnMore
    <2>2. /\ ~Found!Merges(choice) /\ Follows(next.rows, next.next, S, latestRow, below)
          /\ Listed(detections, below, S \cap choice.keeps, latestRow)
      BY <1>2, <1>5, <2>1 DEF OneListed
    <2>3. PICK p : p = Filtered(next.rows, choice.keeps)
      OBVIOUS
    <2>4. Follows(p, next.next, S \cap choice.keeps, latestRow, below)
      BY <1>1, <1>2, <2>2, <2>3, FilteredListed
    <2>5. detections' = detections \o p
      BY <2>1, <2>3, FoundCounts DEF Found!Kept
    <2>6. S \cap choice.keeps \in SUBSET (1..latestRow)
      BY <1>2
    <2>7. Listed(detections', below', S \cap choice.keeps, latestRow)
      BY <1>1, <2>1, <2>2, <2>4, <2>5, <2>6, Joined
    <2>8. next'.at = "idle"
      BY <1>2, <2>1
    <2>9. OneListed'
      BY <1>2, <1>3, <2>7, <2>8 DEF OneListed, Sought
    <2> QED
      BY <1>3, <2>2, <2>9 DEF TwoListed
  <1> QED
    BY <1>6, <1>7, <1>8

\* The rows that one of two requests gets are consecutive ones.
LEMMA HalfIs ==
  ASSUME latestRow \in Nat, NEW S, NEW R,
         R = Found!Range(Found!Newest(S \cap (1..latestRow), PageSize \div 2))
  PROVE  R \in SUBSET (S \cap (1..latestRow)) /\ Between(S, R, latestRow)
  <1>1. PICK T, n, q : /\ T = S \cap (1..latestRow) /\ n = PageSize \div 2
                       /\ q = Found!Newest(T, n)
    OBVIOUS
  <1>2. R = {q[i] : i \in DOMAIN q}
    BY <1>1, Zenon DEF Found!Range
  <1>3. n \in Nat
    BY <1>1, FoundSizes
  <1>4. T \in SUBSET (Nat \ {0}) /\ IsFiniteSet(T)
    <2>1. IsFiniteSet(1..latestRow)
      BY FS_Interval
    <2>2. T \in SUBSET (1..latestRow)
      BY <1>1, Zenon
    <2>3. IsFiniteSet(T)
      BY <2>1, <2>2, FS_Subset
    <2> QED
      BY <2>2, <2>3
  <1>5. CASE n = 0
    <2>1. Cardinality(T) \in Nat
      BY <1>4, FS_CardinalityType
    <2>2. (IF Cardinality(T) < n THEN Cardinality(T) ELSE n) = 0
      BY <1>5, <2>1
    <2>3. q = [k \in 1..0 |-> Found!Nth(T, k)]
      BY <1>1, <2>2, FoundCounts, Zenon DEF Found!Newest
    <2>4. DOMAIN q = {}
      BY <2>3
    <2>5. R = {}
      BY <1>2, <2>4
    <2> QED
      BY <2>5 DEF Between
  <1>6. CASE n # 0
    <2>1. PICK end : Page(q, T, end)
      BY <1>1, <1>3, <1>4, <1>6, NewestIs
    <2>2. q \in Seq(T) /\ DOMAIN q = 1..Len(q)
      BY <2>1 DEF Page
    <2>3. \A i \in 1..Len(q) : q[i] \in T
      BY <2>2, ElementOf
    <2>4. R \in SUBSET T
      BY <1>2, <2>2, <2>3
    <2>5. ASSUME NEW r \in S \cap (1..latestRow), NEW x \in R, r >= x
          PROVE  r \in R
      <3>1. PICK i \in 1..Len(q) : q[i] = x
        BY <1>2, <2>2, <2>5
      <3>2. x >= end /\ x \in Nat /\ end \in Nat /\ r \in Nat
        <4>1. x >= end /\ end \in T \cup {0}
          BY <2>1, <3>1 DEF Page
        <4>2. x \in T
          BY <2>3, <3>1
        <4> QED
          BY <1>4, <2>5, <4>1, <4>2
      <3>3. r >= end
        BY <2>5, <3>2
      <3>4. Among(r, q)
        <4>1. r \in T
          BY <1>1, <2>5
        <4> QED
          BY <2>1, <3>3, <4>1 DEF Page
      <3> QED
        BY <1>2, <2>2, <3>4 DEF Among
    <2> QED
      BY <1>1, <2>4, <2>5 DEF Between
  <1> QED
    BY <1>5, <1>6

\* The two requests are answered, and merged.
LEMMA HalfSteps ==
  ASSUME FoundInv, NEW S, Found!ServeHalf(S)
  PROVE  FoundInv'
  <1>1. latestRow \in Nat /\ latestRow <= MaxDetections /\ met \in BOOLEAN
        /\ page \in Found!Pages /\ choice \in page
    BY DEF FoundInv
  <1>2. PICK R : R = Found!Range(Found!Newest(S \cap (1..latestRow), PageSize \div 2))
    OBVIOUS
  <1>3. PICK e : e = [of |-> S, rows |-> R]
    OBVIOUS
  <1>4. /\ UNCHANGED <<latestRow, page, choice, detections, below, single, next, met>>
        /\ both # Found!Idle /\ S \in both.asks /\ \A g \in both.got : g.of # S
        /\ both' = [both EXCEPT !.got = @ \cup {e}] \/ both' = Found!Idle
    BY <1>2, <1>3 DEF Found!ServeHalf, Found!table
  <1>5. Got(both, latestRow) /\ (Found!Merges(choice) => both.asks = choice.asks)
    BY <1>4 DEF FoundInv
  <1>6. R \in SUBSET (S \cap (1..latestRow)) /\ Between(S, R, latestRow)
    BY <1>1, <1>2, HalfIs
  <1>7. PICK b : b = [at |-> "asked", asks |-> both.asks, got |-> both.got \cup {e}]
    OBVIOUS
  <1>8. both' = b \/ both' = Found!Idle
    <2>1. both = [at |-> "asked", asks |-> both.asks, got |-> both.got]
      BY <1>5 DEF Got
    <2>2. [both EXCEPT !.got = @ \cup {e}] = b
      BY <1>7, <2>1
    <2> QED
      BY <1>4, <2>2
  <1>9. b.asks = both.asks /\ b.got = both.got \cup {e} /\ e.of = S /\ e.rows = R
    BY <1>3, <1>7
  <1>10. Got(b, latestRow)
    <2>1. Pair(b.asks) /\ b = [at |-> "asked", asks |-> b.asks, got |-> b.got]
      BY <1>5, <1>7, <1>9 DEF Got
    <2>2. ASSUME NEW g \in b.got
          PROVE  g.of \in b.asks /\ g.rows \in SUBSET (g.of \cap (1..latestRow))
                 /\ Between(g.of, g.rows, latestRow)
      <3>1. CASE g = e
        BY <1>4, <1>6, <1>9, <3>1
      <3>2. CASE g \in both.got
        BY <1>5, <1>9, <3>2 DEF Got
      <3> QED
        BY <1>9, <3>1, <3>2
    <2>3. \A g, h \in b.got : g.of = h.of => g = h
      BY <1>4, <1>5, <1>9 DEF Got
    <2> QED
      BY <2>1, <2>2, <2>3 DEF Got
  <1>11. both' # Found!Idle =>
          Got(both', latestRow) /\ (Found!Merges(choice) => both'.asks = choice.asks)
    BY <1>5, <1>8, <1>9, <1>10
  <1>12. ~met' => (OneListed /\ TwoListed)'
    BY <1>4, ListsStand DEF FoundInv
  <1>13. single'.at = "answer" => Listed(single'.rows, single'.next, Sought \cap (1..latestRow), latestRow)
    BY <1>4 DEF FoundInv
  <1>14. single'.at # "idle" => ~Found!Merges(choice)
    BY <1>4 DEF FoundInv
  <1> QED
    BY <1>1, <1>4, <1>11, <1>12, <1>13, <1>14 DEF FoundInv, Sought

\* Merged, the rows are as consecutive, of each label.
LEMMA MergedIs ==
  ASSUME latestRow \in Nat, NEW b, Got(b, latestRow), NEW q,
         q = Found!Newest(UNION {g.rows : g \in b.got}, PageSize)
  PROVE  /\ q \in Seq(1..latestRow) /\ Falling(q)
         /\ \A S \in b.asks : Between(S, {r \in 1..latestRow : Among(r, q)}, latestRow)
  <1>1. PICK U : U = UNION {g.rows : g \in b.got}
    OBVIOUS
  <1>2. U \in SUBSET (1..latestRow)
    BY <1>1 DEF Got
  <1>3. U \in SUBSET (Nat \ {0}) /\ IsFiniteSet(U)
    <2>1. IsFiniteSet(1..latestRow)
      BY FS_Interval
    <2>2. IsFiniteSet(U)
      BY <1>2, <2>1, FS_Subset
    <2> QED
      BY <1>2, <2>2
  <1>4. PICK end : Page(q, U, end)
    BY <1>1, <1>3, FoundSizes, NewestIs
  <1>5. q \in Seq(U) /\ Len(q) \in Nat /\ DOMAIN q = 1..Len(q)
    BY <1>4 DEF Page
  <1>6. \A i \in 1..Len(q) : q[i] \in U
    BY <1>5, ElementOf
  <1>7. q \in Seq(1..latestRow)
    <2>1. \A i \in 1..Len(q) : q[i] \in 1..latestRow
      BY <1>2, <1>6
    <2> QED
      BY <1>5, <2>1
  <1>8. ASSUME NEW S \in b.asks, NEW r \in S \cap (1..latestRow), NEW x \in S, NEW y \in S,
               Among(x, q), Among(y, q), r >= x, r <= y
        PROVE  Among(r, q)
    <2>1. x \in U /\ y \in U /\ x >= end /\ end \in Nat
      BY <1>3, <1>4, <1>6, <1>8 DEF Among, Page
    <2>2. PICK g \in b.got, h \in b.got : x \in g.rows /\ y \in h.rows
      BY <1>1, <2>1
    <2>3. g.of = S /\ h.of = S
      <3>1. /\ g.of \in b.asks /\ x \in g.of /\ h.of \in b.asks /\ y \in h.of
        BY <2>2 DEF Got
      <3>2. PICK A, B : b.asks = {A, B} /\ A \cap B = {}
        BY DEF Got, Pair
      <3> QED
        BY <1>8, <3>1, <3>2
    <2>4. g = h /\ Between(S, g.rows, latestRow) /\ g.rows \in SUBSET S
      BY <2>2, <2>3 DEF Got
    <2>5. r \in g.rows
      BY <1>8, <2>2, <2>4 DEF Between
    <2>6. r \in U
      BY <1>1, <2>5
    <2>7. r >= end
      BY <1>2, <1>8, <2>1, <2>6
    <2> QED
      BY <1>4, <2>6, <2>7 DEF Page
  <1>9. \A S \in b.asks : Between(S, {r \in 1..latestRow : Among(r, q)}, latestRow)
    BY <1>8 DEF Between
  <1> QED
    BY <1>4, <1>7, <1>9 DEF Page

LEMMA BothSteps ==
  ASSUME FoundInv, Found!OnBoth
  PROVE  FoundInv'
  <1>1. latestRow \in Nat /\ latestRow <= MaxDetections /\ met \in BOOLEAN
        /\ page \in Found!Pages /\ choice \in page
    BY DEF FoundInv
  <1>2. /\ UNCHANGED <<latestRow, page, choice, single, next>> /\ both # Found!Idle
        /\ both' = Found!Idle
        /\ detections' = Found!Newest(UNION {g.rows : g \in both.got}, PageSize)
        /\ met' = (next # Found!Idle \/ ~Found!Merges(choice))
    BY DEF Found!OnBoth
  <1>3. Got(both, latestRow) /\ (Found!Merges(choice) => both.asks = choice.asks)
    BY <1>2 DEF FoundInv
  <1>4. PICK q : q = Found!Newest(UNION {g.rows : g \in both.got}, PageSize)
    OBVIOUS
  <1>5. /\ q \in Seq(1..latestRow) /\ Falling(q)
        /\ \A S \in both.asks : Between(S, {r \in 1..latestRow : Among(r, q)}, latestRow)
    BY <1>1, <1>3, <1>4, MergedIs
  <1>6. met' \in BOOLEAN /\ (~met' => next = Found!Idle /\ Found!Merges(choice))
    BY <1>2, Zenon
  <1>7. ~met' => (OneListed /\ TwoListed)'
    <2> SUFFICES ASSUME next = Found!Idle, Found!Merges(choice)
                 PROVE  (OneListed /\ TwoListed)'
      BY <1>6
    <2>1. next'.at = "idle" /\ choice' = choice
      BY <1>2 DEF Found!Idle
    <2>2. OneListed'
      BY <2>1 DEF OneListed
    <2>3. detections' = q /\ latestRow' = latestRow /\ choice'.asks = both.asks
      BY <1>2, <1>3, <1>4
    <2>4. TwoListed'
      BY <1>5, <2>3 DEF TwoListed
    <2> QED
      BY <2>2, <2>4
  <1>8. single'.at = "answer" => Listed(single'.rows, single'.next, Sought \cap (1..latestRow), latestRow)
    BY <1>2 DEF FoundInv
  <1>9. single'.at # "idle" => ~Found!Merges(choice)
    BY <1>2 DEF FoundInv
  <1> QED
    BY <1>1, <1>2, <1>6, <1>7, <1>8, <1>9 DEF FoundInv, Sought

\* A row is stored.
LEMMA NewFound ==
  ASSUME FoundInv, Found!NewRow
  PROVE  FoundInv'
  <1> DEFINE S == Sought \cap (1..latestRow)
             U == Sought \cap (1..(latestRow + 1))
  <1>1. latestRow \in Nat /\ latestRow <= MaxDetections /\ met \in BOOLEAN
        /\ page \in Found!Pages /\ choice \in page
    BY DEF FoundInv
  <1>2. /\ UNCHANGED <<page, choice, detections, below, single, both, next, met>>
        /\ latestRow < MaxDetections /\ latestRow' = latestRow + 1
    BY DEF Found!NewRow, Found!table, Found!requests
  <1>3. latestRow' \in Nat /\ latestRow' <= MaxDetections
    BY <1>1, <1>2, FoundSizes
  <1>4. /\ S \in SUBSET (1..latestRow) /\ U \subseteq S \cup {latestRow + 1}
        /\ S \cap choice.keeps \in SUBSET (1..latestRow)
        /\ U \cap choice.keeps \subseteq (S \cap choice.keeps) \cup {latestRow + 1}
    BY <1>1
  <1>5. \A q, end, hi :
          /\ Listed(q, end, S, latestRow) => Listed(q, end, U, latestRow + 1)
          /\ Listed(q, end, S \cap choice.keeps, latestRow) =>
               Listed(q, end, U \cap choice.keeps, latestRow + 1)
          /\ Follows(q, end, S, latestRow, hi) => Follows(q, end, U, latestRow + 1, hi)
    BY <1>1, <1>4, Grown
  <1>6. ASSUME NEW A, NEW T \in SUBSET (1..latestRow), Between(A, T, latestRow)
        PROVE  Between(A, T, latestRow + 1)
    <2> SUFFICES ASSUME NEW r \in A \cap (1..(latestRow + 1)), NEW x \in T \cap A, NEW y \in T \cap A,
                        r >= x, r <= y
                 PROVE  r \in T
      BY DEF Between
    <2>1. r \in A \cap (1..latestRow)
      BY <1>1
    <2> QED
      BY <1>6, <2>1 DEF Between
  <1>7. Got(both, latestRow) => Got(both, latestRow + 1)
    <2> SUFFICES ASSUME Got(both, latestRow) PROVE Got(both, latestRow + 1)
      OBVIOUS
    <2>1. ASSUME NEW g \in both.got
          PROVE  /\ g.of \in both.asks /\ g.rows \in SUBSET (g.of \cap (1..(latestRow + 1)))
                 /\ Between(g.of, g.rows, latestRow + 1)
      <3>1. /\ g.of \in both.asks /\ g.rows \in SUBSET (g.of \cap (1..latestRow))
            /\ Between(g.of, g.rows, latestRow)
        BY DEF Got
      <3>2. g.rows \in SUBSET (1..latestRow) /\ 1..latestRow \subseteq 1..(latestRow + 1)
        BY <1>1, <3>1
      <3>3. Between(g.of, g.rows, latestRow + 1)
        BY <1>6, <3>1, <3>2
      <3> QED
        BY <3>1, <3>2, <3>3
    <2> QED
      BY <2>1 DEF Got
  <1>8. OneListed => OneListed'
    <2>1. S \cap choice.keeps = Sought \cap choice.keeps \cap (1..latestRow)
          /\ U \cap choice.keeps = Sought \cap choice.keeps \cap (1..(latestRow + 1))
      OBVIOUS
    <2> QED
      BY <1>2, <1>5, <2>1 DEF OneListed, Sought
  <1>9. TwoListed => TwoListed'
    <2> SUFFICES ASSUME TwoListed, Found!Merges(choice)
                 PROVE  /\ detections \in Seq(1..(latestRow + 1)) /\ Falling(detections)
                        /\ \A A \in choice.asks :
                             Between(A, {r \in 1..(latestRow + 1) : Among(r, detections)}, latestRow + 1)
      BY <1>2 DEF TwoListed
    <2>1. /\ detections \in Seq(1..latestRow) /\ Falling(detections)
          /\ \A A \in choice.asks :
               Between(A, {r \in 1..latestRow : Among(r, detections)}, latestRow)
      BY DEF TwoListed
    <2>2. Len(detections) \in Nat /\ \A i \in 1..Len(detections) : detections[i] \in 1..latestRow
      <3>1. Len(detections) \in Nat /\ DOMAIN detections = 1..Len(detections)
        BY <2>1
      <3> QED
        BY <2>1, <3>1, ElementOf
    <2>3. detections \in Seq(1..(latestRow + 1))
      BY <1>1, <2>1, <2>2
    <2>4. {r \in 1..(latestRow + 1) : Among(r, detections)} = {r \in 1..latestRow : Among(r, detections)}
      BY <1>1, <2>2 DEF Among
    <2> QED
      BY <1>6, <2>1, <2>3, <2>4
  <1>10. single'.at = "answer" => Listed(single'.rows, single'.next, U, latestRow + 1)
    BY <1>2, <1>5 DEF FoundInv
  <1>11. both' # Found!Idle =>
           Got(both', latestRow + 1) /\ (Found!Merges(choice) => both'.asks = choice.asks)
    BY <1>2, <1>7 DEF FoundInv
  <1>12. single'.at # "idle" => ~Found!Merges(choice)
    BY <1>2 DEF FoundInv
  <1>13. ~met' => (OneListed /\ TwoListed)'
    BY <1>2, <1>8, <1>9 DEF FoundInv
  <1> QED
    BY <1>1, <1>2, <1>3, <1>10, <1>11, <1>12, <1>13 DEF FoundInv, Sought

LEMMA FoundKept == FoundInv /\ (Found!Next \/ UNCHANGED found) => FoundInv'
  <1>1. FoundInv /\ UNCHANGED found => FoundInv'
    <2> SUFFICES ASSUME FoundInv, UNCHANGED found PROVE FoundInv'
      OBVIOUS
    <2>1. UNCHANGED <<latestRow, page, choice, detections, below, single, both, next, met>>
      BY DEF found
    <2>2. ~met' => (OneListed /\ TwoListed)'
      BY <2>1, ListsStand DEF FoundInv
    <2> QED
      BY <2>1, <2>2 DEF FoundInv, Sought
  <1>2. FoundInv /\ Found!Next => FoundInv'
    BY ChooseSteps, OneSteps, FurtherSteps, HalfSteps, BothSteps, NewFound DEF Found!Next
  <1> QED
    BY <1>1, <1>2

LEMMA FoundSays == FoundInv => Found!NoSkip
  <1> SUFFICES ASSUME FoundInv, ~met PROVE /\ Found!IsInjective(detections)
                 /\ \A S \in choice.asks : \A r \in S \cap choice.keeps \cap (1..latestRow) :
                      (/\ \E x \in Found!Range(detections) \cap S : r <= x
                       /\ IF Found!Merges(choice)
                          THEN \E x \in Found!Range(detections) \cap S : r >= x
                          ELSE r >= below)
                      => r \in Found!Range(detections) \cap S
    BY DEF Found!NoSkip
  <1>1. OneListed /\ TwoListed /\ latestRow \in Nat /\ page \in Found!Pages /\ choice \in page
    BY DEF FoundInv
  <1>2. Chosen(choice)
    BY <1>1, ChoiceIs
  <1>3. detections \in Seq(1..latestRow) /\ Falling(detections)
    BY <1>1 DEF OneListed, TwoListed, Listed
  <1>4. /\ Len(detections) \in Nat /\ DOMAIN detections = 1..Len(detections)
        /\ \A i \in 1..Len(detections) : detections[i] \in 1..latestRow
    <2>1. Len(detections) \in Nat /\ DOMAIN detections = 1..Len(detections)
      BY <1>3
    <2> QED
      BY <1>3, <2>1, ElementOf
  <1>5. Found!IsInjective(detections)
    <2> SUFFICES ASSUME NEW i \in 1..Len(detections), NEW j \in 1..Len(detections),
                        detections[i] = detections[j]
                 PROVE  i = j
      BY <1>4 DEF Found!IsInjective
    <2> QED
      BY <1>3, <1>4 DEF Falling
  <1>6. \A r : r \in Found!Range(detections) <=> r \in 1..latestRow /\ Among(r, detections)
    BY <1>4 DEF Found!Range, Among
  <1>7. ASSUME NEW S \in choice.asks, NEW r \in S \cap choice.keeps \cap (1..latestRow),
               NEW x \in S, Among(x, detections), x \in 1..latestRow, r <= x,
               IF Found!Merges(choice)
               THEN \E y \in S : y \in 1..latestRow /\ Among(y, detections) /\ r >= y
               ELSE r >= below
        PROVE  Among(r, detections)
    <2>1. CASE Found!Merges(choice)
      BY <1>1, <1>7, <2>1 DEF TwoListed, Between
    <2>2. CASE ~Found!Merges(choice)
      <3>1. S = Sought
        BY <1>2, <2>2 DEF Chosen, Sought
      <3>2. Listed(detections, below, Sought \cap choice.keeps \cap (1..latestRow), latestRow)
        BY <1>1, <2>2 DEF OneListed
      <3>3. PICK i \in 1..Len(detections) : detections[i] = x
        BY <1>7 DEF Among
      <3>4. Len(detections) > 0 /\ 1 \in 1..Len(detections) /\ x <= detections[1]
        BY <1>3, <1>4, <3>3 DEF Falling
      <3>5. r <= detections[1]
        BY <1>4, <1>7, <3>4
      <3> QED
        BY <1>7, <2>2, <3>1, <3>2, <3>4, <3>5 DEF Listed
    <2> QED
      BY <2>1, <2>2
  <1> QED
    BY <1>5, <1>6, <1>7

(* However new rows, deletions, refreshes, searches and "load more" follow *)
(* each other, for any rows, filters, choices and sizes of a page, a list  *)
(* that no two answers have met for shows each row once and skips none     *)
(* down to its cursor (list_events, Events.tsx, pages/plugins).            *)
THEOREM NothingIsSkipped == Spec => []NoSkip
  <1>1. Init => ListInv /\ FoundInv
    BY InitList, InitFound DEF Init
  <1>2. ListInv /\ FoundInv /\ [Next]_vars => (ListInv /\ FoundInv)'
    <2> SUFFICES ASSUME ListInv, FoundInv, [Next]_vars PROVE (ListInv /\ FoundInv)'
      OBVIOUS
    <2>1. List!Next \/ UNCHANGED list
      BY DEF Next, vars
    <2>2. Found!Next \/ UNCHANGED found
      BY DEF Next, vars
    <2> QED
      BY <2>1, <2>2, ListKept, FoundKept
  <1>3. ListInv /\ FoundInv => NoSkip
    BY ListSays, FoundSays DEF NoSkip
  <1> QED
    BY <1>1, <1>2, <1>3, PTL DEF Spec

-----------------------------------------------------------------------------
(* The forms of the settings.                                              *)

WholeRows(kept) == \A r \in DOMAIN kept : DOMAIN kept[r] = Forms!Fields

\* A form has, in a field that was not typed in, what it was filled with.
FormInv ==
  /\ WholeRows(records) /\ DOMAIN intended = DOMAIN records /\ WholeRows(listed)
  /\ listing.at = "answer" => WholeRows(listing.rows)
  /\ DOMAIN form = Forms!Fields /\ \A f \in Forms!Fields \ typedIn : form[f] = base[f]
  /\ update.at = "asked" =>
       \A f \in Forms!Fields \ update.edited : update.body[f] = update.base[f]
  /\ create.at = "asked" => DOMAIN create.body = Forms!Fields
  /\ Forms!AsMeant

LEMMA FormInit == Forms!Init => FormInv
  <1> SUFFICES ASSUME Forms!Init PROVE FormInv
    OBVIOUS
  <1>1. /\ listed = <<>> /\ listing.at # "answer" /\ update.at # "asked" /\ create.at # "asked"
        /\ form = base /\ DOMAIN form = Forms!Fields /\ intended = records
    BY DEF Forms!Init, Forms!Asked, Forms!Idle, Forms!Unset
  <1>2. WholeRows(listed)
    BY <1>1 DEF WholeRows
  <1>3. WholeRows(records)
    <2>1. CASE dialog
      BY <2>1, Parameters DEF Forms!Init, Forms!Filled, WholeRows
    <2>2. CASE ~dialog
      <3> DEFINE r == CHOOSE r \in DOMAIN RowsAtStart : TRUE
      <3>1. DOMAIN RowsAtStart # {} /\ records = [x \in {r} |-> RowsAtStart[x]]
        BY <2>2 DEF Forms!Init, Forms!Restrict
      <3>2. r \in DOMAIN RowsAtStart
        BY <3>1
      <3> QED
        BY <3>1, <3>2, Parameters DEF Forms!Filled, WholeRows
    <2> QED
      BY <2>1, <2>2
  <1> QED
    BY <1>1, <1>2, <1>3 DEF FormInv, Forms!AsMeant

\* The list, and what is opened from it.
LEMMA FormOpens ==
  ASSUME FormInv,
         \/ Forms!Focus \/ Forms!Serve \/ Forms!OnList \/ Forms!OpenCreate \/ Forms!Close
         \/ \E r \in RowIds : Forms!OpenEdit(r)
         \/ Forms!OnSaved \/ Forms!OnCreated
  PROVE  FormInv'
  <1> DEFINE Whole(f, b, t) == DOMAIN f = Forms!Fields /\ \A x \in Forms!Fields \ t : f[x] = b[x]
  <1>1. UNCHANGED <<records, intended, lost>>
    BY DEF Forms!Focus, Forms!Serve, Forms!OnList, Forms!OpenCreate, Forms!Close, Forms!OpenEdit,
           Forms!OnSaved, Forms!OnCreated, Forms!Settled, Forms!history
  <1>2. /\ update'.at = "asked" => UNCHANGED update
        /\ create'.at = "asked" => UNCHANGED create
    BY DEF Forms!Focus, Forms!Serve, Forms!OnList, Forms!OpenCreate, Forms!Close, Forms!OpenEdit,
           Forms!OnSaved, Forms!OnCreated, Forms!Settled, Forms!writes, Forms!Idle
  <1>3. \/ UNCHANGED listed
        \/ listing.at = "answer" /\ listed' = listing.rows
    BY DEF Forms!Focus, Forms!Serve, Forms!OnList, Forms!OpenCreate, Forms!Close, Forms!OpenEdit,
           Forms!OnSaved, Forms!OnCreated, Forms!Settled
  <1>4. \/ UNCHANGED listing \/ listing'.at # "answer"
        \/ listing' = [at |-> "answer", rows |-> [r \in DOMAIN records |-> Forms!Show(records[r])]]
    BY DEF Forms!Focus, Forms!Serve, Forms!OnList, Forms!OpenCreate, Forms!Close, Forms!OpenEdit,
           Forms!OnSaved, Forms!OnCreated, Forms!Settled, Forms!Refetched, Forms!Idle, Forms!Asked
  <1>5. \/ UNCHANGED <<form, base, typedIn>>
        \/ form' = base' /\ typedIn' = {} /\ DOMAIN form' = Forms!Fields
    <2>1. CASE Forms!OnList
      BY <2>1 DEF Forms!OnList, Forms!dialogs, FormInv, WholeRows
    <2>2. CASE \E r \in RowIds : Forms!OpenEdit(r)
      BY <2>2 DEF Forms!OpenEdit, FormInv, WholeRows
    <2>3. CASE Forms!OpenCreate \/ Forms!Close \/ Forms!OnSaved \/ Forms!OnCreated
      BY <2>3 DEF Forms!OpenCreate, Forms!Close, Forms!OnSaved, Forms!OnCreated, Forms!Settled,
                  Forms!Closed, Forms!Unset, Forms!dialogs
    <2> QED
      BY <2>1, <2>2, <2>3 DEF Forms!Focus, Forms!Serve, Forms!dialogs
  <1>6. WholeRows(records)' /\ (DOMAIN intended = DOMAIN records)' /\ Forms!AsMeant'
    BY <1>1 DEF FormInv, WholeRows, Forms!AsMeant
  <1>7. WholeRows(listed)'
    BY <1>3 DEF FormInv, WholeRows
  <1>8. (listing.at = "answer" => WholeRows(listing.rows))'
    BY <1>4 DEF FormInv, WholeRows, Forms!Show
  <1>9. Whole(form', base', typedIn')
    BY <1>5 DEF FormInv
  <1> HIDE DEF Whole
  <1>10. (update.at = "asked" =>
           \A f \in Forms!Fields \ update.edited : update.body[f] = update.base[f])'
    BY <1>2 DEF FormInv
  <1>11. (create.at = "asked" => DOMAIN create.body = Forms!Fields)'
    BY <1>2 DEF FormInv
  <1> QED
    BY <1>6, <1>7, <1>8, <1>9, <1>10, <1>11 DEF FormInv, Whole

LEMMA FormWrites ==
  ASSUME FormInv,
         \/ Forms!Submit
         \/ \E r \in RowIds : Forms!SubmitNew(r)
         \/ \E f \in Forms!Fields, v \in Entries \cup {Forms!Blank} : Forms!Type(f, v)
  PROVE  FormInv'
  <1>1. UNCHANGED <<records, intended, lost, listed, listing, base>>
    BY DEF Forms!Submit, Forms!SubmitNew, Forms!Type, Forms!dialogs, Forms!history
  <1>2. CASE Forms!Submit
    <2>1. UNCHANGED <<form, typedIn, create>>
          /\ update' = [at |-> "asked", of |-> open, body |-> form, base |-> base, edited |-> typedIn]
      BY <1>2 DEF Forms!Submit, Forms!dialogs
    <2> QED
      BY <1>1, <2>1 DEF FormInv, WholeRows, Forms!AsMeant
  <1>3. CASE \E r \in RowIds : Forms!SubmitNew(r)
    <2>1. UNCHANGED <<form, typedIn, update>>
          /\ \E r \in RowIds : create' = [at |-> "asked", of |-> r, body |-> form]
      BY <1>3 DEF Forms!SubmitNew, Forms!dialogs
    <2> QED
      BY <1>1, <2>1 DEF FormInv, WholeRows, Forms!AsMeant
  <1>4. CASE \E f \in Forms!Fields, v \in Entries \cup {Forms!Blank} : Forms!Type(f, v)
    <2>1. PICK f \in Forms!Fields, v \in Entries \cup {Forms!Blank} : Forms!Type(f, v)
      BY <1>4
    <2>2. UNCHANGED <<update, create>> /\ form' = [form EXCEPT ![f] = v] /\ typedIn' = typedIn \cup {f}
      BY <2>1 DEF Forms!Type, Forms!writes
    <2> QED
      BY <1>1, <2>2 DEF FormInv, WholeRows, Forms!AsMeant
  <1> QED
    BY <1>2, <1>3, <1>4

LEMMA FormStores ==
  ASSUME FormInv,
         \/ Forms!Update \/ Forms!Create
         \/ \E r \in RowIds : Forms!Delete(r) \/ \E v \in Entries : Forms!Elsewhere(r, v)
  PROVE  FormInv'
  <1>1. UNCHANGED <<listed, form, base, typedIn>>
    BY DEF Forms!Update, Forms!Create, Forms!Delete, Forms!Elsewhere, Forms!dialogs
  <1>2. UNCHANGED listing \/ listing'.at # "answer"
    <2>1. ASSUME NEW r \in RowIds, Forms!Delete(r)
          PROVE  UNCHANGED listing \/ listing'.at # "answer"
      BY <2>1 DEF Forms!Delete, Forms!Refetched, Forms!Asked
    <2> QED
      BY <2>1 DEF Forms!Update, Forms!Create, Forms!Elsewhere
  <1>3. /\ update'.at = "asked" => UNCHANGED update
        /\ create'.at = "asked" => UNCHANGED create
    <2>1. CASE Forms!Update
      <3>1. update'.at # "asked" /\ UNCHANGED create
        BY <2>1 DEF Forms!Update
      <3> QED
        BY <3>1
    <2>2. CASE Forms!Create
      <3>1. create'.at # "asked" /\ UNCHANGED update
        BY <2>2 DEF Forms!Create
      <3> QED
        BY <3>1
    <2> QED
      BY <2>1, <2>2 DEF Forms!Delete, Forms!Elsewhere, Forms!writes
  <1>4. WholeRows(records)' /\ (DOMAIN intended = DOMAIN records)' /\ Forms!AsMeant'
    <2>1. WholeRows(records) /\ DOMAIN intended = DOMAIN records /\ Forms!AsMeant
      BY DEF FormInv
    <2>2. CASE UNCHANGED <<records, intended, lost>>
      BY <2>1, <2>2 DEF WholeRows, Forms!AsMeant
    <2>3. CASE Forms!Update /\ ~UNCHANGED <<records, intended, lost>>
      <3> DEFINE r == update.of
                 m == [f \in Forms!Fields |->
                         IF f \in update.edited /\ update.body[f] # Forms!Blank
                         THEN update.body[f] ELSE intended[r][f]]
      <3>1. /\ update.at = "asked" /\ r \in DOMAIN records
            /\ records' = [records EXCEPT ![r] = Forms!Merged(records[r], update.body)]
            /\ intended' = [intended EXCEPT ![r] = m]
            /\ lost' = IF update.base = Forms!Show(records[r]) THEN lost ELSE lost \cup {r}
        BY <2>3 DEF Forms!Update, Forms!history
      <3>2. DOMAIN m = Forms!Fields /\ DOMAIN Forms!Merged(records[r], update.body) = Forms!Fields
        BY DEF Forms!Merged
      <3>3. r \notin lost' => Forms!Merged(records[r], update.body) = m
        <4> SUFFICES ASSUME r \notin lost' PROVE Forms!Merged(records[r], update.body) = m
          OBVIOUS
        <4>1. update.base = Forms!Show(records[r]) /\ records[r] = intended[r]
          BY <2>1, <3>1 DEF Forms!AsMeant
        <4>2. \A f \in Forms!Fields \ update.edited : update.body[f] = update.base[f]
          BY <3>1 DEF FormInv
        <4>3. DOMAIN records[r] = Forms!Fields
          BY <2>1, <3>1 DEF WholeRows
        <4>4. \A f \in Forms!Fields :
                (IF update.body[f] = Forms!Blank THEN records[r][f] ELSE update.body[f])
                  = IF f \in update.edited /\ update.body[f] # Forms!Blank
                    THEN update.body[f] ELSE records[r][f]
          <5> HIDE DEF r
          <5>1. \A f \in Forms!Fields \ update.edited :
                  update.body[f] = Forms!Show(records[r])[f]
            BY <4>1, <4>2
          <5>2. Forms!Show(records[r]) = [records[r] EXCEPT !["hidden"] = Forms!Blank]
            BY DEF Forms!Show
          <5>3. \A f \in Forms!Fields \ update.edited :
                  update.body[f] # Forms!Blank => update.body[f] = records[r][f]
            BY <4>3, <5>1, <5>2 DEF Forms!Fields
          <5> QED
            BY <5>3
        <4> QED
          BY <4>1, <4>4 DEF Forms!Merged
      <3> HIDE DEF m, r
      <3> QED
        BY <2>1, <3>1, <3>2, <3>3 DEF WholeRows, Forms!AsMeant
    <2>4. CASE Forms!Create /\ ~UNCHANGED <<records, intended, lost>>
      <3>1. /\ create.at = "asked" /\ create.of \notin DOMAIN records
            /\ records' = [r \in DOMAIN records \cup {create.of} |->
                             IF r = create.of THEN create.body ELSE records[r]]
            /\ intended' = [r \in DOMAIN records' |->
                             IF r = create.of THEN create.body ELSE intended[r]]
            /\ lost' = lost
        BY <2>4 DEF Forms!Create
      <3>2. DOMAIN create.body = Forms!Fields
        BY <3>1 DEF FormInv
      <3> QED
        BY <2>1, <3>1, <3>2 DEF WholeRows, Forms!AsMeant
    <2>5. ASSUME NEW r \in RowIds, Forms!Delete(r)
          PROVE  WholeRows(records)' /\ (DOMAIN intended = DOMAIN records)' /\ Forms!AsMeant'
      <3>1. /\ records' = [x \in DOMAIN records \ {r} |-> records[x]]
            /\ intended' = [x \in DOMAIN records \ {r} |-> intended[x]]
            /\ lost' = lost \ {r}
        BY <2>5 DEF Forms!Delete, Forms!Restrict
      <3> QED
        BY <2>1, <3>1 DEF WholeRows, Forms!AsMeant
    <2>6. ASSUME NEW r \in RowIds, NEW v \in Entries, Forms!Elsewhere(r, v)
          PROVE  WholeRows(records)' /\ (DOMAIN intended = DOMAIN records)' /\ Forms!AsMeant'
      <3>1. /\ records' = [records EXCEPT ![r] = [records[r] EXCEPT !["shown"] = v]]
            /\ intended' = [intended EXCEPT ![r] = [intended[r] EXCEPT !["shown"] = v]]
            /\ lost' = lost /\ r \in DOMAIN records
        BY <2>6 DEF Forms!Elsewhere
      <3>2. DOMAIN records' = DOMAIN records /\ DOMAIN intended' = DOMAIN records
            /\ \A x \in DOMAIN records : DOMAIN records'[x] = DOMAIN records[x]
        BY <2>1, <3>1
      <3>3. \A x \in DOMAIN records \ lost : records'[x] = intended'[x]
        BY <2>1, <3>1 DEF Forms!AsMeant
      <3> QED
        BY <2>1, <3>1, <3>2, <3>3 DEF WholeRows, Forms!AsMeant
    <2> QED
      BY <2>2, <2>3, <2>4, <2>5, <2>6
  <1>5. (listing.at = "answer" => WholeRows(listing.rows))'
    BY <1>2 DEF FormInv, WholeRows
  <1>6. WholeRows(listed)'
    BY <1>1 DEF FormInv, WholeRows
  <1>7. (DOMAIN form = Forms!Fields /\ \A f \in Forms!Fields \ typedIn : form[f] = base[f])'
    BY <1>1 DEF FormInv
  <1>8. (update.at = "asked" =>
           \A f \in Forms!Fields \ update.edited : update.body[f] = update.base[f])'
    BY <1>3 DEF FormInv
  <1>9. (create.at = "asked" => DOMAIN create.body = Forms!Fields)'
    BY <1>3 DEF FormInv
  <1> QED
    BY <1>4, <1>5, <1>6, <1>7, <1>8, <1>9 DEF FormInv

LEMMA FormKept == FormInv /\ (Forms!Next \/ UNCHANGED forms) => FormInv'
  <1>1. FormInv /\ UNCHANGED forms => FormInv'
    BY DEF forms, FormInv, WholeRows, Forms!AsMeant
  <1>2. FormInv /\ Forms!Next => FormInv'
    BY FormOpens, FormWrites, FormStores DEF Forms!Next, Forms!User
  <1> QED
    BY <1>1, <1>2

-----------------------------------------------------------------------------
(* The wizards.                                                            *)

Answering(u, r) == u \in online \/ r

WizardInv ==
  /\ test # Wizard!Idle => test.url = url \/ retyped
  /\ result = "online" \/ step \in {2, 3} => Answering(url, retyped)
  /\ creating.at = "asked" => Answering(creating.url, creating.retyped)
  /\ Wizard!OnlyTested

\* The steps behind the one that is shown are valid.
CamInv ==
  /\ stage \in 1..5
  /\ \A n \in 1..4 : n < stage => CamWizard!Valid(n)
  /\ CamWizard!SentIsValid

LEMMA WizardInit == Wizard!Init => WizardInv
  BY DEF Wizard!Init, WizardInv, Wizard!Unset, Wizard!Idle, Wizard!OnlyTested

LEMMA WizardKept == WizardInv /\ (Wizard!Next \/ UNCHANGED wizard) => WizardInv'
  <1> SUFFICES ASSUME WizardInv, Wizard!Next \/ UNCHANGED wizard PROVE WizardInv'
    OBVIOUS
  <1>1. CASE UNCHANGED wizard
    BY <1>1 DEF wizard, WizardInv, Answering, Wizard!OnlyTested
  <1>2. ASSUME NEW u \in Urls, Wizard!TypeUrl(u) PROVE WizardInv'
    <2>1. /\ UNCHANGED <<test, creating, servers, online, step>> /\ step = 1
          /\ result' = "unset" /\ (test # Wizard!Idle => retyped')
      BY <1>2, Zenon DEF Wizard!TypeUrl, Wizard!calls, Wizard!Unset
    <2> QED
      BY <2>1 DEF WizardInv, Answering, Wizard!OnlyTested
  <1>3. CASE Wizard!Test
    <2>1. /\ UNCHANGED <<creating, servers, online, step, url>> /\ step = 1
          /\ result' = "unset" /\ test' = [at |-> "asked", url |-> url]
      BY <1>3 DEF Wizard!Test, Wizard!entered, Wizard!Unset
    <2> QED
      BY <2>1 DEF WizardInv, Answering, Wizard!OnlyTested
  <1>4. CASE Wizard!Tested
    <2>1. /\ UNCHANGED <<creating, servers, step, url, retyped>>
          /\ test # Wizard!Idle /\ test' = Wizard!Idle
          /\ \/ result' = "online" /\ online' = online \cup {test.url}
             \/ result' = "offline" /\ UNCHANGED online
      BY <1>4 DEF Wizard!Tested, Wizard!entered
    <2>2. online \subseteq online'
      BY <2>1
    <2>3. result' = "online" => Answering(url, retyped)'
      BY <2>1 DEF WizardInv, Answering
    <2> QED
      BY <2>1, <2>2, <2>3 DEF WizardInv, Answering, Wizard!OnlyTested
  <1>5. CASE Wizard!Step1Next \/ Wizard!Describe \/ Wizard!Step2Next \/ Wizard!Back \/ Wizard!Close
    <2>1. /\ UNCHANGED <<result, url, test, creating, servers, online, retyped>>
          /\ result = "online" \/ step \in {2, 3} \/ step' \notin {2, 3}
      BY <1>5 DEF Wizard!Step1Next, Wizard!Describe, Wizard!Step2Next, Wizard!Back, Wizard!Close,
                  Wizard!entered, Wizard!calls
    <2> QED
      BY <2>1 DEF WizardInv, Answering, Wizard!OnlyTested
  <1>6. CASE Wizard!Submit
    <2>1. /\ UNCHANGED <<step, result, url, test, servers, online, retyped>> /\ step = 3
          /\ creating' = [at |-> "asked", name |-> name, url |-> url, mqtt |-> mqtt,
                          retyped |-> retyped]
      BY <1>6 DEF Wizard!Submit, Wizard!entered
    <2> QED
      BY <2>1 DEF WizardInv, Answering, Wizard!OnlyTested
  <1>7. CASE Wizard!Create
    <2>1. /\ UNCHANGED <<step, result, url, test, online, retyped>>
          /\ creating'.at # "asked" /\ creating.at = "asked"
          /\ servers' \subseteq servers
               \cup {[name |-> creating.name, url |-> creating.url, retyped |-> creating.retyped]}
      BY <1>7 DEF Wizard!Create, Wizard!entered
    <2> QED
      BY <2>1 DEF WizardInv, Answering, Wizard!OnlyTested
  <1>8. CASE Wizard!OnCreate \/ Wizard!Synced
    <2>1. /\ UNCHANGED <<step, result, url, test, servers, online, retyped>>
          /\ creating'.at = "asked" => UNCHANGED creating
      BY <1>8 DEF Wizard!OnCreate, Wizard!Synced, Wizard!entered, Wizard!Idle
    <2> QED
      BY <2>1 DEF WizardInv, Answering, Wizard!OnlyTested
  <1> QED
    BY <1>1, <1>2, <1>3, <1>4, <1>5, <1>6, <1>7, <1>8 DEF Wizard!Next, Wizard!User

LEMMA CamInit == CamWizard!Init => CamInv
  <1> SUFFICES ASSUME CamWizard!Init PROVE CamInv
    OBVIOUS
  <1>1. stage = 1 /\ add = CamWizard!Idle
    BY DEF CamWizard!Init
  <1>2. CamWizard!SentIsValid
    BY <1>1 DEF CamWizard!SentIsValid
  <1>3. stage \in 1..5 /\ \A n \in 1..4 : ~(n < stage)
    BY <1>1
  <1> QED
    BY <1>2, <1>3 DEF CamInv

LEMMA CamKept == CamInv /\ (CamWizard!Next \/ UNCHANGED camwiz) => CamInv'
  <1> SUFFICES ASSUME CamInv, CamWizard!Next \/ UNCHANGED camwiz PROVE CamInv'
    OBVIOUS
  <1>1. CASE UNCHANGED camwiz
    BY <1>1 DEF camwiz, CamInv, CamWizard!Valid, CamWizard!SentIsValid
  <1>2. CASE CamWizard!Choose
    <2>1. /\ UNCHANGED <<stage, add>> /\ stage \in {1, 2, 4}
          /\ stage # 1 => UNCHANGED serverId
          /\ stage # 2 => UNCHANGED <<cameraName, displayName, rtspMain>>
          /\ stage # 4 => UNCHANGED recordDays
      BY <1>2 DEF CamWizard!Choose
    <2>2. \A n \in 1..4 : n < stage => CamWizard!Valid(n)'
      BY <2>1 DEF CamInv, CamWizard!Valid
    <2> QED
      BY <2>1, <2>2 DEF CamInv, CamWizard!SentIsValid
  <1>3. CASE CamWizard!StepForward
    <2>1. /\ UNCHANGED <<serverId, cameraName, displayName, rtspMain, recordDays, add>>
          /\ stage < 5
          /\ \/ stage' = stage
             \/ CamWizard!Valid(stage) /\ stage' = stage + 1
      BY <1>3 DEF CamWizard!StepForward, CamWizard!fields
    <2>2. \A n \in 1..4 : CamWizard!Valid(n) => CamWizard!Valid(n)'
      BY <2>1 DEF CamWizard!Valid
    <2>3. stage' \in 1..5 /\ \A n \in 1..4 : n < stage' => CamWizard!Valid(n)
      BY <2>1 DEF CamInv
    <2> QED
      BY <2>1, <2>2, <2>3 DEF CamInv, CamWizard!SentIsValid
  <1>4. CASE CamWizard!StepBack
    <2>1. /\ UNCHANGED <<serverId, cameraName, displayName, rtspMain, recordDays, add>>
          /\ stage > 1 /\ stage' = stage - 1
      BY <1>4 DEF CamWizard!StepBack, CamWizard!fields
    <2>2. \A n \in 1..4 : CamWizard!Valid(n) => CamWizard!Valid(n)'
      BY <2>1 DEF CamWizard!Valid
    <2>3. stage' \in 1..5 /\ \A n \in 1..4 : n < stage' => CamWizard!Valid(n)
      BY <2>1 DEF CamInv
    <2> QED
      BY <2>1, <2>2, <2>3 DEF CamInv, CamWizard!SentIsValid
  <1>5. CASE CamWizard!Submit
    <2>1. /\ UNCHANGED <<stage, serverId, cameraName, displayName, rtspMain, recordDays>>
          /\ stage = 5
          /\ add' = [at |-> "asked", server |-> serverId, name |-> cameraName,
                     display |-> displayName, main |-> rtspMain, days |-> recordDays]
      BY <1>5 DEF CamWizard!Submit, CamWizard!fields
    <2>2. CamWizard!Valid(1) /\ CamWizard!Valid(2) /\ CamWizard!Valid(4)
      BY <2>1 DEF CamInv
    <2>3. \A n \in 1..4 : CamWizard!Valid(n) => CamWizard!Valid(n)'
      BY <2>1 DEF CamWizard!Valid
    <2>4. /\ serverId # CamWizard!Unset /\ cameraName /\ displayName /\ rtspMain = "rtsp"
          /\ recordDays >= 1
      BY <2>2 DEF CamWizard!Valid
    <2>5. CamWizard!SentIsValid'
      BY <2>1, <2>4 DEF CamWizard!SentIsValid
    <2> QED
      BY <2>1, <2>3, <2>5 DEF CamInv
  <1>6. CASE CamWizard!Added
    <2>1. UNCHANGED <<stage, serverId, cameraName, displayName, rtspMain, recordDays>>
          /\ add' = CamWizard!Idle
      BY <1>6 DEF CamWizard!Added, CamWizard!fields
    <2> QED
      BY <2>1 DEF CamInv, CamWizard!Valid, CamWizard!SentIsValid
  <1>7. CASE CamWizard!AddAnother
    <2>1. stage' = 1 /\ UNCHANGED add
      BY <1>7 DEF CamWizard!AddAnother
    <2> QED
      BY <2>1 DEF CamInv, CamWizard!SentIsValid
  <1>8. CASE CamWizard!Finish \/ CamWizard!Leave
    <2>1. UNCHANGED <<stage, serverId, cameraName, displayName, rtspMain, recordDays, add>>
      BY <1>8 DEF CamWizard!Finish, CamWizard!Leave, CamWizard!fields
    <2> QED
      BY <2>1 DEF CamInv, CamWizard!Valid, CamWizard!SentIsValid
  <1> QED
    BY <1>1, <1>2, <1>3, <1>4, <1>5, <1>6, <1>7, <1>8 DEF CamWizard!Next, CamWizard!User

-----------------------------------------------------------------------------
(* The editor of a configuration.                                          *)

EditorType ==
  /\ configured \in Editor!Configs /\ formValue \in Editor!Configs /\ typed \in Editor!Configs
  /\ tgCfg \in Telegrams /\ raw \in Editor!Configs \cup {Invalid}
  /\ rawMode \in BOOLEAN /\ tgTyped \in BOOLEAN /\ rawUsed \in BOOLEAN /\ dropped \in BOOLEAN
  /\ saveMut # Editor!Idle => saveMut.config \in Editor!Configs

\* What is shown, unless the text is not valid, and the form's Telegram
\* settings are what was edited last.
InForms ==
  /\ typed.telegram = tgCfg
  /\ ~rawMode => typed.field = formValue.field
  /\ rawMode /\ raw # Invalid => typed.field = raw.field
  /\ ~tgTyped =>
       formValue.telegram = tgCfg /\ (rawMode /\ raw # Invalid => raw.telegram = tgCfg)

EditorInv ==
  /\ EditorType
  /\ rawMode => rawUsed
  /\ ~dropped /\ ~(tgTyped /\ rawUsed) => InForms
  /\ Editor!AsTyped

\* A configuration is told by its two parts.
LEMMA ConfigIs ==
  ASSUME NEW c \in Editor!Configs, NEW t \in Telegrams, NEW f \in FieldValues
  PROVE  /\ [c EXCEPT !.telegram = t] \in Editor!Configs
         /\ [c EXCEPT !.telegram = t].telegram = t
         /\ [c EXCEPT !.telegram = t].field = c.field
         /\ [c EXCEPT !.field = f] \in Editor!Configs
         /\ [c EXCEPT !.field = f].field = f
         /\ [c EXCEPT !.field = f].telegram = c.telegram
         /\ c.telegram \in Telegrams /\ c.field \in FieldValues
  BY DEF Editor!Configs

LEMMA ConfigTold ==
  ASSUME NEW c \in Editor!Configs, NEW d \in Editor!Configs,
         c.field = d.field, c.telegram = d.telegram
  PROVE  c = d
  <1>1. c = [field |-> c.field, telegram |-> c.telegram]
        /\ d = [field |-> d.field, telegram |-> d.telegram]
    BY DEF Editor!Configs
  <1> QED
    BY <1>1

LEMMA EditorInit == Editor!Init => EditorInv
  <1> SUFFICES ASSUME Editor!Init PROVE EditorInv
    OBVIOUS
  <1>1. /\ configured = ConfigAtStart /\ formValue = configured /\ tgCfg = configured.telegram
        /\ rawMode = FALSE /\ raw = configured /\ saveMut = Editor!Idle /\ typed = configured
        /\ tgTyped = FALSE /\ rawUsed = FALSE /\ dropped = FALSE
    BY DEF Editor!Init
  <1>2. ConfigAtStart \in Editor!Configs /\ ConfigAtStart.telegram \in Telegrams
    BY Parameters DEF Editor!Configs
  <1>3. EditorType
    BY <1>1, <1>2 DEF EditorType
  <1>4. InForms
    BY <1>1 DEF InForms
  <1>5. Editor!AsTyped
    BY <1>1 DEF Editor!AsTyped
  <1> QED
    BY <1>1, <1>3, <1>4, <1>5 DEF EditorInv

\* The forms are filled and what is typed is kept.
LEMMA EditorEdits ==
  ASSUME EditorInv,
         \/ Editor!Open \/ Editor!Close \/ Editor!ToRaw \/ Editor!ToForm
         \/ \E v \in FieldValues : Editor!TypeField(v)
         \/ \E v \in Telegrams : Editor!TypeTelegram(v)
         \/ \E c \in Editor!Configs \cup {Invalid} : Editor!TypeRaw(c)
  PROVE  EditorInv'
  <1>0. /\ EditorType /\ (rawMode => rawUsed) /\ Editor!AsTyped
        /\ ~dropped /\ ~(tgTyped /\ rawUsed) => InForms
    BY DEF EditorInv
  <1>1. UNCHANGED <<configured, saveMut>>
    BY DEF Editor!Open, Editor!Close, Editor!ToRaw, Editor!ToForm, Editor!TypeField,
           Editor!TypeTelegram, Editor!TypeRaw
  <1>2. Editor!AsTyped'
    BY <1>0, <1>1 DEF Editor!AsTyped
  <1>3. CASE Editor!Open
    <2>1. /\ formValue' = configured /\ tgCfg' = configured.telegram /\ rawMode' = FALSE
          /\ raw' = configured /\ typed' = configured
          /\ tgTyped' = FALSE /\ rawUsed' = FALSE /\ dropped' = FALSE
      BY <1>3 DEF Editor!Open, Editor!Filled
    <2>2. EditorType'
      BY <1>0, <1>1, <2>1, ConfigIs DEF EditorType, Editor!Configs
    <2>3. InForms'
      BY <2>1 DEF InForms
    <2> QED
      BY <1>2, <2>1, <2>2, <2>3 DEF EditorInv
  <1>4. CASE Editor!Close
    <2>1. UNCHANGED <<formValue, tgCfg, rawMode, raw, typed, tgTyped, rawUsed, dropped>>
      BY <1>4 DEF Editor!Close, Editor!history
    <2> QED
      BY <1>0, <1>1, <1>2, <2>1 DEF EditorInv, EditorType, InForms
  <1>5. CASE Editor!ToRaw
    <2>1. /\ UNCHANGED <<formValue, tgCfg, typed, tgTyped, dropped>> /\ ~rawMode
          /\ rawMode' = TRUE /\ raw' = formValue /\ rawUsed' = TRUE
      BY <1>5 DEF Editor!ToRaw
    <2>2. EditorType'
      BY <1>0, <1>1, <2>1 DEF EditorType
    <2>3. ~dropped' /\ ~(tgTyped' /\ rawUsed') => InForms'
      BY <1>0, <2>1 DEF InForms
    <2> QED
      BY <1>2, <2>1, <2>2, <2>3 DEF EditorInv
  <1>6. CASE Editor!ToForm
    <2>1. UNCHANGED <<raw, typed, tgTyped, rawUsed>> /\ rawMode /\ rawMode' = FALSE
      BY <1>6 DEF Editor!ToForm
    <2>2. CASE raw = Invalid
      <3>1. dropped' = TRUE /\ UNCHANGED <<formValue, tgCfg>>
        BY <1>6, <2>2 DEF Editor!ToForm
      <3>2. EditorType'
        BY <1>0, <1>1, <2>1, <3>1 DEF EditorType
      <3> QED
        BY <1>2, <2>1, <3>1, <3>2 DEF EditorInv
    <2>3. CASE raw # Invalid
      <3>1. formValue' = raw /\ tgCfg' = raw.telegram /\ UNCHANGED dropped
        BY <1>6, <2>3 DEF Editor!ToForm
      <3>2. raw \in Editor!Configs /\ raw.telegram \in Telegrams
        BY <1>0, <2>3 DEF EditorType, Editor!Configs
      <3>3. EditorType'
        BY <1>0, <1>1, <2>1, <3>1, <3>2 DEF EditorType
      <3>4. ~dropped' /\ ~(tgTyped' /\ rawUsed') => InForms'
        BY <1>0, <2>1, <2>3, <3>1 DEF InForms
      <3> QED
        BY <1>2, <2>1, <3>3, <3>4 DEF EditorInv
    <2> QED
      BY <2>2, <2>3
  <1>7. ASSUME NEW v \in FieldValues, Editor!TypeField(v) PROVE EditorInv'
    <2>1. /\ UNCHANGED <<tgCfg, rawMode, raw, tgTyped, rawUsed, dropped>> /\ ~rawMode
          /\ formValue' = [formValue EXCEPT !.field = v] /\ typed' = [typed EXCEPT !.field = v]
      BY <1>7 DEF Editor!TypeField
    <2>2. /\ formValue' \in Editor!Configs /\ typed' \in Editor!Configs
          /\ formValue'.field = v /\ typed'.field = v
          /\ formValue'.telegram = formValue.telegram /\ typed'.telegram = typed.telegram
      BY <1>0, <2>1 DEF EditorType, Editor!Configs
    <2>3. EditorType'
      BY <1>0, <1>1, <2>1, <2>2 DEF EditorType
    <2>4. ~dropped' /\ ~(tgTyped' /\ rawUsed') => InForms'
      BY <1>0, <2>1, <2>2 DEF InForms
    <2> QED
      BY <1>0, <1>2, <2>1, <2>3, <2>4 DEF EditorInv
  <1>8. ASSUME NEW v \in Telegrams, Editor!TypeTelegram(v) PROVE EditorInv'
    <2>1. /\ UNCHANGED <<formValue, rawMode, raw, rawUsed, dropped>> /\ tgCfg' = v
          /\ typed' = [typed EXCEPT !.telegram = v] /\ tgTyped' = TRUE
      BY <1>8 DEF Editor!TypeTelegram
    <2>2. typed' \in Editor!Configs /\ typed'.telegram = v /\ typed'.field = typed.field
      BY <1>0, <2>1 DEF EditorType, Editor!Configs
    <2>3. EditorType'
      BY <1>0, <1>1, <2>1, <2>2 DEF EditorType
    <2>4. ~rawUsed' => ~(tgTyped /\ rawUsed) /\ ~rawMode
      BY <1>0, <2>1
    <2>5. ~dropped' /\ ~(tgTyped' /\ rawUsed') => InForms'
      BY <1>0, <2>1, <2>2, <2>4 DEF InForms
    <2> QED
      BY <1>0, <1>2, <2>1, <2>3, <2>5 DEF EditorInv
  <1>9. ASSUME NEW c \in Editor!Configs \cup {Invalid}, Editor!TypeRaw(c) PROVE EditorInv'
    <2>1. /\ UNCHANGED <<formValue, tgCfg, rawMode, dropped>> /\ rawMode /\ raw' = c
          /\ typed' = (IF c = Invalid THEN typed ELSE c) /\ rawUsed' = TRUE
          /\ tgTyped' = (tgTyped \/ (c # Invalid /\ c.telegram # tgCfg))
      BY <1>9 DEF Editor!TypeRaw
    <2>2. tgTyped' \in BOOLEAN
          /\ (~tgTyped' => ~tgTyped /\ (c # Invalid => c.telegram = tgCfg))
      BY <1>0, <2>1, Zenon DEF EditorType
    <2>3. EditorType'
      BY <1>0, <1>1, <2>1, <2>2 DEF EditorType
    <2>4. ~dropped' /\ ~tgTyped' => InForms'
      BY <1>0, <2>1, <2>2 DEF InForms
    <2> QED
      BY <1>2, <2>1, <2>3, <2>4 DEF EditorInv
  <1> QED
    BY <1>3, <1>4, <1>5, <1>6, <1>7, <1>8, <1>9

\* What is sent is what was typed, or mixed.
LEMMA EditorSaves ==
  ASSUME EditorInv, Editor!Save \/ Editor!Saved
  PROVE  EditorInv'
  <1>0. /\ EditorType /\ (rawMode => rawUsed) /\ Editor!AsTyped
        /\ ~dropped /\ ~(tgTyped /\ rawUsed) => InForms
    BY DEF EditorInv
  <1>1. UNCHANGED <<formValue, tgCfg, rawMode, raw, typed, tgTyped, rawUsed, dropped>>
    BY DEF Editor!Save, Editor!Saved, Editor!history
  <1>2. ~dropped' /\ ~(tgTyped' /\ rawUsed') => InForms'
    BY <1>0, <1>1 DEF InForms
  <1>3. CASE Editor!Saved
    <2>1. /\ saveMut # Editor!Idle /\ saveMut' = Editor!Idle
          /\ configured' \in {saveMut.config, configured}
      BY <1>3 DEF Editor!Saved
    <2>2. EditorType'
      BY <1>0, <1>1, <2>1 DEF EditorType
    <2>3. Editor!AsTyped'
      BY <2>1 DEF Editor!AsTyped
    <2> QED
      BY <1>0, <1>1, <1>2, <2>2, <2>3 DEF EditorInv
  <1>4. CASE Editor!Save /\ rawMode /\ raw = Invalid
    <2>1. UNCHANGED <<configured, saveMut>>
      BY <1>4 DEF Editor!Save
    <2>2. EditorType' /\ Editor!AsTyped'
      BY <1>0, <1>1, <2>1 DEF EditorType, Editor!AsTyped
    <2> QED
      BY <1>0, <1>1, <1>2, <2>2 DEF EditorInv
  <1>5. CASE Editor!Save /\ ~(rawMode /\ raw = Invalid)
    <2> DEFINE x == IF rawMode THEN raw ELSE formValue
    <2>1. x \in Editor!Configs /\ tgCfg \in Telegrams /\ typed \in Editor!Configs
      BY <1>0, <1>5 DEF EditorType
    <2>2. PICK c : c = [x EXCEPT !.telegram = tgCfg]
      OBVIOUS
    <2>3. /\ UNCHANGED configured
          /\ saveMut' = [at |-> "asked", config |-> c, kept |-> c = typed,
                         mixed |-> (tgTyped /\ rawUsed) \/ dropped]
      BY <1>5, <2>2 DEF Editor!Save
    <2>4. c \in Editor!Configs /\ c.telegram = tgCfg /\ c.field = x.field
      BY <2>1, <2>2 DEF Editor!Configs
    <2>5. saveMut'.config = c /\ saveMut'.kept = (c = typed)
          /\ saveMut'.mixed = ((tgTyped /\ rawUsed) \/ dropped)
      BY <2>3
    <2>6. EditorType'
      BY <1>0, <1>1, <2>3, <2>4, <2>5 DEF EditorType
    <2>7. ~dropped /\ ~(tgTyped /\ rawUsed) => c = typed
      <3> SUFFICES ASSUME ~dropped, ~(tgTyped /\ rawUsed) PROVE c = typed
        OBVIOUS
      <3>1. typed.telegram = tgCfg /\ typed.field = x.field
        BY <1>0, <1>5 DEF InForms
      <3> QED
        BY <2>1, <2>4, <3>1, ConfigTold
    <2>8. saveMut'.kept \/ saveMut'.mixed
      BY <2>5, <2>7, Zenon
    <2>9. Editor!AsTyped'
      BY <2>8 DEF Editor!AsTyped
    <2> QED
      BY <1>0, <1>1, <1>2, <2>6, <2>9 DEF EditorInv
  <1> QED
    BY <1>3, <1>4, <1>5

LEMMA EditorKept == EditorInv /\ (Editor!Next \/ UNCHANGED editor) => EditorInv'
  <1>1. EditorInv /\ UNCHANGED editor => EditorInv'
    BY DEF editor, EditorInv, EditorType, InForms, Editor!AsTyped
  <1>2. EditorInv /\ Editor!Next => EditorInv'
    BY EditorEdits, EditorSaves DEF Editor!Next, Editor!User
  <1> QED
    BY <1>1, <1>2

-----------------------------------------------------------------------------
(* The switches, boxes and zones.                                          *)

\* No change is answered for that has not asked for the list.
SwitchInv ==
  /\ thrown \in Nat /\ missed \in BOOLEAN
  /\ calls \subseteq [n : Nat, op : Switches!Ops, of : Plugins,
                      at : {"asked", "done", "failed", "unloadable"}]
  /\ ~missed /\ (\A c \in calls : c.at \notin {"done", "unloadable"}) =>
       /\ switching = Switches!Idle => switches = plugins
       /\ switching.at = "answer" => switching.plugins = plugins

BoxInv ==
  /\ DOMAIN assigned = Plugins /\ DOMAIN wanted = Plugins /\ DOMAIN boxPlugins \subseteq Plugins
  /\ fetching.at = "answer" => DOMAIN fetching.config \subseteq Plugins
  /\ \A x \in sends : x.at = "asked" =>
       /\ x = [of |-> x.of, save |-> x.save, at |-> "asked", base |-> x.base,
               config |-> x.config, camera |-> x.camera, ticked |-> x.ticked, chosen |-> x.chosen]
       /\ x.of \in Plugins /\ x.config = Boxes!Assigned(x.base, x.camera, x.ticked)
  /\ Boxes!AsTicked

ZoneInv ==
  /\ zoneCamera \in ZoneCameras \cup {Zones!NoCamera} /\ DOMAIN zones = ZoneCameras
  /\ Zones!InStep

LEMMA SwitchInit == Switches!Init => SwitchInv
  <1> SUFFICES ASSUME Switches!Init PROVE SwitchInv
    OBVIOUS
  <1>1. calls = {} /\ thrown = 0 /\ missed = FALSE /\ switches = plugins
        /\ switching.at # "answer"
    BY DEF Switches!Init, Switches!Idle
  <1> QED
    BY <1>1 DEF SwitchInv

\* What is kept of the calls, and what of the list.
SwitchCalls == thrown \in Nat /\ missed \in BOOLEAN
               /\ calls \subseteq [n : Nat, op : Switches!Ops, of : Plugins,
                                   at : {"asked", "done", "failed", "unloadable"}]

SwitchList ==
  ~missed /\ (\A c \in calls : c.at \notin {"done", "unloadable"}) =>
    /\ switching = Switches!Idle => switches = plugins
    /\ switching.at = "answer" => switching.plugins = plugins

LEMMA SwitchSteps ==
  ASSUME SwitchInv,
         \/ \E p \in Plugins : Switches!Toggle(p) \/ Switches!Configure(p)
         \/ Switches!Configured \/ Switches!Focus \/ Switches!Serve \/ Switches!OnList
  PROVE  SwitchInv'
  <1>0. SwitchCalls /\ SwitchList
    BY DEF SwitchInv, SwitchCalls, SwitchList
  <1>1. CASE \E p \in Plugins : Switches!Toggle(p)
    <2>1. PICK p \in Plugins : Switches!Toggle(p)
      BY <1>1
    <2>2. /\ UNCHANGED <<plugins, switches, switching, missed>>
          /\ \/ UNCHANGED <<calls, thrown>>
             \/ /\ thrown' = thrown + 1
                /\ \E o \in Switches!Ops :
                     calls' = calls \cup {[n |-> thrown', op |-> o, of |-> p, at |-> "asked"]}
      BY <2>1 DEF Switches!Toggle, Switches!Ops
    <2>3. SwitchCalls'
      BY <1>0, <2>2 DEF SwitchCalls
    <2>4. (\A c \in calls' : c.at \notin {"done", "unloadable"})
            => \A c \in calls : c.at \notin {"done", "unloadable"}
      BY <2>2
    <2>5. SwitchList'
      BY <1>0, <2>2, <2>4 DEF SwitchList
    <2> QED
      BY <2>3, <2>5 DEF SwitchInv, SwitchCalls, SwitchList
  <1>2. CASE \E p \in Plugins : Switches!Configure(p)
    <2>1. UNCHANGED <<plugins, switches, switching, calls, thrown, missed>>
      BY <1>2 DEF Switches!Configure
    <2> QED
      BY <2>1 DEF SwitchInv
  <1>3. CASE Switches!Configured
    <2>1. /\ UNCHANGED <<switches, calls, thrown>>
          /\ \/ UNCHANGED <<plugins, switching, missed>>
             \/ /\ switching' = IF switching = Switches!Idle THEN Switches!Asked ELSE switching
                /\ missed' = (switching.at = "answer")
      BY <1>3 DEF Switches!Configured, Switches!Refetched
    <2>2. CASE UNCHANGED <<plugins, switching, missed>>
      BY <2>1, <2>2 DEF SwitchInv
    <2>3. CASE ~UNCHANGED <<plugins, switching, missed>>
      <3>1. switching' # Switches!Idle /\ (switching'.at = "answer" => missed')
        <4>1. Switches!Asked # Switches!Idle /\ Switches!Asked.at # "answer"
          BY DEF Switches!Idle, Switches!Asked
        <4>2. /\ switching' = IF switching = Switches!Idle THEN Switches!Asked ELSE switching
              /\ missed' = (switching.at = "answer")
          BY <2>1, <2>3, Zenon
        <4>3. switching' = Switches!Asked \/ (switching' = switching /\ switching # Switches!Idle)
          BY <4>2
        <4> QED
          BY <4>1, <4>2, <4>3, Zenon
      <3>2. missed' \in BOOLEAN
        BY <2>1, <2>3
      <3>3. SwitchList'
        BY <3>1 DEF SwitchList
      <3>4. SwitchCalls'
        BY <1>0, <2>1, <3>2 DEF SwitchCalls
      <3> QED
        BY <3>3, <3>4 DEF SwitchInv, SwitchCalls, SwitchList
    <2> QED
      BY <2>2, <2>3
  <1>4. CASE Switches!Focus
    <2>1. /\ UNCHANGED <<plugins, switches, calls, thrown>> /\ missed' = FALSE
          /\ switching' = Switches!Asked
      BY <1>4 DEF Switches!Focus
    <2>2. switching' # Switches!Idle /\ switching'.at # "answer"
      BY <2>1 DEF Switches!Idle, Switches!Asked
    <2> QED
      BY <2>1, <2>2 DEF SwitchInv
  <1>5. CASE Switches!Serve
    <2>1. /\ UNCHANGED <<plugins, switches, calls, thrown>>
          /\ \/ switching' = [at |-> "answer", plugins |-> plugins] /\ UNCHANGED missed
             \/ switching' = Switches!Idle /\ missed' = TRUE
      BY <1>5 DEF Switches!Serve
    <2>2. SwitchCalls'
      BY <1>0, <2>1 DEF SwitchCalls
    <2>3. SwitchList'
      BY <1>0, <2>1 DEF SwitchList, Switches!Idle
    <2> QED
      BY <2>2, <2>3 DEF SwitchInv, SwitchCalls, SwitchList
  <1>6. CASE Switches!OnList
    <2>1. /\ UNCHANGED <<plugins, calls, thrown, missed>>
          /\ switching.at = "answer" /\ switching' = Switches!Idle /\ switches' = switching.plugins
      BY <1>6 DEF Switches!OnList
    <2>2. SwitchCalls'
      BY <1>0, <2>1 DEF SwitchCalls
    <2>3. SwitchList'
      BY <1>0, <2>1 DEF SwitchList, Switches!Idle
    <2> QED
      BY <2>2, <2>3 DEF SwitchInv, SwitchCalls, SwitchList
  <1> QED
    BY <1>1, <1>2, <1>3, <1>4, <1>5, <1>6

\* A call that changes the plugins is answered for later; its answer asks.
LEMMA SwitchAnswers ==
  ASSUME SwitchInv, NEW c \in calls, Switches!Served(c) \/ Switches!OnServed(c)
  PROVE  SwitchInv'
  <1>0. SwitchCalls /\ SwitchList
    BY DEF SwitchInv, SwitchCalls, SwitchList
  <1>1. CASE Switches!Served(c)
    <2>1. PICK end \in {"done", "failed", "unloadable"} :
            /\ calls' = (calls \ {c}) \cup {[c EXCEPT !.at = end]}
            /\ end = "failed" => UNCHANGED plugins
      BY <1>1 DEF Switches!Served
    <2>2. UNCHANGED <<switches, switching, thrown, missed>> /\ c.at = "asked"
      BY <1>1 DEF Switches!Served
    <2>3. [c EXCEPT !.at = end] \in calls'
          /\ [c EXCEPT !.at = end] \in [n : Nat, op : Switches!Ops, of : Plugins,
                                   at : {"asked", "done", "failed", "unloadable"}]
          /\ [c EXCEPT !.at = end].at = end
      BY <1>0, <2>1 DEF SwitchCalls
    <2>4. SwitchCalls'
      BY <1>0, <2>1, <2>2, <2>3 DEF SwitchCalls
    <2>5. CASE end = "failed"
      <3>1. (\A d \in calls' : d.at \notin {"done", "unloadable"})
              => \A d \in calls : d.at \notin {"done", "unloadable"}
        BY <2>1, <2>2
      <3>2. SwitchList'
        BY <1>0, <2>1, <2>2, <2>5, <3>1 DEF SwitchList
      <3> QED
        BY <2>4, <3>2 DEF SwitchInv, SwitchCalls, SwitchList
    <2>6. CASE end # "failed"
      <3>1. SwitchList'
        BY <2>3, <2>6 DEF SwitchList
      <3> QED
        BY <2>4, <3>1 DEF SwitchInv, SwitchCalls, SwitchList
    <2> QED
      BY <2>5, <2>6
  <1>2. CASE Switches!OnServed(c)
    <2>1. /\ calls' = calls \ {c} /\ UNCHANGED <<plugins, switches, thrown>>
          /\ \/ /\ c.at = "done"
                /\ switching' = IF switching = Switches!Idle THEN Switches!Asked ELSE switching
                /\ missed' = (switching.at = "answer")
             \/ /\ c.at # "done" /\ UNCHANGED switching
                /\ missed' = (missed \/ c.at = "unloadable")
      BY <1>2 DEF Switches!OnServed, Switches!Refetched
    <2>2. missed' \in BOOLEAN
      BY <1>0, <2>1 DEF SwitchCalls
    <2>3. SwitchCalls'
      BY <1>0, <2>1, <2>2 DEF SwitchCalls
    <2>4. CASE c.at = "done"
      <3>1. switching' # Switches!Idle /\ (switching'.at = "answer" => missed')
        <4>1. Switches!Asked # Switches!Idle /\ Switches!Asked.at # "answer"
          BY DEF Switches!Idle, Switches!Asked
        <4>2. /\ switching' = IF switching = Switches!Idle THEN Switches!Asked ELSE switching
              /\ missed' = (switching.at = "answer")
          BY <2>1, <2>4, Zenon
        <4>3. switching' = Switches!Asked \/ (switching' = switching /\ switching # Switches!Idle)
          BY <4>2
        <4> QED
          BY <4>1, <4>2, <4>3, Zenon
      <3>2. SwitchList'
        BY <3>1 DEF SwitchList
      <3> QED
        BY <2>3, <3>2 DEF SwitchInv, SwitchCalls, SwitchList
    <2>5. CASE c.at # "done"
      <3>1. ~missed' => ~missed /\ c.at # "unloadable"
        BY <2>1, <2>5, Zenon
      <3>2. ~missed' /\ (\A d \in calls' : d.at \notin {"done", "unloadable"})
              => \A d \in calls : d.at \notin {"done", "unloadable"}
        BY <2>1, <2>5, <3>1
      <3>3. SwitchList'
        BY <1>0, <2>1, <2>5, <3>1, <3>2 DEF SwitchList
      <3> QED
        BY <2>3, <3>3 DEF SwitchInv, SwitchCalls, SwitchList
    <2> QED
      BY <2>4, <2>5
  <1> QED
    BY <1>1, <1>2

LEMMA SwitchKept == SwitchInv /\ (Switches!Next \/ UNCHANGED toggles) => SwitchInv'
  <1>1. SwitchInv /\ UNCHANGED toggles => SwitchInv'
    BY DEF toggles, SwitchInv
  <1>2. SwitchInv /\ Switches!Next => SwitchInv'
    BY SwitchSteps, SwitchAnswers DEF Switches!Next
  <1> QED
    BY <1>1, <1>2

LEMMA SwitchSays == SwitchInv => Switches!StandsSo
  BY DEF SwitchInv, Switches!StandsSo

\* A request as it is asked.
BoxAsked(x) ==
  x.at = "asked" =>
    /\ x = [of |-> x.of, save |-> x.save, at |-> "asked", base |-> x.base,
            config |-> x.config, camera |-> x.camera, ticked |-> x.ticked, chosen |-> x.chosen]
    /\ x.of \in Plugins /\ x.config = Boxes!Assigned(x.base, x.camera, x.ticked)

LEMMA BoxInit == Boxes!Init => BoxInv
  <1> SUFFICES ASSUME Boxes!Init PROVE BoxInv
    OBVIOUS
  <1>1. /\ DOMAIN assigned = Plugins /\ wanted = assigned /\ sends = {}
        /\ boxPlugins = <<>> /\ fetching.at # "answer"
    BY DEF Boxes!Init, Boxes!Asked
  <1> QED
    BY <1>1 DEF BoxInv, Boxes!AsTicked

\* The list, the dialog and the answers.
LEMMA BoxSteps ==
  ASSUME BoxInv,
         \/ Boxes!Focus \/ Boxes!Serve \/ Boxes!OnList \/ Boxes!CloseModal \/ Boxes!OnNothing
         \/ \E c \in BoxCameras : Boxes!OpenEdit(c)
         \/ \E p \in Plugins : Boxes!Tick(p)
         \/ \E k \in 1..MaxPresses : Boxes!OnSaved(k)
         \/ Boxes!PluginSave
  PROVE  BoxInv'
  <1>1. UNCHANGED <<assigned, wanted, overwritten>>
    BY DEF Boxes!Focus, Boxes!Serve, Boxes!OnList, Boxes!CloseModal, Boxes!OnNothing,
           Boxes!OpenEdit, Boxes!Tick, Boxes!OnSaved, Boxes!PluginSave, Boxes!history
  <1>2. \/ UNCHANGED boxPlugins
        \/ fetching.at = "answer" /\ boxPlugins' = fetching.config
    BY DEF Boxes!Focus, Boxes!Serve, Boxes!OnList, Boxes!CloseModal, Boxes!OnNothing,
           Boxes!OpenEdit, Boxes!Tick, Boxes!OnSaved, Boxes!PluginSave
  <1>3. \/ UNCHANGED fetching \/ fetching'.at # "answer"
        \/ fetching' = [at |-> "answer", config |-> assigned]
    <2>1. CASE Boxes!OnNothing
      BY <2>1 DEF Boxes!OnNothing, Boxes!Asked
    <2>2. ASSUME NEW k \in 1..MaxPresses, Boxes!OnSaved(k)
          PROVE  UNCHANGED fetching \/ fetching'.at # "answer"
      BY <2>2 DEF Boxes!OnSaved, Boxes!Asked
    <2>3. CASE Boxes!Focus \/ Boxes!OnList
      BY <2>3 DEF Boxes!Focus, Boxes!OnList, Boxes!Asked, Boxes!Idle
    <2>4. CASE Boxes!Serve
      BY <2>4 DEF Boxes!Serve, Boxes!Idle
    <2>5. \/ Boxes!Focus \/ Boxes!Serve \/ Boxes!OnList \/ Boxes!OnNothing
          \/ (\E k \in 1..MaxPresses : Boxes!OnSaved(k))
          \/ UNCHANGED fetching
      BY DEF Boxes!CloseModal, Boxes!OpenEdit, Boxes!Tick, Boxes!PluginSave
    <2> QED
      BY <2>1, <2>2, <2>3, <2>4, <2>5
  <1>4. DOMAIN boxPlugins' \subseteq Plugins
    BY <1>2 DEF BoxInv
  <1>5. fetching'.at = "answer" => DOMAIN fetching'.config \subseteq Plugins
    BY <1>3 DEF BoxInv
  <1>6. \A x \in sends' : BoxAsked(x)
    <2>1. \A x \in sends : BoxAsked(x)
      BY DEF BoxInv, BoxAsked
    <2>2. CASE UNCHANGED sends
      BY <2>1, <2>2
    <2>3. ASSUME NEW k \in 1..MaxPresses, Boxes!OnSaved(k) PROVE \A x \in sends' : BoxAsked(x)
      <3>1. \A x \in sends' :
              x \in sends \/ \E y \in sends : y.at = "asked" /\ x = [y EXCEPT !.save = 0]
        BY <2>3 DEF Boxes!OnSaved
      <3>2. ASSUME NEW y \in sends, y.at = "asked" PROVE BoxAsked([y EXCEPT !.save = 0])
        <4>1. /\ y = [of |-> y.of, save |-> y.save, at |-> "asked", base |-> y.base,
                      config |-> y.config, camera |-> y.camera, ticked |-> y.ticked,
                      chosen |-> y.chosen]
              /\ y.of \in Plugins /\ y.config = Boxes!Assigned(y.base, y.camera, y.ticked)
          BY <2>1, <3>2 DEF BoxAsked
        <4>2. PICK z : z = [y EXCEPT !.save = 0]
          OBVIOUS
        <4>3. z = [of |-> y.of, save |-> 0, at |-> "asked", base |-> y.base,
                   config |-> y.config, camera |-> y.camera, ticked |-> y.ticked,
                   chosen |-> y.chosen]
          BY <4>1, <4>2
        <4> QED
          BY <4>1, <4>2, <4>3 DEF BoxAsked
      <3> QED
        BY <2>1, <3>1, <3>2
    <2>4. CASE Boxes!PluginSave
      <3>1. Boxes!ToSend \subseteq Plugins
        BY DEF BoxInv, Boxes!ToSend
      <3>2. ASSUME NEW x \in sends', x \notin sends PROVE BoxAsked(x)
        <4>1. PICK p \in Boxes!ToSend :
                x = [of |-> p, save |-> presses', at |-> "asked", base |-> boxPlugins[p],
                     config |-> Boxes!Assigned(boxPlugins[p], boxCamera, p \in DOMAIN boxes /\ boxes[p]),
                     camera |-> boxCamera, ticked |-> p \in DOMAIN boxes /\ boxes[p],
                     chosen |-> p \in DOMAIN asOpened /\ boxPlugins[p] = asOpened[p]]
          BY <2>4, <3>2 DEF Boxes!PluginSave
        <4> QED
          BY <3>1, <4>1 DEF BoxAsked
      <3> QED
        BY <2>1, <3>2
    <2>5. UNCHANGED sends \/ Boxes!PluginSave \/ \E k \in 1..MaxPresses : Boxes!OnSaved(k)
      BY DEF Boxes!Focus, Boxes!Serve, Boxes!OnList, Boxes!CloseModal, Boxes!OnNothing,
           Boxes!OpenEdit, Boxes!Tick
    <2> QED
      BY <2>2, <2>3, <2>4, <2>5
  <1>7. (DOMAIN assigned = Plugins /\ DOMAIN wanted = Plugins)' /\ Boxes!AsTicked'
    BY <1>1 DEF BoxInv, Boxes!AsTicked
  <1> QED
    BY <1>4, <1>5, <1>6, <1>7 DEF BoxInv, BoxAsked

LEMMA BoxPuts ==
  ASSUME BoxInv,
         \/ \E x \in sends : Boxes!Put(x)
         \/ \E p \in Plugins, v \in Rests : Boxes!Elsewhere(p, v)
  PROVE  BoxInv'
  <1>0. /\ DOMAIN assigned = Plugins /\ DOMAIN wanted = Plugins /\ Boxes!AsTicked
        /\ \A x \in sends : BoxAsked(x)
    BY DEF BoxInv, BoxAsked
  <1>1. UNCHANGED <<boxPlugins, fetching>>
    BY DEF Boxes!Put, Boxes!Elsewhere
  <1>2. ASSUME NEW x \in sends, Boxes!Put(x)
        PROVE  /\ \A y \in sends' : BoxAsked(y)
               /\ (DOMAIN assigned = Plugins /\ DOMAIN wanted = Plugins)' /\ Boxes!AsTicked'
    <2>1. PICK well \in BOOLEAN :
            /\ sends' = (sends \ {x})
                 \cup {[of |-> x.of, save |-> x.save, at |-> IF well THEN "done" ELSE "failed"]}
            /\ IF ~well THEN UNCHANGED <<assigned, wanted, overwritten>>
               ELSE /\ assigned' = [assigned EXCEPT ![x.of] = x.config]
                    /\ wanted' = [wanted EXCEPT ![x.of] =
                                    Boxes!Assigned(wanted[x.of], x.camera, x.ticked)]
                    /\ overwritten' = IF x.chosen /\ x.base = assigned[x.of] THEN overwritten
                                      ELSE overwritten \cup {x.of}
      BY <1>2 DEF Boxes!Put, Boxes!history, Boxes!Assigned
    <2>2. x.at = "asked" /\ x.of \in Plugins
          /\ x.config = Boxes!Assigned(x.base, x.camera, x.ticked)
      BY <1>0, <1>2 DEF Boxes!Put, BoxAsked
    <2>3. \A y \in sends' : BoxAsked(y)
      BY <1>0, <2>1 DEF BoxAsked
    <2>4. CASE ~well
      BY <1>0, <2>1, <2>3, <2>4 DEF Boxes!AsTicked
    <2>5. CASE well
      <3>1. (DOMAIN assigned = Plugins /\ DOMAIN wanted = Plugins)'
        BY <1>0, <2>1, <2>5
      <3>2. ASSUME NEW p \in Plugins \ overwritten' PROVE assigned'[p] = wanted'[p]
        <4>1. p \notin overwritten /\ assigned[p] = wanted[p]
          BY <1>0, <2>1, <2>5, <3>2 DEF Boxes!AsTicked
        <4>2. CASE p = x.of
          <5>1. x.base = assigned[p]
            BY <2>1, <2>5, <3>2, <4>2
          <5> QED
            BY <1>0, <2>1, <2>2, <2>5, <4>1, <4>2, <5>1
        <4>3. CASE p # x.of
          BY <1>0, <2>1, <2>5, <4>1, <4>3
        <4> QED
          BY <4>2, <4>3
      <3> QED
        BY <2>3, <3>1, <3>2 DEF Boxes!AsTicked
    <2> QED
      BY <2>4, <2>5
  <1>3. ASSUME NEW p \in Plugins, NEW v \in Rests, Boxes!Elsewhere(p, v)
        PROVE  /\ \A y \in sends' : BoxAsked(y)
               /\ (DOMAIN assigned = Plugins /\ DOMAIN wanted = Plugins)' /\ Boxes!AsTicked'
    <2>1. /\ UNCHANGED <<sends, overwritten>>
          /\ assigned' = [assigned EXCEPT ![p] = [assigned[p] EXCEPT !.rest = v]]
          /\ wanted' = [wanted EXCEPT ![p] = [wanted[p] EXCEPT !.rest = v]]
      BY <1>3 DEF Boxes!Elsewhere
    <2> QED
      BY <1>0, <2>1 DEF Boxes!AsTicked
  <1>4. DOMAIN boxPlugins' \subseteq Plugins
        /\ (fetching'.at = "answer" => DOMAIN fetching'.config \subseteq Plugins)
    BY <1>1 DEF BoxInv
  <1>5. /\ \A y \in sends' : BoxAsked(y)
        /\ (DOMAIN assigned = Plugins /\ DOMAIN wanted = Plugins)' /\ Boxes!AsTicked'
    BY <1>2, <1>3
  <1> QED
    BY <1>4, <1>5 DEF BoxInv, BoxAsked

LEMMA BoxKept == BoxInv /\ (Boxes!Next \/ UNCHANGED ticks) => BoxInv'
  <1>1. BoxInv /\ UNCHANGED ticks => BoxInv'
    BY DEF ticks, BoxInv, Boxes!AsTicked
  <1>2. BoxInv /\ Boxes!Next => BoxInv'
    BY BoxSteps, BoxPuts DEF Boxes!Next, Boxes!User
  <1> QED
    BY <1>1, <1>2

LEMMA ZoneInit == Zones!Init => ZoneInv
  BY DEF Zones!Init, Zones!NoZones, ZoneInv, Zones!InStep, Zones!Mounted

LEMMA ZoneKept == ZoneInv /\ (Zones!Next \/ UNCHANGED areas) => ZoneInv'
  <1> SUFFICES ASSUME ZoneInv, Zones!Next \/ UNCHANGED areas PROVE ZoneInv'
    OBVIOUS
  <1>1. ASSUME NEW shownZones, Zones!Change(shownZones), zoneCamera' = zoneCamera, Zones!Mounted
        PROVE  ZoneInv'
    <2>1. /\ zones' = [zones EXCEPT ![zoneCamera] = shownZones] /\ local' = shownZones
          /\ zoneCamera \in ZoneCameras
      BY <1>1 DEF Zones!Change, Zones!Show, ZoneInv, Zones!Mounted
    <2> QED
      BY <1>1, <2>1 DEF ZoneInv, Zones!InStep
  <1>2. ASSUME NEW c \in ZoneCameras, Zones!SelectCamera(c) PROVE ZoneInv'
    <2>1. zoneCamera' = c /\ local' = zones[c] /\ zones' = zones
      BY <1>2 DEF Zones!SelectCamera, Zones!Show
    <2> QED
      BY <2>1 DEF ZoneInv, Zones!InStep
  <1>3. CASE UNCHANGED <<zoneCamera, zones, local>>
    BY <1>3 DEF ZoneInv, Zones!InStep, Zones!Mounted
  <1>4. CASE Zones!Reopen
    BY <1>4 DEF Zones!Reopen, Zones!NoZones, ZoneInv, Zones!InStep, Zones!Mounted
  <1>5. ASSUME NEW drawn, Zones!Finish(drawn), Zones!Mounted PROVE ZoneInv'
    BY <1>1, <1>5 DEF Zones!Finish
  <1>6. CASE Zones!FinishDrawn
    BY <1>5, <1>6 DEF Zones!FinishDrawn
  <1>7. CASE Zones!DoubleClick
    BY <1>3, <1>5, <1>7 DEF Zones!DoubleClick
  <1>8. CASE Zones!DeleteSelectedZone
    BY <1>1, <1>8 DEF Zones!DeleteSelectedZone
  <1>9. CASE Zones!ClearAllZones
    BY <1>1, <1>9 DEF Zones!ClearAllZones
  <1>10. CASE \/ Zones!Click \/ Zones!StartDrawing \/ Zones!CancelDrawing \/ Zones!AskName
              \/ Zones!UndoLastPoint \/ Zones!HandleSaveZones
              \/ \E i \in DOMAIN local : Zones!SelectListed(i)
    BY <1>3, <1>10 DEF Zones!Click, Zones!StartDrawing, Zones!CancelDrawing, Zones!AskName,
                       Zones!UndoLastPoint, Zones!HandleSaveZones, Zones!SelectListed
  <1>11. CASE UNCHANGED areas
    BY <1>3, <1>11 DEF areas
  <1> QED
    BY <1>2, <1>4, <1>6, <1>7, <1>8, <1>9, <1>10, <1>11 DEF Zones!Next

-----------------------------------------------------------------------------
(* Lists.                                                                  *)

LEMMA AddedIs ==
  ASSUME NEW R, NEW s \in Seq(R), NEW x \in R
  PROVE  /\ Append(s, x) \in Seq(R) /\ DOMAIN Append(s, x) = 1..(Len(s) + 1)
         /\ Len(Append(s, x)) = Len(s) + 1
         /\ \A i \in DOMAIN s : Append(s, x)[i] = s[i]
         /\ Append(s, x)[Len(s) + 1] = x
  OBVIOUS

\* A list that has one element less has the others.
RemovedOf(t, s, i, n) ==
  /\ DOMAIN s = 1..n /\ i \in 1..n /\ DOMAIN t = 1..(n - 1)
  /\ \A j \in 1..(n - 1) : (j < i => t[j] = s[j]) /\ (j >= i => t[j] = s[j + 1])

LEMMA RemovedIs ==
  ASSUME NEW R, NEW s \in Seq(R), NEW i \in DOMAIN s, NEW t,
         t = SubSeq(s, 1, i - 1) \o SubSeq(s, i + 1, Len(s))
  PROVE  t \in Seq(R) /\ \E n \in Nat : RemovedOf(t, s, i, n)
  <1>0. Len(s) \in Nat /\ DOMAIN s = 1..Len(s)
    OBVIOUS
  <1>1. PICK n \in Nat : n = Len(s) /\ DOMAIN s = 1..n /\ i \in 1..n
    BY <1>0
  <1>2. PICK a : a = SubSeq(s, 1, i - 1)
    OBVIOUS
  <1>3. PICK b : b = SubSeq(s, i + 1, n)
    OBVIOUS
  <1>4. a \in Seq(R) /\ Len(a) = i - 1 /\ \A j \in 1..(i - 1) : a[j] = s[j]
    BY <1>1, <1>2
  <1>5. b \in Seq(R) /\ Len(b) = n - i /\ \A j \in 1..(n - i) : b[j] = s[i + j]
    BY <1>1, <1>3
  <1>6. t = a \o b
    BY <1>1, <1>2, <1>3
  <1>7. t \in Seq(R) /\ Len(t) = n - 1
    BY <1>1, <1>4, <1>5, <1>6
  <1>8. DOMAIN t = 1..(n - 1)
    <2>1. DOMAIN t = 1..Len(t)
      BY <1>7
    <2> QED
      BY <1>7, <2>1
  <1>9. ASSUME NEW j \in 1..(n - 1), j < i PROVE t[j] = s[j]
    BY <1>1, <1>4, <1>5, <1>6, <1>9
  <1>10. ASSUME NEW j \in 1..(n - 1), j >= i PROVE t[j] = s[j + 1]
    <2>1. PICK k \in 1..(n - i) : j = (i - 1) + k
      <3>1. j - (i - 1) \in 1..(n - i) /\ j = (i - 1) + (j - (i - 1))
        BY <1>1, <1>10
      <3> QED
        BY <3>1
    <2>2. t[(i - 1) + k] = b[k]
      <3>1. PICK p \in Nat : p = i - 1 /\ Len(a) = p
        BY <1>1, <1>4
      <3>2. k \in 1..Len(b) /\ Len(b) \in Nat
        BY <1>1, <1>5
      <3>3. (a \o b)[p + k] = b[k]
        <4>1. \A x \in 1..(Len(a) + Len(b)) :
                (a \o b)[x] = IF x <= Len(a) THEN a[x] ELSE b[x - Len(a)]
          BY <1>4, <1>5, ConcatProperties
        <4>2. p + k \in 1..(Len(a) + Len(b)) /\ ~(p + k <= Len(a)) /\ (p + k) - Len(a) = k
          BY <3>1, <3>2
        <4>3. (a \o b)[p + k] = b[(p + k) - Len(a)]
          BY <4>1, <4>2
        <4> QED
          BY <4>2, <4>3
      <3> QED
        BY <1>6, <3>1, <3>3
    <2>3. b[k] = s[i + k] /\ i + k = j + 1
      BY <1>1, <1>5, <2>1
    <2> QED
      BY <2>1, <2>2, <2>3
  <1> QED
    BY <1>1, <1>7, <1>8, <1>9, <1>10 DEF RemovedOf

Without(t, s, i) ==
  /\ \A j \in DOMAIN t : \E k \in DOMAIN s \ {i} : t[j] = s[k]
  /\ \A k \in DOMAIN s \ {i} : \E j \in DOMAIN t : t[j] = s[k]
  /\ \A j, l \in DOMAIN t : j # l =>
       \E k, m \in DOMAIN s : k # m /\ t[j] = s[k] /\ t[l] = s[m]

LEMMA RemovedHas ==
  ASSUME NEW t, NEW s, NEW i, NEW n \in Nat, RemovedOf(t, s, i, n)
  PROVE  Without(t, s, i)
  <1>1. DOMAIN s = 1..n /\ i \in 1..n /\ DOMAIN t = 1..(n - 1)
    BY DEF RemovedOf
  <1>2. \A j \in 1..(n - 1) : j < i => t[j] = s[j]
    BY DEF RemovedOf
  <1>3. \A j \in 1..(n - 1) : j >= i => t[j] = s[j + 1]
    BY DEF RemovedOf
  <1>4. ASSUME NEW j \in DOMAIN t
        PROVE  \E k \in DOMAIN s : k = (IF j < i THEN j ELSE j + 1) /\ k # i /\ t[j] = s[k]
    <2>1. CASE j < i
      <3>1. j \in DOMAIN s /\ j # i /\ t[j] = s[j]
        BY <1>1, <1>2, <2>1
      <3> QED
        BY <2>1, <3>1
    <2>2. CASE ~(j < i)
      <3>1. j + 1 \in DOMAIN s /\ j + 1 # i /\ t[j] = s[j + 1]
        BY <1>1, <1>3, <2>2
      <3> QED
        BY <2>2, <3>1
    <2> QED
      BY <2>1, <2>2
  <1>5. ASSUME NEW k \in DOMAIN s \ {i} PROVE \E j \in DOMAIN t : t[j] = s[k]
    <2>1. CASE k < i
      <3>1. k \in DOMAIN t /\ t[k] = s[k]
        BY <1>1, <1>2, <2>1
      <3> QED
        BY <3>1
    <2>2. CASE ~(k < i)
      <3>1. k - 1 \in DOMAIN t /\ k - 1 >= i /\ (k - 1) + 1 = k
        BY <1>1, <2>2
      <3>2. t[k - 1] = s[(k - 1) + 1]
        BY <1>1, <1>3, <3>1
      <3> QED
        BY <3>1, <3>2
    <2> QED
      BY <2>1, <2>2
  <1>6. ASSUME NEW j \in DOMAIN t, NEW l \in DOMAIN t, j # l
        PROVE  \E k, m \in DOMAIN s : k # m /\ t[j] = s[k] /\ t[l] = s[m]
    <2>1. PICK k \in DOMAIN s : k = (IF j < i THEN j ELSE j + 1) /\ t[j] = s[k]
      BY <1>4
    <2>2. PICK m \in DOMAIN s : m = (IF l < i THEN l ELSE l + 1) /\ t[l] = s[m]
      BY <1>4
    <2>3. k # m
      BY <1>1, <1>6, <2>1, <2>2
    <2> QED
      BY <2>1, <2>2, <2>3
  <1> QED
    BY <1>4, <1>5, <1>6 DEF Without

-----------------------------------------------------------------------------
(* The editor of rules.                                                    *)

RuleSet == [id : Int, at : Contents \cup {"nothing"}]
RuleConfs == [Cameras -> Seq(RuleSet)]
RulePuts == [step : {"sent", "applied"}, conf : RuleConfs, means : SUBSET (Cameras \X RuleSet),
             ofForm : BOOLEAN]

RuleType ==
  /\ cam \in Cameras \cup {Rules!NoCamera}
  /\ fetched \in RuleConfs /\ rules \in RuleConfs /\ meant \in SUBSET (Cameras \X RuleSet)
  /\ query.step = "read" => query.conf \in RuleConfs
  /\ puts \in Seq(RulePuts \cup {Rules!Over})
  /\ draft \in RuleSet /\ editing \in Nat
  /\ hasty \in BOOLEAN /\ strayed \in BOOLEAN

\* Rules are told apart, and from any rule saved after the n-th PUT.
RulesApart(conf, n) ==
  /\ \A c \in Cameras : \A i \in DOMAIN conf[c] : conf[c][i].id # 0 /\ conf[c][i].id >= -n
  /\ \A c, d \in Cameras : \A i \in DOMAIN conf[c], j \in DOMAIN conf[d] :
       conf[c][i].id = conf[d][j].id => c = d /\ i = j

RulesMeant ==
  /\ RulesApart(rules, Len(puts)) /\ Rules!Pairs(rules) = meant
  /\ \A i \in DOMAIN puts : puts[i].step = "sent" =>
       RulesApart(puts[i].conf, Len(puts)) /\ Rules!Pairs(puts[i].conf) = puts[i].means

\* The draft is of the rule at its index.
DraftOf ==
  /\ editing = 0 => draft.id = 0
  /\ ~strayed /\ editing # 0 =>
       editing \in DOMAIN Rules!Shown /\ Rules!Shown[editing].id = draft.id

RuleInv == RuleType /\ DraftOf /\ (~hasty /\ ~strayed => RulesMeant)

LEMMA PairsHas ==
  ASSUME NEW conf, NEW p
  PROVE  p \in Rules!Pairs(conf) <=>
           \E c \in Cameras : \E i \in DOMAIN conf[c] : p = <<c, conf[c][i]>>
  BY DEF Rules!Pairs, Rules!Range

LEMMA RuleOf ==
  ASSUME NEW conf \in RuleConfs, NEW c \in Cameras
  PROVE  /\ conf[c] \in Seq(RuleSet) /\ Len(conf[c]) \in Nat /\ DOMAIN conf[c] = 1..Len(conf[c])
         /\ \A i \in DOMAIN conf[c] : conf[c][i] \in RuleSet /\ conf[c][i].id \in Int
  <1>1. conf[c] \in Seq(RuleSet)
    BY DEF RuleConfs
  <1>2. Len(conf[c]) \in Nat /\ DOMAIN conf[c] = 1..Len(conf[c])
    BY <1>1
  <1>3. \A i \in DOMAIN conf[c] : conf[c][i] \in RuleSet
    BY <1>1, ElementOf
  <1> QED
    BY <1>1, <1>2, <1>3 DEF RuleSet

Changed(new, conf, c, q) ==
  new \in RuleConfs /\ new[c] = q /\ \A d \in Cameras \ {c} : new[d] = conf[d]

LEMMA ChangedOf ==
  ASSUME NEW conf \in RuleConfs, NEW c \in Cameras, NEW q \in Seq(RuleSet)
  PROVE  Changed([conf EXCEPT ![c] = q], conf, c, q)
  BY DEF RuleConfs, Changed

\* A rule that is added has an id of its own.
LEMMA AddedRule ==
  ASSUME NEW conf \in RuleConfs, NEW c \in Cameras, NEW n \in Nat, NEW r \in RuleSet,
         RulesApart(conf, n), r.id = -1 - n,
         NEW new, Changed(new, conf, c, Append(conf[c], r))
  PROVE  /\ new \in RuleConfs /\ RulesApart(new, n + 1)
         /\ Rules!Pairs(new) = Rules!Pairs(conf) \cup {<<c, r>>}
         /\ {p \in Rules!Pairs(conf) : p[2].id = 0} = {}
  <1> DEFINE s == conf[c]
             q == Append(s, r)
  <1>1. PICK l \in Nat : l = Len(s) /\ DOMAIN s = 1..l
    BY RuleOf
  <1>2. s \in Seq(RuleSet)
    BY RuleOf
  <1>3. /\ q \in Seq(RuleSet) /\ DOMAIN q = 1..(l + 1) /\ q[l + 1] = r
        /\ \A i \in 1..l : q[i] = s[i]
    BY <1>1, <1>2, AddedIs
  <1>4. new \in RuleConfs /\ new[c] = q /\ \A d \in Cameras \ {c} : new[d] = conf[d]
    BY DEF Changed
  <1> HIDE DEF q
  <1>5. \A d \in Cameras : \A i \in DOMAIN new[d] :
          \/ d = c /\ i = l + 1 /\ new[d][i] = r
          \/ i \in DOMAIN conf[d] /\ new[d][i] = conf[d][i]
    BY <1>1, <1>3, <1>4
  <1>6. \A d \in Cameras : \A i \in DOMAIN conf[d] :
          i \in DOMAIN new[d] /\ new[d][i] = conf[d][i]
    BY <1>1, <1>3, <1>4
  <1>7. \A d \in Cameras : \A i \in DOMAIN conf[d] :
          conf[d][i].id \in Int /\ conf[d][i].id # 0 /\ conf[d][i].id >= -n
    BY RuleOf DEF RulesApart
  <1>8. ASSUME NEW d \in Cameras, NEW i \in DOMAIN new[d]
        PROVE  new[d][i].id # 0 /\ new[d][i].id >= -(n + 1)
    BY <1>5, <1>7
  <1>9. ASSUME NEW d \in Cameras, NEW e \in Cameras, NEW i \in DOMAIN new[d], NEW j \in DOMAIN new[e],
               new[d][i].id = new[e][j].id
        PROVE  d = e /\ i = j
    <2>1. \A f \in Cameras : \A k \in DOMAIN conf[f] : conf[f][k].id # r.id
      BY <1>7
    <2>2. CASE (d = c /\ i = l + 1 /\ new[d][i] = r) /\ (e = c /\ j = l + 1 /\ new[e][j] = r)
      BY <2>2
    <2>3. CASE (i \in DOMAIN conf[d] /\ new[d][i] = conf[d][i])
               /\ (j \in DOMAIN conf[e] /\ new[e][j] = conf[e][j])
      BY <1>9, <2>3 DEF RulesApart
    <2> QED
      BY <1>5, <1>9, <2>1, <2>2, <2>3
  <1>10. RulesApart(new, n + 1)
    BY <1>8, <1>9 DEF RulesApart
  <1>11. \A p : p \in Rules!Pairs(new) <=> p \in Rules!Pairs(conf) \cup {<<c, r>>}
    <2> SUFFICES ASSUME NEW p
                 PROVE  p \in Rules!Pairs(new) <=> p \in Rules!Pairs(conf) \cup {<<c, r>>}
      OBVIOUS
    <2>1. ASSUME p \in Rules!Pairs(new) PROVE p \in Rules!Pairs(conf) \cup {<<c, r>>}
      <3>1. PICK d \in Cameras : \E i \in DOMAIN new[d] : p = <<d, new[d][i]>>
        BY <2>1, PairsHas
      <3>2. PICK i \in DOMAIN new[d] : p = <<d, new[d][i]>>
        BY <3>1
      <3> QED
        BY <1>5, <3>2, PairsHas
    <2>2. ASSUME p \in Rules!Pairs(conf) PROVE p \in Rules!Pairs(new)
      BY <1>6, <2>2, PairsHas
    <2>3. <<c, r>> \in Rules!Pairs(new)
      <3>1. l + 1 \in DOMAIN new[c] /\ new[c][l + 1] = r
        BY <1>1, <1>3, <1>4
      <3> QED
        BY <3>1, PairsHas
    <2> QED
      BY <2>1, <2>2, <2>3
  <1>12. \A p \in Rules!Pairs(conf) : p[2].id # 0
    <2> SUFFICES ASSUME NEW p \in Rules!Pairs(conf) PROVE p[2].id # 0
      OBVIOUS
    <2>1. PICK d \in Cameras : \E i \in DOMAIN conf[d] : p = <<d, conf[d][i]>>
      BY PairsHas
    <2>2. PICK i \in DOMAIN conf[d] : p = <<d, conf[d][i]>>
      BY <2>1
    <2> QED
      BY <1>7, <2>2
  <1> QED
    BY <1>4, <1>10, <1>11, <1>12

\* A rule that is edited keeps its id.
LEMMA EditedRule ==
  ASSUME NEW conf \in RuleConfs, NEW c \in Cameras, NEW n \in Nat, NEW r \in RuleSet,
         NEW e \in DOMAIN conf[c], RulesApart(conf, n), r.id = conf[c][e].id,
         NEW q \in Seq(RuleSet), DOMAIN q = DOMAIN conf[c], q[e] = r,
         \A j \in DOMAIN conf[c] \ {e} : q[j] = conf[c][j],
         NEW new, Changed(new, conf, c, q)
  PROVE  /\ new \in RuleConfs /\ RulesApart(new, n + 1)
         /\ Rules!Pairs(new) =
              (Rules!Pairs(conf) \ {p \in Rules!Pairs(conf) : p[2].id = r.id}) \cup {<<c, r>>}
  <1>1. new \in RuleConfs /\ new[c] = q /\ \A d \in Cameras \ {c} : new[d] = conf[d]
    BY DEF Changed
  <1>2. \A d \in Cameras : DOMAIN new[d] = DOMAIN conf[d]
          /\ \A i \in DOMAIN conf[d] :
               /\ new[d][i].id = conf[d][i].id
               /\ d # c \/ i # e => new[d][i] = conf[d][i]
    BY <1>1
  <1>3. \A d \in Cameras : \A i \in DOMAIN conf[d] :
          conf[d][i].id \in Int /\ conf[d][i].id # 0 /\ conf[d][i].id >= -n
    BY RuleOf DEF RulesApart
  <1>4. \A d \in Cameras : \A i \in DOMAIN conf[d] :
          conf[d][i].id = r.id <=> d = c /\ i = e
    BY DEF RulesApart
  <1>5. \A d \in Cameras : \A i \in DOMAIN new[d] :
          new[d][i].id # 0 /\ new[d][i].id >= -(n + 1)
    BY <1>2, <1>3
  <1>6. \A d, f \in Cameras : \A i \in DOMAIN new[d], j \in DOMAIN new[f] :
          new[d][i].id = new[f][j].id => d = f /\ i = j
    BY <1>2 DEF RulesApart
  <1>7. RulesApart(new, n + 1)
    BY <1>5, <1>6 DEF RulesApart
  <1>8. ASSUME NEW p
        PROVE  p \in Rules!Pairs(new) <=>
                 \/ p \in Rules!Pairs(conf) /\ p[2].id # r.id
                 \/ p = <<c, r>>
    <2>1. ASSUME p \in Rules!Pairs(new)
          PROVE  (p \in Rules!Pairs(conf) /\ p[2].id # r.id) \/ p = <<c, r>>
      <3>1. PICK d \in Cameras : \E i \in DOMAIN new[d] : p = <<d, new[d][i]>>
        BY <2>1, PairsHas
      <3>2. PICK i \in DOMAIN new[d] : p = <<d, new[d][i]>>
        BY <3>1
      <3>3. CASE d = c /\ i = e
        BY <1>1, <3>2, <3>3
      <3>4. CASE ~(d = c /\ i = e)
        <4>1. i \in DOMAIN conf[d] /\ p = <<d, conf[d][i]>>
          BY <1>2, <3>2, <3>4
        <4>2. p[2].id # r.id
          BY <1>4, <3>4, <4>1
        <4> QED
          BY <4>1, <4>2, PairsHas
      <3> QED
        BY <3>3, <3>4
    <2>2. ASSUME p \in Rules!Pairs(conf), p[2].id # r.id PROVE p \in Rules!Pairs(new)
      <3>1. PICK d \in Cameras : \E i \in DOMAIN conf[d] : p = <<d, conf[d][i]>>
        BY <2>2, PairsHas
      <3>2. PICK i \in DOMAIN conf[d] : p = <<d, conf[d][i]>>
        BY <3>1
      <3>3. ~(d = c /\ i = e)
        BY <2>2, <3>2
      <3>4. i \in DOMAIN new[d] /\ new[d][i] = conf[d][i]
        BY <1>2, <3>3
      <3> QED
        BY <3>2, <3>4, PairsHas
    <2>3. <<c, r>> \in Rules!Pairs(new)
      <3>1. e \in DOMAIN new[c] /\ new[c][e] = r
        BY <1>1
      <3> QED
        BY <3>1, PairsHas
    <2> QED
      BY <2>1, <2>2, <2>3
  <1> QED
    BY <1>1, <1>7, <1>8

\* A rule that is deleted is the one at its index alone.
LEMMA DeletedRule ==
  ASSUME NEW conf \in RuleConfs, NEW c \in Cameras, NEW n \in Nat,
         NEW e \in DOMAIN conf[c], RulesApart(conf, n),
         NEW q, Without(q, conf[c], e),
         NEW new, Changed(new, conf, c, q)
  PROVE  /\ new \in RuleConfs /\ RulesApart(new, n + 1)
         /\ Rules!Pairs(new) = Rules!Pairs(conf) \ {<<c, conf[c][e]>>}
  <1>3. /\ \A j \in DOMAIN q : \E k \in DOMAIN conf[c] \ {e} : q[j] = conf[c][k]
        /\ \A k \in DOMAIN conf[c] \ {e} : \E j \in DOMAIN q : q[j] = conf[c][k]
        /\ \A j, l \in DOMAIN q : j # l =>
             \E k, m \in DOMAIN conf[c] : k # m /\ q[j] = conf[c][k] /\ q[l] = conf[c][m]
    BY DEF Without
  <1>4. new \in RuleConfs /\ new[c] = q /\ \A d \in Cameras \ {c} : new[d] = conf[d]
    BY DEF Changed
  <1>5. \A d \in Cameras : \A i \in DOMAIN conf[d] :
          conf[d][i].id \in Int /\ conf[d][i].id # 0 /\ conf[d][i].id >= -n
    BY RuleOf DEF RulesApart
  <1>6. \A d \in Cameras : \A i \in DOMAIN new[d] :
          \E k \in DOMAIN conf[d] : (d = c => k # e) /\ new[d][i] = conf[d][k]
    BY <1>3, <1>4
  <1>7. \A d \in Cameras : \A k \in DOMAIN conf[d] :
          (d = c => k # e) => \E i \in DOMAIN new[d] : new[d][i] = conf[d][k]
    BY <1>3, <1>4
  <1>8. \A d \in Cameras : \A i \in DOMAIN new[d] :
          new[d][i].id # 0 /\ new[d][i].id >= -(n + 1)
    BY <1>5, <1>6
  <1>9. ASSUME NEW d \in Cameras, NEW f \in Cameras, NEW i \in DOMAIN new[d], NEW j \in DOMAIN new[f],
               new[d][i].id = new[f][j].id
        PROVE  d = f /\ i = j
    <2>1. d = f
      BY <1>6, <1>9 DEF RulesApart
    <2>2. CASE d = c
      <3>1. i # j => \E k, m \in DOMAIN conf[c] :
                       k # m /\ new[d][i] = conf[c][k] /\ new[d][j] = conf[c][m]
        BY <1>3, <1>4, <2>1, <2>2
      <3> QED
        BY <1>9, <2>1, <3>1 DEF RulesApart
    <2>3. CASE d # c
      BY <1>4, <1>9, <2>1, <2>3 DEF RulesApart
    <2> QED
      BY <2>1, <2>2, <2>3
  <1>10. RulesApart(new, n + 1)
    BY <1>8, <1>9 DEF RulesApart
  <1>11. \A d \in Cameras : \A k \in DOMAIN conf[d] :
           conf[d][k] = conf[c][e] /\ d = c => k = e
    BY DEF RulesApart
  <1>12. ASSUME NEW p
         PROVE  p \in Rules!Pairs(new) <=> p \in Rules!Pairs(conf) /\ p # <<c, conf[c][e]>>
    <2>1. ASSUME p \in Rules!Pairs(new)
          PROVE  p \in Rules!Pairs(conf) /\ p # <<c, conf[c][e]>>
      <3>1. PICK d \in Cameras : \E i \in DOMAIN new[d] : p = <<d, new[d][i]>>
        BY <2>1, PairsHas
      <3>2. PICK i \in DOMAIN new[d] : p = <<d, new[d][i]>>
        BY <3>1
      <3>3. PICK k \in DOMAIN conf[d] : (d = c => k # e) /\ new[d][i] = conf[d][k]
        BY <1>6
      <3>4. p = <<d, conf[d][k]>>
        BY <3>2, <3>3
      <3>5. p # <<c, conf[c][e]>>
        BY <1>11, <3>3, <3>4
      <3> QED
        BY <3>4, <3>5, PairsHas
    <2>2. ASSUME p \in Rules!Pairs(conf), p # <<c, conf[c][e]>> PROVE p \in Rules!Pairs(new)
      <3>1. PICK d \in Cameras : \E i \in DOMAIN conf[d] : p = <<d, conf[d][i]>>
        BY <2>2, PairsHas
      <3>2. PICK k \in DOMAIN conf[d] : p = <<d, conf[d][k]>>
        BY <3>1
      <3>3. d = c => k # e
        BY <2>2, <3>2
      <3>4. PICK i \in DOMAIN new[d] : new[d][i] = conf[d][k]
        BY <1>7, <3>3
      <3> QED
        BY <3>2, <3>4, PairsHas
    <2> QED
      BY <2>1, <2>2
  <1> QED
    BY <1>4, <1>10, <1>12

LEMMA RuleInit == Rules!Init => RuleInv
  <1> SUFFICES ASSUME Rules!Init PROVE RuleInv
    OBVIOUS
  <1>1. /\ cam = Rules!NoCamera /\ fetched = [c \in Cameras |-> <<>>] /\ rules = RulesAtStart
        /\ query = Rules!Idle /\ puts = <<>> /\ draft = Rules!Fresh /\ editing = 0
        /\ meant = Rules!Pairs(RulesAtStart) /\ hasty = FALSE /\ strayed = FALSE
    BY DEF Rules!Init
  <1>2. /\ DefaultRule \in Contents
        /\ RulesAtStart \in [Cameras -> Seq([id : Nat \ {0}, at : Contents])]
        /\ \A c, d \in Cameras : \A i \in DOMAIN RulesAtStart[c], j \in DOMAIN RulesAtStart[d] :
             RulesAtStart[c][i].id = RulesAtStart[d][j].id => c = d /\ i = j
    BY Parameters DEF Rules!Listed
  <1>3. \A c \in Cameras :
          /\ RulesAtStart[c] \in Seq(RuleSet)
          /\ \A i \in DOMAIN RulesAtStart[c] : RulesAtStart[c][i].id \in Nat \ {0}
    <2> SUFFICES ASSUME NEW c \in Cameras
                 PROVE  /\ RulesAtStart[c] \in Seq(RuleSet)
                        /\ \A i \in DOMAIN RulesAtStart[c] : RulesAtStart[c][i].id \in Nat \ {0}
      OBVIOUS
    <2>1. RulesAtStart[c] \in Seq([id : Nat \ {0}, at : Contents])
      BY <1>2
    <2>2. \A i \in DOMAIN RulesAtStart[c] : RulesAtStart[c][i] \in [id : Nat \ {0}, at : Contents]
      BY <2>1, ElementOf
    <2>3. [id : Nat \ {0}, at : Contents] \subseteq RuleSet
      BY DEF RuleSet
    <2>4. \A i \in DOMAIN RulesAtStart[c] : RulesAtStart[c][i] \in RuleSet
      BY <2>2, <2>3
    <2>5. Len(RulesAtStart[c]) \in Nat /\ DOMAIN RulesAtStart[c] = 1..Len(RulesAtStart[c])
      BY <2>1
    <2>6. RulesAtStart[c] \in [1..Len(RulesAtStart[c]) -> RuleSet]
      BY <2>1, <2>4, <2>5
    <2>7. RulesAtStart[c] \in Seq(RuleSet)
      BY <2>5, <2>6
    <2> QED
      BY <2>2, <2>7
  <1>4. rules \in RuleConfs
    <2>1. RulesAtStart = [c \in Cameras |-> RulesAtStart[c]]
      BY <1>2
    <2> QED
      BY <1>1, <1>3, <2>1 DEF RuleConfs
  <1>5. \A p \in meant : p \in Cameras \X RuleSet
    <2> SUFFICES ASSUME NEW p \in meant PROVE p \in Cameras \X RuleSet
      OBVIOUS
    <2>1. PICK c \in Cameras : \E i \in DOMAIN rules[c] : p = <<c, rules[c][i]>>
      BY <1>1, PairsHas
    <2> QED
      BY <1>4, <2>1, RuleOf
  <1>6. RuleType
    <2>1. fetched \in RuleConfs /\ puts \in Seq(RulePuts \cup {Rules!Over})
      BY <1>1 DEF RuleConfs
    <2>2. draft \in RuleSet /\ editing \in Nat
      BY <1>1, <1>2 DEF Rules!Fresh, RuleSet
    <2> QED
      BY <1>1, <1>4, <1>5, <2>1, <2>2 DEF RuleType, Rules!Idle
  <1>7. DraftOf
    BY <1>1 DEF DraftOf, Rules!Fresh
  <1>8. RulesMeant
    <2>1. Len(puts) = 0 /\ DOMAIN puts = {}
      BY <1>1
    <2>2. RulesApart(rules, 0)
      BY <1>1, <1>2, <1>3 DEF RulesApart
    <2> QED
      BY <1>1, <2>1, <2>2 DEF RulesMeant
  <1> QED
    BY <1>6, <1>7, <1>8 DEF RuleInv

LEMMA ShownIs ==
  ASSUME RuleType
  PROVE  /\ cam # Rules!NoCamera => cam \in Cameras /\ Rules!Shown = fetched[cam]
         /\ cam = Rules!NoCamera => Rules!Shown = <<>>
         /\ Len(Rules!Shown) \in Nat /\ DOMAIN Rules!Shown = 1..Len(Rules!Shown)
         /\ Rules!Shown \in Seq(RuleSet)
         /\ \A i \in DOMAIN Rules!Shown : Rules!Shown[i] \in RuleSet
  <1>1. fetched \in RuleConfs /\ cam \in Cameras \cup {Rules!NoCamera}
    BY DEF RuleType
  <1>2. CASE cam = Rules!NoCamera
    <2>1. Rules!Shown = <<>>
      BY <1>2 DEF Rules!Shown
    <2> QED
      BY <1>2, <2>1
  <1>3. CASE cam # Rules!NoCamera
    <2>1. cam \in Cameras /\ Rules!Shown = fetched[cam]
      BY <1>1, <1>3 DEF Rules!Shown
    <2>2. PICK s : s = fetched[cam]
      OBVIOUS
    <2>3. s \in Seq(RuleSet) /\ Len(s) \in Nat /\ DOMAIN s = 1..Len(s)
          /\ \A i \in DOMAIN s : s[i] \in RuleSet
      BY <1>1, <2>1, <2>2, RuleOf
    <2> QED
      BY <1>3, <2>1, <2>2, <2>3
  <1> QED
    BY <1>2, <1>3

\* What is fetched, selected and drawn.
LEMMA RuleViews ==
  ASSUME RuleInv,
         \/ Rules!OpenPage \/ Rules!Refocus \/ Rules!Read
         \/ Rules!Fetched(TRUE) \/ Rules!Fetched(FALSE) \/ Rules!CancelEdit
         \/ \E c \in Cameras : Rules!SelectCamera(c)
         \/ \E x \in Contents : Rules!Redraw(x)
         \/ \E i \in DOMAIN Rules!Shown : Rules!EditRule(i)
  PROVE  RuleInv'
  <1>0. RuleType /\ DraftOf /\ (~hasty /\ ~strayed => RulesMeant)
    BY DEF RuleInv
  <1>1. UNCHANGED <<rules, puts, meant, hasty>>
    BY DEF Rules!OpenPage, Rules!Refocus, Rules!Read, Rules!Fetched, Rules!CancelEdit,
           Rules!SelectCamera, Rules!Redraw, Rules!EditRule
  <1>2. RulesMeant => RulesMeant'
    BY <1>1 DEF RulesMeant
  <1>3. CASE Rules!OpenPage
    <2>1. /\ UNCHANGED <<fetched, draft, editing, strayed>> /\ cam = Rules!NoCamera
          /\ cam' = First /\ query' = Rules!Refetched
      BY <1>3 DEF Rules!OpenPage, Rules!form
    <2>2. First \in Cameras
      BY Parameters DEF Rules!Listed
    <2>3. query'.step = "read" => UNCHANGED query
      BY <2>1 DEF Rules!Refetched
    <2>4. RuleType'
      BY <1>0, <1>1, <2>1, <2>2, <2>3 DEF RuleType
    <2>5. editing # 0 => strayed
      BY <1>0, <2>1, ShownIs DEF DraftOf
    <2>6. DraftOf'
      BY <1>0, <2>1, <2>5 DEF DraftOf
    <2> QED
      BY <1>0, <1>1, <1>2, <2>1, <2>4, <2>6 DEF RuleInv
  <1>4. CASE Rules!Refocus \/ Rules!Read
    <2>1. /\ UNCHANGED <<cam, fetched, draft, editing, strayed>>
          /\ query'.step = "read" => UNCHANGED query \/ query' = [step |-> "read", conf |-> rules]
      BY <1>4 DEF Rules!Refocus, Rules!Read, Rules!Refetched, Rules!form
    <2>2. RuleType'
      BY <1>0, <1>1, <2>1 DEF RuleType
    <2>3. DraftOf'
      BY <1>0, <2>1 DEF DraftOf, Rules!Shown
    <2> QED
      BY <1>0, <1>1, <1>2, <2>1, <2>2, <2>3 DEF RuleInv
  <1>5. CASE Rules!Fetched(TRUE) \/ Rules!Fetched(FALSE)
    <2>1. /\ UNCHANGED <<cam, draft, editing>> /\ query.step = "read" /\ query' = Rules!Idle
          /\ fetched' \in {query.conf, fetched}
          /\ strayed' = (strayed \/ (editing # 0 /\ fetched'[cam] # Rules!Shown))
      BY <1>5 DEF Rules!Fetched, Rules!form
    <2>2. strayed' \in BOOLEAN
          /\ (~strayed' => ~strayed /\ (editing # 0 => fetched'[cam] = Rules!Shown))
      BY <1>0, <2>1, Zenon DEF RuleType
    <2>3. RuleType'
      BY <1>0, <1>1, <2>1, <2>2 DEF RuleType, Rules!Idle
    <2>4. ~strayed' /\ editing # 0 => Rules!Shown' = Rules!Shown
      BY <2>1, <2>2 DEF Rules!Shown
    <2>5. DraftOf'
      BY <1>0, <2>1, <2>2, <2>4 DEF DraftOf
    <2> QED
      BY <1>0, <1>1, <1>2, <2>2, <2>3, <2>5 DEF RuleInv
  <1>6. ASSUME NEW c \in Cameras, Rules!SelectCamera(c) PROVE RuleInv'
    <2>1. /\ UNCHANGED <<fetched, query, draft, editing>> /\ cam' = c
          /\ strayed' = (strayed \/ (editing # 0 /\ c # cam))
      BY <1>6 DEF Rules!SelectCamera, Rules!form
    <2>2. strayed' \in BOOLEAN /\ (~strayed' => ~strayed /\ (editing # 0 => c = cam))
      BY <1>0, <2>1, Zenon DEF RuleType
    <2>3. RuleType'
      BY <1>0, <1>1, <2>1, <2>2 DEF RuleType
    <2>4. ~strayed' /\ editing # 0 => Rules!Shown' = Rules!Shown
      BY <2>1, <2>2 DEF Rules!Shown
    <2>5. DraftOf'
      BY <1>0, <2>1, <2>2, <2>4 DEF DraftOf
    <2> QED
      BY <1>0, <1>1, <1>2, <2>2, <2>3, <2>5 DEF RuleInv
  <1>7. ASSUME NEW x \in Contents, Rules!Redraw(x) PROVE RuleInv'
    <2>1. /\ UNCHANGED <<cam, fetched, query, editing, strayed>>
          /\ draft' = [draft EXCEPT !.at = x]
      BY <1>7 DEF Rules!Redraw
    <2>2. draft' \in RuleSet /\ draft'.id = draft.id
      BY <1>0, <2>1 DEF RuleType, RuleSet
    <2>3. RuleType'
      BY <1>0, <1>1, <2>1, <2>2 DEF RuleType
    <2>4. DraftOf'
      BY <1>0, <2>1, <2>2 DEF DraftOf, Rules!Shown
    <2> QED
      BY <1>0, <1>1, <1>2, <2>1, <2>3, <2>4 DEF RuleInv
  <1>8. CASE Rules!CancelEdit
    <2>1. /\ UNCHANGED <<cam, fetched, query, strayed>> /\ draft' = Rules!Fresh /\ editing' = 0
      BY <1>8 DEF Rules!CancelEdit, Rules!Emptied
    <2>2. draft' \in RuleSet /\ draft'.id = 0
      BY <2>1, Parameters DEF Rules!Fresh, Rules!Listed, RuleSet
    <2>3. RuleType'
      BY <1>0, <1>1, <2>1, <2>2 DEF RuleType
    <2>4. DraftOf'
      BY <2>1, <2>2 DEF DraftOf
    <2> QED
      BY <1>0, <1>1, <1>2, <2>1, <2>3, <2>4 DEF RuleInv
  <1>9. ASSUME NEW i \in DOMAIN Rules!Shown, Rules!EditRule(i) PROVE RuleInv'
    <2>1. /\ UNCHANGED <<cam, fetched, query, strayed>>
          /\ draft' = Rules!Shown[i] /\ editing' = i
      BY <1>9 DEF Rules!EditRule
    <2>2. draft' \in RuleSet /\ i \in Nat \ {0} /\ Rules!Shown' = Rules!Shown
      <3>1. Rules!Shown' = Rules!Shown
        BY <2>1 DEF Rules!Shown
      <3> QED
        BY <1>0, <2>1, <3>1, ShownIs
    <2>3. RuleType'
      BY <1>0, <1>1, <2>1, <2>2 DEF RuleType
    <2>4. DraftOf'
      BY <2>1, <2>2 DEF DraftOf
    <2> QED
      BY <1>0, <1>1, <1>2, <2>1, <2>3, <2>4 DEF RuleInv
  <1> QED
    BY <1>3, <1>4, <1>5, <1>6, <1>7, <1>8, <1>9

\* What is put, of the rule c, and what is meant by it.
RulePut(q, means, f) == [step |-> "sent", conf |-> Rules!With(q), means |-> means, ofForm |-> f]

LEMMA PutSends ==
  ASSUME RuleType, NEW q \in Seq(RuleSet), NEW means \in SUBSET (Cameras \X RuleSet),
         NEW f \in BOOLEAN, cam \in Cameras, Rules!Put(q, means, f)
  PROVE  /\ UNCHANGED <<cam, fetched, query, rules, draft, editing, meant>>
         /\ Rules!With(q) \in RuleConfs /\ Changed(Rules!With(q), fetched, cam, q)
         /\ puts' \in Seq(RulePuts \cup {Rules!Over})
         /\ Len(puts) \in Nat /\ Len(puts') = Len(puts) + 1
         /\ hasty' \in BOOLEAN
         /\ ~hasty' => ~hasty /\ fetched = rules
         /\ ~hasty' => \A i \in DOMAIN puts' : puts'[i].step = "sent" =>
                         puts'[i].conf = Rules!With(q) /\ puts'[i].means = means
  <1>1. /\ UNCHANGED <<cam, fetched, query, rules, draft, editing, meant>>
        /\ puts' = Append(puts, RulePut(q, means, f))
        /\ hasty' = (hasty \/ (\E i \in DOMAIN puts : puts[i] # Rules!Over) \/ fetched # rules)
    BY DEF Rules!Put, Rules!form, RulePut
  <1>2. Changed(Rules!With(q), fetched, cam, q)
    BY ChangedOf DEF RuleType, Rules!With
  <1>3. Rules!With(q) \in RuleConfs
    BY <1>2 DEF Changed
  <1>4. PICK x : x = RulePut(q, means, f)
    OBVIOUS
  <1>5. x \in RulePuts /\ x.conf = Rules!With(q) /\ x.means = means
    BY <1>3, <1>4 DEF RulePut, RulePuts
  <1>6. PICK n \in Nat : n = Len(puts) /\ DOMAIN puts = 1..n
    <2>1. Len(puts) \in Nat /\ DOMAIN puts = 1..Len(puts)
      BY DEF RuleType
    <2> QED
      BY <2>1
  <1>7. /\ puts' \in Seq(RulePuts \cup {Rules!Over}) /\ Len(puts') = n + 1 /\ DOMAIN puts' = 1..(n + 1)
        /\ \A i \in 1..n : puts'[i] = puts[i]
        /\ puts'[n + 1] = x
    <2>1. puts \in Seq(RulePuts \cup {Rules!Over}) /\ x \in RulePuts \cup {Rules!Over}
      BY <1>5 DEF RuleType
    <2> HIDE DEF RulePuts
    <2> QED
      BY <1>1, <1>4, <1>6, <2>1, AddedIs
  <1>8. hasty' \in BOOLEAN /\ (~hasty' => ~hasty /\ fetched = rules)
        /\ (~hasty' => \A i \in DOMAIN puts : puts[i] = Rules!Over)
    BY <1>1, Zenon
  <1>9. ASSUME ~hasty', NEW i \in DOMAIN puts', puts'[i].step = "sent"
        PROVE  puts'[i].conf = Rules!With(q) /\ puts'[i].means = means
    <2>1. CASE i = n + 1
      BY <1>5, <1>7, <2>1
    <2>2. CASE i # n + 1
      <3>1. i \in 1..n
        BY <1>7, <2>2
      <3>2. puts'[i] = Rules!Over
        BY <1>6, <1>7, <1>8, <1>9, <3>1
      <3> QED
        BY <1>9, <3>2 DEF Rules!Over
    <2> QED
      BY <2>1, <2>2
  <1> QED
    BY <1>1, <1>2, <1>3, <1>6, <1>7, <1>8, <1>9

\* What the rule c has become is stored as it is meant.
PutMeans(q, means) ==
  RulesApart(Rules!With(q), Len(puts) + 1) /\ Rules!Pairs(Rules!With(q)) = means

LEMMA PutKeeps ==
  ASSUME RuleInv, NEW q \in Seq(RuleSet), NEW means \in SUBSET (Cameras \X RuleSet),
         NEW f \in BOOLEAN, cam \in Cameras, Rules!Put(q, means, f),
         strayed' \in BOOLEAN, ~strayed' => ~strayed,
         ~strayed' /\ ~hasty /\ fetched = rules => PutMeans(q, means)
  PROVE  RuleInv'
  <1>0. RuleType /\ DraftOf /\ (~hasty /\ ~strayed => RulesMeant)
    BY DEF RuleInv
  <1>1. /\ UNCHANGED <<cam, fetched, query, rules, draft, editing, meant>>
        /\ puts' \in Seq(RulePuts \cup {Rules!Over})
        /\ Len(puts) \in Nat /\ Len(puts') = Len(puts) + 1
        /\ hasty' \in BOOLEAN
        /\ ~hasty' => ~hasty /\ fetched = rules
        /\ ~hasty' => \A i \in DOMAIN puts' : puts'[i].step = "sent" =>
                        puts'[i].conf = Rules!With(q) /\ puts'[i].means = means
    BY <1>0, PutSends
  <1>2. RuleType'
    BY <1>0, <1>1 DEF RuleType
  <1>3. DraftOf'
    BY <1>0, <1>1 DEF DraftOf, Rules!Shown
  <1>4. ASSUME ~hasty', ~strayed' PROVE RulesMeant'
    <2>1. RulesMeant /\ PutMeans(q, means)
      BY <1>0, <1>1, <1>4
    <2>2. rules \in RuleConfs
      BY <1>0 DEF RuleType
    <2>3. RulesApart(rules, Len(puts) + 1)
      <3>1. \A c \in Cameras : \A i \in DOMAIN rules[c] :
              rules[c][i].id \in Int /\ rules[c][i].id # 0 /\ rules[c][i].id >= -Len(puts)
        BY <2>1, <2>2, RuleOf DEF RulesMeant, RulesApart
      <3>2. \A c \in Cameras : \A i \in DOMAIN rules[c] :
              rules[c][i].id # 0 /\ rules[c][i].id >= -(Len(puts) + 1)
        BY <1>1, <3>1
      <3> QED
        BY <2>1, <3>2 DEF RulesMeant, RulesApart
    <2>4. RulesApart(rules', Len(puts')) /\ Rules!Pairs(rules') = meant'
      BY <1>1, <2>1, <2>3 DEF RulesMeant
    <2>5. \A i \in DOMAIN puts' : puts'[i].step = "sent" =>
            RulesApart(puts'[i].conf, Len(puts')) /\ Rules!Pairs(puts'[i].conf) = puts'[i].means
      BY <1>1, <1>4, <2>1 DEF PutMeans
    <2> QED
      BY <2>4, <2>5 DEF RulesMeant
  <1> QED
    BY <1>2, <1>3, <1>4 DEF RuleInv

LEMMA SetAtIs ==
  ASSUME NEW s \in Seq(RuleSet), NEW e \in Nat \ {0}, NEW r \in RuleSet
  PROVE  /\ Rules!SetAt(s, e, r) \in Seq(RuleSet)
         /\ e \in DOMAIN s =>
              /\ DOMAIN Rules!SetAt(s, e, r) = DOMAIN s /\ Rules!SetAt(s, e, r)[e] = r
              /\ \A j \in DOMAIN s \ {e} : Rules!SetAt(s, e, r)[j] = s[j]
  <1>1. PICK n \in Nat : n = Len(s) /\ DOMAIN s = 1..n
    <2>1. Len(s) \in Nat /\ DOMAIN s = 1..Len(s)
      OBVIOUS
    <2> QED
      BY <2>1
  <1> DEFINE m == IF e > n THEN e ELSE n
  <1>2. m \in Nat /\ (e \in 1..n => m = n)
    BY <1>1
  <1>3. \A j \in 1..m : (IF j = e THEN r ELSE IF j <= n THEN s[j] ELSE Rules!Hole) \in RuleSet
    <2>1. Rules!Hole \in RuleSet
      BY DEF Rules!Hole, RuleSet
    <2>2. \A j \in 1..n : s[j] \in RuleSet
      BY <1>1, ElementOf
    <2>3. \A j \in 1..m : j <= n => j \in 1..n
      BY <1>1, <1>2
    <2> HIDE DEF m
    <2> QED
      BY <2>1, <2>2, <2>3
  <1>4. Rules!SetAt(s, e, r) =
          [j \in 1..m |-> IF j = e THEN r ELSE IF j <= n THEN s[j] ELSE Rules!Hole]
    BY <1>1 DEF Rules!SetAt
  <1> HIDE DEF m
  <1>5. Rules!SetAt(s, e, r) \in Seq(RuleSet)
    BY <1>2, <1>3, <1>4
  <1>6. ASSUME e \in DOMAIN s
        PROVE  /\ DOMAIN Rules!SetAt(s, e, r) = DOMAIN s /\ Rules!SetAt(s, e, r)[e] = r
               /\ \A j \in DOMAIN s \ {e} : Rules!SetAt(s, e, r)[j] = s[j]
    BY <1>1, <1>2, <1>4, <1>6
  <1> QED
    BY <1>5, <1>6

LEMMA RuleSaves == RuleInv /\ Rules!SaveRule => RuleInv'
  <1> SUFFICES ASSUME RuleInv, Rules!SaveRule PROVE RuleInv'
    OBVIOUS
  <1>0. RuleType /\ DraftOf /\ (~hasty /\ ~strayed => RulesMeant)
    BY DEF RuleInv
  <1> DEFINE clean == IF draft.id = 0 THEN [draft EXCEPT !.id = -1 - Len(puts)] ELSE draft
             means == (meant \ {p \in meant : p[2].id = draft.id}) \cup {<<cam, clean>>}
             q == IF editing = 0 THEN Append(Rules!Shown, clean)
                  ELSE Rules!SetAt(Rules!Shown, editing, clean)
  <1>1. Rules!Put(q, means, TRUE) /\ strayed' = strayed /\ cam # Rules!NoCamera
    BY DEF Rules!SaveRule, Rules!Rendered
  <1>2. cam \in Cameras /\ Rules!Shown = fetched[cam] /\ fetched[cam] \in Seq(RuleSet)
    BY <1>0, <1>1, ShownIs
  <1>3. Len(puts) \in Nat
    BY <1>0 DEF RuleType
  <1>4. clean \in RuleSet
        /\ clean.id = IF draft.id = 0 THEN -1 - Len(puts) ELSE draft.id
    BY <1>0, <1>3 DEF RuleType, RuleSet
  <1>5. means \in SUBSET (Cameras \X RuleSet)
    <2> HIDE DEF clean
    <2> QED
      BY <1>0, <1>2, <1>4 DEF RuleType
  <1>6. q \in Seq(RuleSet)
    <2> HIDE DEF clean
    <2>1. editing \in Nat
      BY <1>0 DEF RuleType
    <2>2. CASE editing = 0
      BY <1>2, <1>4, <2>2, AddedIs
    <2>3. CASE editing # 0
      BY <1>2, <1>4, <2>1, <2>3, SetAtIs
    <2> QED
      BY <2>2, <2>3
  <1>7. ASSUME ~strayed, ~hasty, fetched = rules PROVE PutMeans(q, means)
    <2>1. RulesApart(fetched, Len(puts)) /\ Rules!Pairs(fetched) = meant
      BY <1>0, <1>7 DEF RulesMeant
    <2>2. fetched \in RuleConfs
      BY <1>0 DEF RuleType
    <2>3. Changed(Rules!With(q), fetched, cam, q)
      BY <1>2, <1>6, <2>2, ChangedOf DEF Rules!With
    <2>4. CASE editing = 0
      <3>1. draft.id = 0 /\ clean.id = -1 - Len(puts)
        BY <1>0, <1>4, <2>4 DEF DraftOf
      <3>2. q = Append(fetched[cam], clean)
        BY <1>2, <2>4
      <3> HIDE DEF clean, q
      <3>3. /\ RulesApart(Rules!With(q), Len(puts) + 1)
            /\ Rules!Pairs(Rules!With(q)) = Rules!Pairs(fetched) \cup {<<cam, clean>>}
            /\ {p \in Rules!Pairs(fetched) : p[2].id = 0} = {}
        BY <1>2, <1>3, <1>4, <2>1, <2>2, <2>3, <3>1, <3>2, AddedRule
      <3>4. means = meant \cup {<<cam, clean>>}
        BY <2>1, <3>1, <3>3
      <3> QED
        BY <2>1, <3>3, <3>4 DEF PutMeans
    <2>5. CASE editing # 0
      <3>1. editing \in Nat \ {0} /\ editing \in DOMAIN fetched[cam]
            /\ fetched[cam][editing].id = draft.id
        BY <1>0, <1>2, <1>7, <2>5 DEF RuleType, DraftOf
      <3>2. draft.id # 0 /\ clean.id = draft.id
        BY <1>2, <1>4, <2>1, <3>1 DEF RulesApart
      <3>3. q = Rules!SetAt(fetched[cam], editing, clean)
        BY <1>2, <2>5
      <3> HIDE DEF clean, q
      <3>4. /\ DOMAIN q = DOMAIN fetched[cam] /\ q[editing] = clean
            /\ \A j \in DOMAIN fetched[cam] \ {editing} : q[j] = fetched[cam][j]
        BY <1>2, <1>4, <3>1, <3>3, SetAtIs
      <3>5. /\ RulesApart(Rules!With(q), Len(puts) + 1)
            /\ Rules!Pairs(Rules!With(q)) =
                 (Rules!Pairs(fetched) \ {p \in Rules!Pairs(fetched) : p[2].id = clean.id})
                   \cup {<<cam, clean>>}
        BY <1>2, <1>3, <1>4, <1>6, <2>1, <2>2, <2>3, <3>1, <3>2, <3>4, EditedRule
      <3> QED
        BY <2>1, <3>2, <3>5 DEF PutMeans
    <2> QED
      BY <2>4, <2>5
  <1> HIDE DEF q, means
  <1> QED
    BY <1>0, <1>1, <1>2, <1>5, <1>6, <1>7, PutKeeps DEF RuleType

LEMMA RuleDeletes ==
  ASSUME RuleInv, NEW i \in DOMAIN Rules!Shown, Rules!DeleteRule(i)
  PROVE  RuleInv'
  <1>0. RuleType /\ DraftOf /\ (~hasty /\ ~strayed => RulesMeant)
    BY DEF RuleInv
  <1> DEFINE s == Rules!Shown
             q == SubSeq(s, 1, i - 1) \o SubSeq(s, i + 1, Len(s))
             means == meant \ {<<cam, s[i]>>}
  <1>1. Rules!Put(q, means, FALSE) /\ cam # Rules!NoCamera
        /\ strayed' = (strayed \/ editing # 0)
    BY DEF Rules!DeleteRule, Rules!Rendered
  <1>2. strayed' \in BOOLEAN /\ (~strayed' => ~strayed)
    BY <1>1, Zenon
  <1>3. cam \in Cameras /\ s = fetched[cam] /\ s \in Seq(RuleSet)
    BY <1>0, <1>1, ShownIs
  <1>4. q \in Seq(RuleSet) /\ Without(q, s, i)
    <2> HIDE DEF s
    <2>1. i \in DOMAIN s
      BY DEF s
    <2>2. q \in Seq(RuleSet) /\ \E n \in Nat : RemovedOf(q, s, i, n)
      BY <1>3, <2>1, RemovedIs
    <2> HIDE DEF q
    <2> QED
      BY <2>2, RemovedHas
  <1>5. means \in SUBSET (Cameras \X RuleSet)
    BY <1>0 DEF RuleType
  <1>6. ASSUME ~strayed, ~hasty, fetched = rules PROVE PutMeans(q, means)
    <2>0. i \in DOMAIN fetched[cam] /\ Without(q, fetched[cam], i)
      BY <1>3, <1>4
    <2> HIDE DEF q
    <2>1. RulesApart(fetched, Len(puts)) /\ Rules!Pairs(fetched) = meant
      BY <1>0, <1>6 DEF RulesMeant
    <2>2. fetched \in RuleConfs /\ Len(puts) \in Nat
      BY <1>0 DEF RuleType
    <2>3. Changed(Rules!With(q), fetched, cam, q)
      BY <1>3, <1>4, <2>2, ChangedOf DEF Rules!With
    <2>4. /\ RulesApart(Rules!With(q), Len(puts) + 1)
          /\ Rules!Pairs(Rules!With(q)) = Rules!Pairs(fetched) \ {<<cam, fetched[cam][i]>>}
      <3> HIDE DEF s, means
      <3>1. PICK t : t = q
        OBVIOUS
      <3>2. PICK new : new = Rules!With(q)
        OBVIOUS
      <3>3. Without(t, fetched[cam], i) /\ Changed(new, fetched, cam, t) /\ cam \in Cameras
        BY <1>3, <2>0, <2>3, <3>1, <3>2
      <3>4. RulesApart(new, Len(puts) + 1)
        BY <2>0, <2>1, <2>2, <3>3, DeletedRule
      <3>5. Rules!Pairs(new) = Rules!Pairs(fetched) \ {<<cam, fetched[cam][i]>>}
        BY <2>0, <2>1, <2>2, <3>3, DeletedRule
      <3> QED
        BY <3>2, <3>4, <3>5
    <2> QED
      BY <1>3, <2>1, <2>4 DEF PutMeans
  <1> HIDE DEF q, means
  <1> QED
    BY <1>1, <1>2, <1>3, <1>4, <1>5, <1>6, PutKeeps

LEMMA RuleAnswers ==
  ASSUME RuleInv, NEW i \in DOMAIN puts, Rules!Apply(i) \/ Rules!Saved(i) \/ Rules!SaveFailed(i)
  PROVE  RuleInv'
  <1>0. RuleType /\ DraftOf /\ (~hasty /\ ~strayed => RulesMeant)
    BY DEF RuleInv
  <1>1. UNCHANGED <<cam, fetched, hasty, strayed>>
    BY DEF Rules!Apply, Rules!Saved, Rules!SaveFailed
  <1>2. puts \in Seq(RulePuts \cup {Rules!Over}) /\ puts[i] \in RulePuts \cup {Rules!Over}
    BY <1>0 DEF RuleType
  <1>3. CASE Rules!Apply(i)
    <2>1. /\ UNCHANGED <<query, draft, editing>> /\ puts[i].step = "sent"
          /\ rules' = puts[i].conf /\ meant' = puts[i].means
          /\ puts' = [puts EXCEPT ![i] = [puts[i] EXCEPT !.step = "applied"]]
      BY <1>3 DEF Rules!Apply, Rules!form
    <2>2. puts[i] \in RulePuts
      BY <1>2, <2>1 DEF Rules!Over
    <2>3. PICK x : x = [puts[i] EXCEPT !.step = "applied"]
      OBVIOUS
    <2>4. x \in RulePuts /\ x.step = "applied"
      BY <2>2, <2>3 DEF RulePuts
    <2>5. puts' \in Seq(RulePuts \cup {Rules!Over}) /\ DOMAIN puts' = DOMAIN puts
          /\ Len(puts') = Len(puts)
      BY <1>2, <2>1, <2>3, <2>4
    <2>6. \A j \in DOMAIN puts : puts'[j].step = "sent" => puts'[j] = puts[j]
      BY <1>2, <2>1, <2>3, <2>4
    <2>7. rules' \in RuleConfs /\ meant' \in SUBSET (Cameras \X RuleSet)
      BY <2>1, <2>2 DEF RulePuts
    <2>8. RuleType'
      BY <1>0, <1>1, <2>1, <2>5, <2>7 DEF RuleType
    <2>9. DraftOf'
      BY <1>0, <1>1, <2>1 DEF DraftOf, Rules!Shown
    <2>10. RulesMeant => RulesMeant'
      BY <2>1, <2>5, <2>6 DEF RulesMeant
    <2> QED
      BY <1>0, <1>1, <2>8, <2>9, <2>10 DEF RuleInv
  <1>4. CASE Rules!Saved(i) \/ Rules!SaveFailed(i)
    <2>1. /\ UNCHANGED <<rules, meant>> /\ puts' = [puts EXCEPT ![i] = Rules!Over]
          /\ query'.step = "read" => UNCHANGED query
          /\ \/ UNCHANGED <<draft, editing>>
             \/ draft' = Rules!Fresh /\ editing' = 0
      BY <1>4 DEF Rules!Saved, Rules!SaveFailed, Rules!Refetched, Rules!Emptied, Rules!form
    <2>2. puts' \in Seq(RulePuts \cup {Rules!Over}) /\ DOMAIN puts' = DOMAIN puts
          /\ Len(puts') = Len(puts)
      BY <1>2, <2>1
    <2>3. \A j \in DOMAIN puts : puts'[j].step = "sent" => puts'[j] = puts[j]
      BY <1>2, <2>1 DEF Rules!Over
    <2>4. Rules!Fresh \in RuleSet /\ Rules!Fresh.id = 0
      BY Parameters DEF Rules!Fresh, Rules!Listed, RuleSet
    <2>5. RuleType'
      BY <1>0, <1>1, <2>1, <2>2, <2>4 DEF RuleType
    <2>6. DraftOf'
      BY <1>0, <1>1, <2>1, <2>4 DEF DraftOf, Rules!Shown
    <2>7. RulesMeant => RulesMeant'
      BY <2>1, <2>2, <2>3 DEF RulesMeant
    <2> QED
      BY <1>0, <1>1, <2>5, <2>6, <2>7 DEF RuleInv
  <1> QED
    BY <1>3, <1>4

LEMMA RuleKept == RuleInv /\ (Rules!Next \/ UNCHANGED rule) => RuleInv'
  <1>1. RuleInv /\ UNCHANGED rule => RuleInv'
    BY DEF rule, RuleInv, RuleType, DraftOf, RulesMeant, Rules!Shown
  <1>2. RuleInv /\ Rules!Next => RuleInv'
    BY RuleViews, RuleSaves, RuleDeletes, RuleAnswers DEF Rules!Next
  <1> QED
    BY <1>1, <1>2

LEMMA RuleSays == RuleInv => Rules!AsMeant
  BY DEF RuleInv, RulesMeant, Rules!AsMeant

-----------------------------------------------------------------------------
(* The lines of the people counter.                                        *)

\* Clean lines are those of the configuration, or have just been saved.
LinesLike ==
  /\ put = Lines!Idle /\ ~dirty => lines = config[selected] \/ lines = counting[selected]
  /\ put # Lines!Idle => lines = IF dirty THEN put.conf[selected] ELSE config[selected]

LineInv ==
  /\ selected \in Cameras \cup {Lines!NoCamera} /\ DOMAIN config = Cameras /\ DOMAIN counting = Cameras
  /\ refetch.step = "read" => DOMAIN refetch.conf = Cameras
  /\ put = Lines!Idle \/ (put.step \in {"sent", "applied"} /\ DOMAIN put.conf = Cameras
                          /\ put = [step |-> put.step, conf |-> put.conf])
  /\ put.step = "applied" => counting = put.conf
  /\ dirty \in BOOLEAN /\ late \in BOOLEAN
  /\ selected # Lines!NoCamera /\ ~late => LinesLike

LEMMA LineInit == Lines!Init => LineInv
  <1> SUFFICES ASSUME Lines!Init PROVE LineInv
    OBVIOUS
  <1>1. /\ selected = Lines!NoCamera /\ DOMAIN config = Cameras /\ DOMAIN counting = Cameras
        /\ refetch.step # "read" /\ put = Lines!Idle /\ put.step # "applied"
        /\ dirty = FALSE /\ late = FALSE
    BY Parameters DEF Lines!Init, Lines!OfEach, Lines!Idle
  <1> QED
    BY <1>1 DEF LineInv

\* The types alone, and the PUT that has been applied.
LineType ==
  /\ selected \in Cameras \cup {Lines!NoCamera} /\ DOMAIN config = Cameras /\ DOMAIN counting = Cameras
  /\ refetch.step = "read" => DOMAIN refetch.conf = Cameras
  /\ put = Lines!Idle \/ (put.step \in {"sent", "applied"} /\ DOMAIN put.conf = Cameras
                          /\ put = [step |-> put.step, conf |-> put.conf])
  /\ put.step = "applied" => counting = put.conf
  /\ dirty \in BOOLEAN /\ late \in BOOLEAN

LineLike == selected # Lines!NoCamera /\ ~late => LinesLike

\* What is fetched and selected.
LEMMA LineLoads ==
  ASSUME LineInv,
         Lines!Refocus \/ Lines!Read \/ Lines!Fetched \/ Lines!FetchFails
           \/ \E c \in Cameras : Lines!Select(c)
  PROVE  LineInv'
  <1>1. LineType /\ LineLike
    BY DEF LineInv, LineType, LineLike
  <1>2. UNCHANGED <<counting, put>>
    BY DEF Lines!Refocus, Lines!Read, Lines!Fetched, Lines!FetchFails, Lines!Select
  <1>3. CASE Lines!Refocus \/ Lines!Read \/ Lines!FetchFails
    <2>1. UNCHANGED <<selected, config, lines, dirty, late>>
      BY <1>3 DEF Lines!Refocus, Lines!Read, Lines!FetchFails
    <2>2. refetch'.step = "read" => UNCHANGED refetch \/ refetch' = [step |-> "read", conf |-> counting]
      BY <1>3 DEF Lines!Refocus, Lines!Read, Lines!FetchFails, Lines!Refetched, Lines!Idle
    <2>3. LineType'
      BY <1>1, <1>2, <2>1, <2>2 DEF LineType
    <2>4. LineLike'
      BY <1>1, <1>2, <2>1 DEF LineLike, LinesLike
    <2> QED
      BY <2>3, <2>4 DEF LineInv, LineType, LineLike
  <1>4. CASE Lines!Fetched
    <2>1. /\ refetch.step = "read" /\ refetch' = Lines!Idle /\ config' = refetch.conf
          /\ selected' = selected
          /\ \/ /\ UNCHANGED <<lines, dirty, late>>
                /\ config' = config \/ selected = Lines!NoCamera
             \/ lines' = config'[selected] /\ dirty' = FALSE /\ late' = FALSE
      BY <1>4 DEF Lines!Fetched, Lines!Load
    <2>2. LineType'
      BY <1>1, <1>2, <2>1 DEF LineType, Lines!Idle
    <2>3. LineLike'
      BY <1>1, <1>2, <2>1 DEF LineLike, LinesLike
    <2> QED
      BY <2>2, <2>3 DEF LineInv, LineType, LineLike
  <1>5. ASSUME NEW c \in Cameras, Lines!Select(c) PROVE LineInv'
    <2>1. /\ UNCHANGED <<refetch, config>> /\ selected' = c
          /\ lines' = config[c] /\ dirty' = FALSE /\ late' = FALSE
      BY <1>5 DEF Lines!Select, Lines!Load
    <2>2. LineLike'
      BY <1>2, <2>1 DEF LineLike, LinesLike
    <2>3. LineType'
      BY <1>1, <1>2, <2>1 DEF LineType
    <2> QED
      BY <2>2, <2>3 DEF LineInv, LineType, LineLike
  <1> QED
    BY <1>3, <1>4, <1>5

\* What is drawn and saved.
LEMMA LineEdits ==
  ASSUME LineInv,
         \/ Lines!StartDraw \/ Lines!CancelDraw \/ Lines!ClickStart \/ Lines!ClickEnd
         \/ Lines!CancelForm \/ Lines!Save \/ Lines!Apply \/ Lines!Saved \/ Lines!SaveFails
         \/ \E i \in 1..MaxLines : Lines!EditLine(i) \/ Lines!DeleteLine(i)
         \/ \E new \in LineKinds : Lines!Confirm(new)
  PROVE  LineInv'
  <1>1. LineType /\ LineLike
    BY DEF LineInv, LineType, LineLike
  <1>2. UNCHANGED <<selected, config>>
    BY DEF Lines!StartDraw, Lines!CancelDraw, Lines!ClickStart, Lines!ClickEnd, Lines!CancelForm,
           Lines!Save, Lines!Apply, Lines!Saved, Lines!SaveFails, Lines!EditLine,
           Lines!DeleteLine, Lines!Confirm
  <1>3. refetch'.step = "read" => UNCHANGED refetch
    <2>1. CASE Lines!Saved
      BY <2>1 DEF Lines!Saved, Lines!Refetched
    <2> QED
      BY <2>1 DEF Lines!StartDraw, Lines!CancelDraw, Lines!ClickStart, Lines!ClickEnd,
             Lines!CancelForm, Lines!Save, Lines!Apply, Lines!SaveFails, Lines!EditLine,
             Lines!DeleteLine, Lines!Confirm
  <1>4. CASE UNCHANGED <<counting, lines, dirty, put, late>>
    <2>1. LineType'
      BY <1>1, <1>2, <1>3, <1>4 DEF LineType
    <2>2. LineLike'
      BY <1>1, <1>2, <1>4 DEF LineLike, LinesLike
    <2> QED
      BY <2>1, <2>2 DEF LineInv, LineType, LineLike
  <1>5. ASSUME NEW edited_, Lines!Changed(edited_), UNCHANGED <<counting, put>> PROVE LineInv'
    <2>1. dirty' = TRUE /\ late' = (late \/ put # Lines!Idle)
      BY <1>5 DEF Lines!Changed
    <2>2. late' \in BOOLEAN /\ dirty' \in BOOLEAN /\ (~late' => put = Lines!Idle)
      BY <1>1, <2>1, Zenon DEF LineType
    <2>3. LineType'
      BY <1>1, <1>2, <1>3, <1>5, <2>2 DEF LineType
    <2>4. LineLike'
      BY <1>5, <2>1, <2>2 DEF LineLike, LinesLike
    <2> QED
      BY <2>3, <2>4 DEF LineInv, LineType, LineLike
  <1>6. CASE Lines!Save
    <2>1. /\ UNCHANGED <<counting, lines, dirty>> /\ dirty /\ late' = FALSE
          /\ selected # Lines!NoCamera
          /\ put' = [step |-> "sent", conf |-> [config EXCEPT ![selected] = lines]]
      BY <1>6 DEF Lines!Save
    <2>2. put'.step = "sent" /\ put'.conf = [config EXCEPT ![selected] = lines]
          /\ put' = [step |-> put'.step, conf |-> put'.conf]
      BY <2>1
    <2>3. LineType'
      BY <1>1, <1>2, <1>3, <2>1, <2>2 DEF LineType
    <2>4. put' # Lines!Idle
      BY <2>2 DEF Lines!Idle
    <2>5. LineLike'
      BY <1>1, <1>2, <2>1, <2>2, <2>4 DEF LineLike, LinesLike, LineType
    <2> QED
      BY <2>3, <2>5 DEF LineInv, LineType, LineLike
  <1>7. CASE Lines!Apply
    <2>1. /\ UNCHANGED <<lines, dirty, late>> /\ put.step = "sent"
          /\ put' = [put EXCEPT !.step = "applied"] /\ counting' = put.conf
      BY <1>7 DEF Lines!Apply
    <2>2. put # Lines!Idle
      BY <2>1 DEF Lines!Idle
    <2>3. put = [step |-> "sent", conf |-> put.conf] /\ DOMAIN put.conf = Cameras
      BY <1>1, <2>1, <2>2 DEF LineType
    <2>4. put'.step = "applied" /\ put'.conf = put.conf
          /\ put' = [step |-> put'.step, conf |-> put'.conf]
      BY <2>1, <2>3
    <2>5. put' # Lines!Idle
      BY <2>4 DEF Lines!Idle
    <2>6. LineType'
      BY <1>1, <1>2, <1>3, <2>1, <2>2, <2>3, <2>4 DEF LineType
    <2>7. LineLike'
      BY <1>1, <1>2, <2>1, <2>2, <2>4, <2>5 DEF LineLike, LinesLike
    <2> QED
      BY <2>6, <2>7 DEF LineInv, LineType, LineLike
  <1>8. CASE Lines!Saved
    <2>1. /\ UNCHANGED <<counting, lines, late>> /\ put.step = "applied"
          /\ put' = Lines!Idle /\ dirty' = FALSE
      BY <1>8 DEF Lines!Saved
    <2>2. put # Lines!Idle /\ Lines!Idle.step # "applied"
      BY <2>1 DEF Lines!Idle
    <2>3. LineType'
      BY <1>1, <1>2, <1>3, <2>1, <2>2 DEF LineType
    <2>4. LineLike'
      BY <1>1, <1>2, <2>1, <2>2 DEF LineLike, LinesLike, LineType
    <2> QED
      BY <2>3, <2>4 DEF LineInv, LineType, LineLike
  <1>9. CASE Lines!SaveFails
    <2>1. /\ UNCHANGED <<counting, lines, dirty, late>> /\ put.step \in {"sent", "applied"}
          /\ put' = Lines!Idle
      BY <1>9 DEF Lines!SaveFails
    <2>2. put # Lines!Idle /\ Lines!Idle.step # "applied"
      BY <2>1 DEF Lines!Idle
    <2>3. LineType'
      BY <1>1, <1>2, <1>3, <2>1, <2>2 DEF LineType
    <2>4. LineLike'
      BY <1>1, <1>2, <2>1, <2>2 DEF LineLike, LinesLike, LineType
    <2> QED
      BY <2>3, <2>4 DEF LineInv, LineType, LineLike
  <1>10. CASE \E i \in 1..MaxLines : Lines!DeleteLine(i)
    BY <1>5, <1>10 DEF Lines!DeleteLine
  <1>11. CASE \E new \in LineKinds : Lines!Confirm(new)
    BY <1>5, <1>11 DEF Lines!Confirm
  <1>12. CASE \/ Lines!StartDraw \/ Lines!CancelDraw \/ Lines!ClickStart \/ Lines!ClickEnd
              \/ Lines!CancelForm \/ \E i \in 1..MaxLines : Lines!EditLine(i)
    BY <1>4, <1>12 DEF Lines!StartDraw, Lines!CancelDraw, Lines!ClickStart, Lines!ClickEnd,
                       Lines!CancelForm, Lines!EditLine
  <1> QED
    BY <1>6, <1>7, <1>8, <1>9, <1>10, <1>11, <1>12

LEMMA LineKept == LineInv /\ (Lines!Next \/ UNCHANGED tab) => LineInv'
  <1>1. LineInv /\ UNCHANGED tab => LineInv'
    BY DEF tab, LineInv, LinesLike
  <1>2. LineInv /\ Lines!Next => LineInv'
    BY LineLoads, LineEdits DEF Lines!Next
  <1> QED
    BY <1>1, <1>2

LEMMA LineSays == LineInv => Lines!SavedIsStored
  BY DEF LineInv, LinesLike, Lines!SavedIsStored

-----------------------------------------------------------------------------
(* The rules of the notifications.                                         *)

NoteSet == [id : Int, at : Notified!Marks]

NotesApart(kept, n) ==
  /\ \A i \in DOMAIN kept : kept[i].id # 0 /\ kept[i].id >= -n
  /\ \A i, j \in DOMAIN kept : kept[i].id = kept[j].id => i = j

NoteType ==
  /\ notes \in Seq(NoteSet) /\ noted \in Seq(NoteSet) /\ formRule \in NoteSet
  /\ asking.at = "answer" => asking.rules \in Seq(NoteSet)
  /\ index \in Nat \cup {Notified!None} /\ sent \in Nat /\ behind \in BOOLEAN /\ rash \in BOOLEAN
  /\ \A x \in requests : x.at = "asked" =>
       /\ x.rules \in Seq(NoteSet)
       /\ x = [n |-> x.n, at |-> "asked", rules |-> x.rules, means |-> x.means, ofForm |-> x.ofForm]

NotesMeant ==
  /\ NotesApart(notes, sent) /\ Notified!Range(notes) = noting
  /\ \A x \in requests : x.at = "asked" => NotesApart(x.rules, sent) /\ Notified!Range(x.rules) = x.means
  /\ \A x, y \in requests : x = y

NoteLists ==
  ~behind /\ (\A x \in requests : x.at # "done") =>
    /\ asking = Notified!Idle => noted = notes
    /\ asking.at = "answer" => asking.rules = notes

NoteInv == NoteType /\ NoteLists /\ (~rash => NotesMeant)

LEMMA NoteInit == Notified!Init => NoteInv
  <1> SUFFICES ASSUME Notified!Init PROVE NoteInv
    OBVIOUS
  <1>1. /\ notes = NotesAtStart /\ noted = <<>> /\ asking = Notified!Asked /\ index = Notified!None
        /\ formRule = Notified!Nothing /\ requests = {} /\ sent = 0
        /\ noting = Notified!Range(NotesAtStart) /\ behind = TRUE /\ rash = FALSE
    BY DEF Notified!Init
  <1>2. PICK R : R = [id : Nat \ {0}, at : Notified!Marks]
    OBVIOUS
  <1>3. /\ NotesAtStart \in Seq(R)
        /\ \A i, j \in DOMAIN NotesAtStart : NotesAtStart[i].id = NotesAtStart[j].id => i = j
    BY Parameters, <1>2 DEF Notified!ToldApart
  <1>4. /\ NotesAtStart \in Seq(NoteSet)
        /\ \A i \in DOMAIN NotesAtStart : NotesAtStart[i].id \in Nat \ {0}
    <2>1. R \subseteq NoteSet /\ \A r \in R : r.id \in Nat \ {0}
      BY <1>2 DEF NoteSet
    <2>2. \A i \in DOMAIN NotesAtStart : NotesAtStart[i] \in R
      BY <1>3, ElementOf
    <2> QED
      BY <1>3, <2>1, <2>2
  <1>5. Notified!Nothing \in NoteSet
    BY DEF Notified!Nothing, NoteSet, Notified!Marks
  <1>6. NoteType
    <2>1. noted \in Seq(NoteSet) /\ asking.at # "answer"
      BY <1>1 DEF Notified!Asked
    <2> QED
      BY <1>1, <1>4, <1>5, <2>1 DEF NoteType
  <1>7. NotesApart(NotesAtStart, 0)
    BY <1>3, <1>4 DEF NotesApart
  <1>8. NotesMeant
    BY <1>1, <1>7 DEF NotesMeant
  <1> QED
    BY <1>1, <1>6, <1>8 DEF NoteInv, NoteLists

\* The query: a fetch, its answer, and the form that is shown.
LEMMA NoteViews ==
  ASSUME NoteInv,
         \/ Notified!Focus \/ Notified!Serve \/ Notified!OnRules
         \/ Notified!StartAdd \/ Notified!CancelForm
         \/ \E i \in DOMAIN noted : Notified!StartEdit(i)
         \/ \E v \in Notes : Notified!Type(v)
  PROVE  NoteInv'
  <1>0. NoteType /\ NoteLists /\ (~rash => NotesMeant)
    BY DEF NoteInv
  <1>1. UNCHANGED <<notes, requests, sent, noting, rash>>
    BY DEF Notified!Focus, Notified!Serve, Notified!OnRules, Notified!StartAdd, Notified!CancelForm,
           Notified!StartEdit, Notified!Type, Notified!history
  <1>2. ~rash' => NotesMeant'
    BY <1>0, <1>1 DEF NotesMeant
  <1>3. CASE Notified!Focus
    <2>1. UNCHANGED <<noted, index, formRule, behind>> /\ asking' = Notified!Asked
      BY <1>3 DEF Notified!Focus, Notified!history, Notified!form
    <2>2. asking' # Notified!Idle /\ asking'.at # "answer"
      BY <2>1 DEF Notified!Asked, Notified!Idle
    <2> QED
      BY <1>0, <1>1, <1>2, <2>1, <2>2 DEF NoteInv, NoteType, NoteLists
  <1>4. CASE Notified!Serve
    <2>1. UNCHANGED <<noted, index, formRule>>
      BY <1>4 DEF Notified!Serve, Notified!form
    <2>2. CASE asking' = [at |-> "answer", rules |-> notes] /\ behind' = FALSE
      <3>1. asking'.at = "answer" /\ asking'.rules = notes /\ asking' # Notified!Idle
        BY <2>2 DEF Notified!Idle
      <3>2. NoteType'
        BY <1>0, <1>1, <2>1, <2>2, <3>1 DEF NoteType
      <3>3. NoteLists'
        BY <1>1, <3>1 DEF NoteLists
      <3> QED
        BY <1>2, <3>2, <3>3 DEF NoteInv
    <2>3. CASE asking' = Notified!Idle /\ behind' = TRUE
      <3>1. asking'.at # "answer"
        BY <2>3 DEF Notified!Idle
      <3>2. NoteType'
        BY <1>0, <1>1, <2>1, <2>3, <3>1 DEF NoteType
      <3> QED
        BY <1>2, <2>3, <3>2 DEF NoteInv, NoteLists
    <2> QED
      BY <1>4, <2>2, <2>3 DEF Notified!Serve
  <1>5. CASE Notified!OnRules
    <2>1. /\ UNCHANGED <<index, formRule, behind>> /\ asking.at = "answer"
          /\ asking' = Notified!Idle /\ noted' = asking.rules
      BY <1>5 DEF Notified!OnRules, Notified!form, Notified!history
    <2>2. asking'.at # "answer"
      BY <2>1 DEF Notified!Idle
    <2>3. NoteType'
      BY <1>0, <1>1, <2>1, <2>2 DEF NoteType
    <2>4. NoteLists'
      BY <1>0, <1>1, <2>1, <2>2 DEF NoteLists
    <2> QED
      BY <1>2, <2>3, <2>4 DEF NoteInv
  <1>6. CASE \/ Notified!StartAdd \/ Notified!CancelForm
             \/ \E i \in DOMAIN noted : Notified!StartEdit(i)
             \/ \E v \in Notes : Notified!Type(v)
    <2>1. UNCHANGED <<noted, asking, behind>>
      BY <1>6 DEF Notified!StartAdd, Notified!CancelForm, Notified!StartEdit, Notified!Type,
                  Notified!history
    <2>2. Notified!Nothing \in NoteSet
      BY DEF Notified!Nothing, NoteSet, Notified!Marks
    <2>3. index' \in Nat \cup {Notified!None} /\ formRule' \in NoteSet
      <3>1. CASE Notified!StartAdd \/ Notified!CancelForm
        BY <2>2, <3>1 DEF Notified!StartAdd, Notified!CancelForm, Notified!Cancelled, Notified!New
      <3>2. ASSUME NEW i \in DOMAIN noted, Notified!StartEdit(i)
            PROVE  index' \in Nat \cup {Notified!None} /\ formRule' \in NoteSet
        <4>1. noted \in Seq(NoteSet)
          BY <1>0 DEF NoteType
        <4>2. noted[i] \in NoteSet /\ i \in Nat
          BY <4>1, ElementOf
        <4> QED
          BY <3>2, <4>2 DEF Notified!StartEdit
      <3>3. ASSUME NEW v \in Notes, Notified!Type(v)
            PROVE  index' \in Nat \cup {Notified!None} /\ formRule' \in NoteSet
        <4>1. v \in Notified!Marks /\ formRule \in NoteSet
          BY <1>0 DEF NoteType, Notified!Marks
        <4>2. index' = index /\ formRule' = [formRule EXCEPT !.at = v]
          BY <3>3 DEF Notified!Type
        <4>3. formRule' \in NoteSet
          BY <4>1, <4>2 DEF NoteSet
        <4> QED
          BY <1>0, <4>2, <4>3 DEF NoteType
      <3> QED
        BY <1>6, <3>1, <3>2, <3>3
    <2>4. NoteType'
      BY <1>0, <1>1, <2>1, <2>3 DEF NoteType
    <2>5. NoteLists'
      BY <1>0, <1>1, <2>1 DEF NoteLists
    <2> QED
      BY <1>2, <2>4, <2>5 DEF NoteInv
  <1> QED
    BY <1>3, <1>4, <1>5, <1>6

-----------------------------------------------------------------------------
(* Lists of rules, and the rules in them.                                  *)

NotesHas(t, n, kept) == NotesApart(t, n) /\ Notified!Range(t) = kept

LEMMA NoteAdded ==
  ASSUME NEW s \in Seq(NoteSet), NEW n \in Nat, NEW r \in NoteSet, NotesApart(s, n), r.id = -1 - n
  PROVE  /\ Append(s, r) \in Seq(NoteSet)
         /\ NotesHas(Append(s, r), n + 1, {x \in Notified!Range(s) : x.id # r.id} \cup {r})
  <1>0. PICK l \in Nat : l = Len(s) /\ DOMAIN s = 1..l
    <2>1. Len(s) \in Nat /\ DOMAIN s = 1..Len(s)
      OBVIOUS
    <2> QED
      BY <2>1
  <1>1. PICK t : t = Append(s, r)
    OBVIOUS
  <1>2. /\ t \in Seq(NoteSet) /\ DOMAIN t = 1..(l + 1) /\ t[l + 1] = r
        /\ \A i \in 1..l : t[i] = s[i]
    BY <1>0, <1>1, AddedIs
  <1>3. \A i \in 1..l : s[i] \in NoteSet
    BY <1>0, ElementOf
  <1>4. \A i \in 1..l : s[i].id \in Int /\ s[i].id # 0 /\ s[i].id >= -n
    BY <1>0, <1>3 DEF NotesApart, NoteSet
  <1>5. NotesApart(t, n + 1)
    <2>1. \A i \in 1..(l + 1) : i \in 1..l \/ i = l + 1
      BY <1>0
    <2>2. r.id # 0 /\ r.id >= -(n + 1) /\ \A i \in 1..l : s[i].id # r.id /\ s[i].id >= -(n + 1)
      BY <1>4
    <2>3. \A i, j \in 1..l : s[i].id = s[j].id => i = j
      BY <1>0 DEF NotesApart
    <2>4. \A i \in 1..(l + 1) : t[i].id # 0 /\ t[i].id >= -(n + 1)
      BY <1>2, <1>4, <2>1, <2>2
    <2>5. \A i, j \in 1..(l + 1) : t[i].id = t[j].id => i = j
      BY <1>2, <2>1, <2>2, <2>3
    <2> QED
      BY <1>2, <2>4, <2>5 DEF NotesApart
  <1>6. Notified!Range(t) = {x \in Notified!Range(s) : x.id # r.id} \cup {r}
    <2>1. \A x : x \in Notified!Range(s) <=> \E i \in 1..l : x = s[i]
      BY <1>0 DEF Notified!Range
    <2>2. \A x : x \in Notified!Range(t) <=> \E i \in 1..(l + 1) : x = t[i]
      BY <1>2 DEF Notified!Range
    <2>3. \A i \in 1..l : s[i].id # r.id
      BY <1>4
    <2>4. (\A i \in 1..l : i \in 1..(l + 1)) /\ l + 1 \in 1..(l + 1)
          /\ \A i \in 1..(l + 1) : i \in 1..l \/ i = l + 1
      BY <1>0
    <2>5. ASSUME NEW x
          PROVE  x \in Notified!Range(t) <=> x \in {y \in Notified!Range(s) : y.id # r.id} \cup {r}
      BY <1>2, <2>1, <2>2, <2>3, <2>4
    <2> QED
      BY <2>5
  <1> QED
    BY <1>1, <1>2, <1>5, <1>6 DEF NotesHas

LEMMA NoteEdited ==
  ASSUME NEW s \in Seq(NoteSet), NEW n \in Nat, NEW e \in DOMAIN s, NEW r \in NoteSet,
         NotesApart(s, n), r.id = s[e].id,
         NEW t \in Seq(NoteSet), DOMAIN t = DOMAIN s, t[e] = r,
         \A j \in DOMAIN s \ {e} : t[j] = s[j], NEW m \in Nat, m >= n
  PROVE  NotesHas(t, m, {x \in Notified!Range(s) : x.id # r.id} \cup {r})
  <1>1. \A i \in DOMAIN s : s[i] \in NoteSet
    BY ElementOf
  <1>2. \A i \in DOMAIN s : s[i].id \in Int /\ s[i].id # 0 /\ s[i].id >= -n
    BY <1>1 DEF NotesApart, NoteSet
  <1>3. \A i \in DOMAIN s : s[i].id = r.id <=> i = e
    BY DEF NotesApart
  <1>4. \A i \in DOMAIN s : t[i].id = s[i].id
    OBVIOUS
  <1>5. NotesApart(t, m)
    BY <1>2, <1>4 DEF NotesApart
  <1>6. \A x : x \in Notified!Range(s) <=> \E i \in DOMAIN s : x = s[i]
    BY DEF Notified!Range
  <1>7. \A x : x \in Notified!Range(t) <=> \E i \in DOMAIN s : x = t[i]
    BY DEF Notified!Range
  <1>8. ASSUME NEW x
        PROVE  x \in Notified!Range(t) <=> x \in {y \in Notified!Range(s) : y.id # r.id} \cup {r}
    <2>1. ASSUME x \in Notified!Range(t) PROVE x = r \/ (x \in Notified!Range(s) /\ x.id # r.id)
      <3>1. PICK i \in DOMAIN s : x = t[i]
        BY <1>7, <2>1
      <3> QED
        BY <1>3, <1>6, <3>1
    <2>2. ASSUME x \in Notified!Range(s), x.id # r.id PROVE x \in Notified!Range(t)
      <3>1. PICK i \in DOMAIN s : x = s[i]
        BY <1>6, <2>2
      <3>2. i # e /\ x = t[i]
        BY <2>2, <3>1
      <3> QED
        BY <1>7, <3>1, <3>2
    <2>3. r \in Notified!Range(t)
      BY <1>7
    <2> QED
      BY <2>1, <2>2, <2>3
  <1> QED
    BY <1>5, <1>8 DEF NotesHas

LEMMA NoteOthers ==
  ASSUME NEW s, NEW n, NEW e \in DOMAIN s, NotesApart(s, n)
  PROVE  {x \in Notified!Range(s) : x.id # s[e].id} = Notified!Range(s) \ {s[e]}
  BY DEF NotesApart, Notified!Range

LEMMA NoteDeleted ==
  ASSUME NEW s \in Seq(NoteSet), NEW n \in Nat, NEW e \in DOMAIN s, NotesApart(s, n),
         NEW t, Without(t, s, e)
  PROVE  NotesHas(t, n + 1, Notified!Range(s) \ {s[e]})
  <1>1. \A i \in DOMAIN s : s[i] \in NoteSet
    BY ElementOf
  <1>2. \A i \in DOMAIN s : s[i].id \in Int /\ s[i].id # 0 /\ s[i].id >= -n
    BY <1>1 DEF NotesApart, NoteSet
  <1>3. /\ \A j \in DOMAIN t : \E k \in DOMAIN s \ {e} : t[j] = s[k]
        /\ \A k \in DOMAIN s \ {e} : \E j \in DOMAIN t : t[j] = s[k]
        /\ \A j, l \in DOMAIN t : j # l =>
             \E k, m \in DOMAIN s : k # m /\ t[j] = s[k] /\ t[l] = s[m]
    BY DEF Without
  <1>4. \A j \in DOMAIN t : t[j].id # 0 /\ t[j].id >= -(n + 1)
    <2> SUFFICES ASSUME NEW j \in DOMAIN t PROVE t[j].id # 0 /\ t[j].id >= -(n + 1)
      OBVIOUS
    <2>1. PICK k \in DOMAIN s : t[j] = s[k]
      BY <1>3
    <2>2. s[k].id \in Int /\ s[k].id # 0 /\ s[k].id >= -n
      BY <1>2
    <2> QED
      BY <2>1, <2>2
  <1>5. ASSUME NEW j \in DOMAIN t, NEW l \in DOMAIN t, t[j].id = t[l].id PROVE j = l
    <2>1. j # l => \E k, m \in DOMAIN s : k # m /\ t[j] = s[k] /\ t[l] = s[m]
      BY <1>3
    <2> QED
      BY <1>5, <2>1 DEF NotesApart
  <1>6. NotesApart(t, n + 1)
    BY <1>4, <1>5 DEF NotesApart
  <1>7. \A k \in DOMAIN s : s[k] = s[e] => k = e
    BY DEF NotesApart
  <1>8. \A x : x \in Notified!Range(s) <=> \E i \in DOMAIN s : x = s[i]
    BY DEF Notified!Range
  <1>9. \A x : x \in Notified!Range(t) <=> \E i \in DOMAIN t : x = t[i]
    BY DEF Notified!Range
  <1>10. ASSUME NEW x PROVE x \in Notified!Range(t) <=> x \in Notified!Range(s) \ {s[e]}
    BY <1>3, <1>7, <1>8, <1>9
  <1> QED
    BY <1>6, <1>10 DEF NotesHas

LEMMA NoteSetAt ==
  ASSUME NEW s \in Seq(NoteSet), NEW e \in Nat \ {0}, NEW r \in NoteSet
  PROVE  /\ Notified!SetAt(s, e, r) \in Seq(NoteSet)
         /\ e \in DOMAIN s =>
              /\ DOMAIN Notified!SetAt(s, e, r) = DOMAIN s /\ Notified!SetAt(s, e, r)[e] = r
              /\ \A j \in DOMAIN s \ {e} : Notified!SetAt(s, e, r)[j] = s[j]
  <1>1. PICK n \in Nat : n = Len(s) /\ DOMAIN s = 1..n
    <2>1. Len(s) \in Nat /\ DOMAIN s = 1..Len(s)
      OBVIOUS
    <2> QED
      BY <2>1
  <1> DEFINE m == IF e > n THEN e ELSE n
  <1>2. m \in Nat /\ (e \in 1..n => m = n)
    BY <1>1
  <1>3. \A j \in 1..m : (IF j = e THEN r ELSE IF j <= n THEN s[j] ELSE Notified!Nothing) \in NoteSet
    <2>1. Notified!Nothing \in NoteSet
      BY DEF Notified!Nothing, NoteSet, Notified!Marks
    <2>2. \A j \in 1..n : s[j] \in NoteSet
      BY <1>1, ElementOf
    <2>3. \A j \in 1..m : j <= n => j \in 1..n
      BY <1>1, <1>2
    <2> HIDE DEF m
    <2> QED
      BY <2>1, <2>2, <2>3
  <1>4. Notified!SetAt(s, e, r) =
          [j \in 1..m |-> IF j = e THEN r ELSE IF j <= n THEN s[j] ELSE Notified!Nothing]
    BY <1>1 DEF Notified!SetAt
  <1> HIDE DEF m
  <1>5. Notified!SetAt(s, e, r) \in Seq(NoteSet)
    BY <1>2, <1>3, <1>4
  <1>6. ASSUME e \in DOMAIN s
        PROVE  /\ DOMAIN Notified!SetAt(s, e, r) = DOMAIN s /\ Notified!SetAt(s, e, r)[e] = r
               /\ \A j \in DOMAIN s \ {e} : Notified!SetAt(s, e, r)[j] = s[j]
    BY <1>1, <1>2, <1>4, <1>6
  <1> QED
    BY <1>5, <1>6

-----------------------------------------------------------------------------
(* The changes.                                                            *)

\* What a request is: its list, and what is meant by it.
LEMMA NoteSends ==
  ASSUME NoteInv, NEW q \in Seq(NoteSet), NEW means, NEW f, Notified!Send(q, means, f),
         ~rash' => NotesHas(q, sent + 1, means)
  PROVE  NoteInv'
  <1>0. NoteType /\ NoteLists /\ (~rash => NotesMeant)
    BY DEF NoteInv
  <1>1. PICK x : x = [n |-> sent + 1, at |-> "asked", rules |-> q, means |-> means, ofForm |-> f]
    OBVIOUS
  <1>2. /\ UNCHANGED <<notes, noted, asking, index, formRule, noting, behind>>
        /\ sent' = sent + 1 /\ requests' = requests \cup {x}
    BY <1>1 DEF Notified!Send, Notified!form
  <1>3. rash' \in BOOLEAN /\ (~rash' => ~rash /\ requests = {})
    BY Zenon DEF Notified!Send
  <1>4. x.at = "asked" /\ x.rules = q /\ x.means = means
        /\ x = [n |-> x.n, at |-> "asked", rules |-> x.rules, means |-> x.means, ofForm |-> x.ofForm]
    BY <1>1
  <1>5. NoteType'
    BY <1>0, <1>2, <1>3, <1>4 DEF NoteType
  <1>6. NoteLists'
    BY <1>0, <1>2, <1>4 DEF NoteLists
  <1>7. ASSUME ~rash' PROVE NotesMeant'
    <2>1. NotesMeant /\ requests' = {x} /\ NotesApart(q, sent + 1) /\ Notified!Range(q) = means
      BY <1>0, <1>2, <1>3, <1>7 DEF NotesHas
    <2>2. NotesApart(notes, sent + 1)
      <3>1. sent \in Nat /\ notes \in Seq(NoteSet)
        BY <1>0 DEF NoteType
      <3>2. \A i \in DOMAIN notes : notes[i].id \in Int /\ notes[i].id # 0 /\ notes[i].id >= -sent
        <4>1. \A i \in DOMAIN notes : notes[i] \in NoteSet
          BY <3>1, ElementOf
        <4> QED
          BY <2>1, <4>1 DEF NotesMeant, NotesApart, NoteSet
      <3>3. \A i \in DOMAIN notes : notes[i].id # 0 /\ notes[i].id >= -(sent + 1)
        BY <3>1, <3>2
      <3> QED
        BY <2>1, <3>3 DEF NotesMeant, NotesApart
    <2> QED
      BY <1>2, <1>4, <2>1, <2>2 DEF NotesMeant
  <1> QED
    BY <1>5, <1>6, <1>7 DEF NoteInv

\* A change which is not hasty is made to what is stored.
LEMMA NoteStored ==
  ASSUME NoteInv, NEW q, NEW means, NEW f, Notified!Send(q, means, f), ~rash'
  PROVE  /\ NotesMeant /\ noted = notes
         /\ f /\ index > 0 => index \in DOMAIN noted /\ noted[index].id = formRule.id
  <1>0. NoteLists /\ (~rash => NotesMeant)
    BY DEF NoteInv
  <1>1. ~rash /\ requests = {} /\ asking = Notified!Idle /\ ~behind
    BY Zenon DEF Notified!Send
  <1>2. f /\ index > 0 => index \in DOMAIN noted /\ noted[index].id = formRule.id
    BY Zenon DEF Notified!Send
  <1> QED
    BY <1>0, <1>1, <1>2 DEF NoteLists

LEMMA NoteSaves == NoteInv /\ Notified!SaveRule => NoteInv'
  <1> SUFFICES ASSUME NoteInv, Notified!SaveRule PROVE NoteInv'
    OBVIOUS
  <1>0. NoteType
    BY DEF NoteInv
  <1> DEFINE r == IF index = 0 THEN [formRule EXCEPT !.id = -1 - sent] ELSE formRule
             q == IF index = 0 THEN Append(noted, r) ELSE Notified!SetAt(noted, index, r)
             means == {x \in noting : x.id # r.id} \cup {r}
  <1>1. Notified!Send(q, means, TRUE) /\ index # Notified!None
    BY DEF Notified!SaveRule, Notified!Edited, Notified!New
  <1>2. /\ sent \in Nat /\ noted \in Seq(NoteSet) /\ formRule \in NoteSet
        /\ index \in Nat
    BY <1>0, <1>1 DEF NoteType
  <1>3. r \in NoteSet /\ (r.id = IF index = 0 THEN -1 - sent ELSE formRule.id)
    BY <1>2 DEF NoteSet
  <1> HIDE DEF r
  <1>4. q \in Seq(NoteSet)
    <2>1. CASE index = 0
      BY <1>2, <1>3, <2>1, AddedIs
    <2>2. CASE index # 0
      <3>1. index \in Nat \ {0}
        BY <1>2, <2>2
      <3>2. Notified!SetAt(noted, index, r) \in Seq(NoteSet)
        BY <1>2, <1>3, <3>1, NoteSetAt
      <3> QED
        BY <2>2, <3>2
    <2> QED
      BY <2>1, <2>2
  <1>5. ASSUME ~rash' PROVE NotesHas(q, sent + 1, means)
    <2>1. /\ NotesMeant /\ noted = notes
          /\ index > 0 => index \in DOMAIN noted /\ noted[index].id = formRule.id
      BY <1>1, <1>5, NoteStored
    <2>2. NotesApart(noted, sent) /\ Notified!Range(noted) = noting
      BY <2>1 DEF NotesMeant
    <2>3. CASE index = 0
      <3>1. r.id = -1 - sent /\ q = Append(noted, r)
        BY <1>3, <2>3
      <3> HIDE DEF q
      <3>2. NotesHas(Append(noted, r), sent + 1, {x \in Notified!Range(noted) : x.id # r.id} \cup {r})
        BY <1>2, <1>3, <2>2, <3>1, NoteAdded
      <3> QED
        BY <2>2, <3>1, <3>2
    <2>4. CASE index # 0
      <3>1. index \in Nat \ {0} /\ index \in DOMAIN noted /\ r.id = noted[index].id
        BY <1>2, <1>3, <2>1, <2>4
      <3>2. q = Notified!SetAt(noted, index, r)
        BY <2>4
      <3> HIDE DEF q
      <3>3. /\ DOMAIN q = DOMAIN noted /\ q[index] = r
            /\ \A j \in DOMAIN noted \ {index} : q[j] = noted[j]
        BY <1>2, <1>3, <3>1, <3>2, NoteSetAt
      <3>4. sent + 1 \in Nat /\ sent + 1 >= sent
        BY <1>2
      <3>5. NotesHas(q, sent + 1, {x \in Notified!Range(noted) : x.id # r.id} \cup {r})
        BY <1>2, <1>3, <1>4, <2>2, <3>1, <3>3, <3>4, NoteEdited
      <3> QED
        BY <2>2, <3>5
    <2> QED
      BY <2>3, <2>4
  <1> HIDE DEF q, means
  <1> QED
    BY <1>1, <1>4, <1>5, NoteSends

LEMMA NoteDeletes ==
  ASSUME NoteInv, NEW i \in DOMAIN noted, Notified!DeleteRule(i)
  PROVE  NoteInv'
  <1>0. noted \in Seq(NoteSet) /\ sent \in Nat
    BY DEF NoteInv, NoteType
  <1> DEFINE q == SubSeq(noted, 1, i - 1) \o SubSeq(noted, i + 1, Len(noted))
             means == noting \ {noted[i]}
  <1>1. Notified!Send(q, means, FALSE)
    BY DEF Notified!DeleteRule
  <1>2. q \in Seq(NoteSet) /\ \E n \in Nat : RemovedOf(q, noted, i, n)
    BY <1>0, RemovedIs
  <1> HIDE DEF q
  <1>3. Without(q, noted, i)
    BY <1>2, RemovedHas
  <1>4. ASSUME ~rash' PROVE NotesHas(q, sent + 1, means)
    <2>1. NotesMeant /\ noted = notes
      BY <1>1, <1>4, NoteStored
    <2>2. NotesApart(noted, sent) /\ Notified!Range(noted) = noting
      BY <2>1 DEF NotesMeant
    <2>3. NotesHas(q, sent + 1, Notified!Range(noted) \ {noted[i]})
      BY <1>0, <1>3, <2>2, NoteDeleted
    <2> QED
      BY <2>2, <2>3
  <1> HIDE DEF means
  <1> QED
    BY <1>1, <1>2, <1>4, NoteSends

\* The server, and the answers.
LEMMA NoteAnswers ==
  ASSUME NoteInv, NEW x \in requests, Notified!Put(x) \/ Notified!OnPut(x)
  PROVE  NoteInv'
  <1>0. NoteType /\ NoteLists /\ (~rash => NotesMeant)
    BY DEF NoteInv
  <1>1. UNCHANGED <<noted, sent, rash>>
    BY DEF Notified!Put, Notified!OnPut
  <1>2. CASE Notified!Put(x)
    <2>1. UNCHANGED <<asking, index, formRule>> /\ x.at = "asked"
      BY <1>2 DEF Notified!Put, Notified!form
    <2>2. /\ x.rules \in Seq(NoteSet)
          /\ x = [n |-> x.n, at |-> "asked", rules |-> x.rules, means |-> x.means, ofForm |-> x.ofForm]
      BY <1>0, <2>1 DEF NoteType
    <2>3. CASE /\ notes' = x.rules /\ noting' = x.means
               /\ requests' = (requests \ {x}) \cup {[x EXCEPT !.at = "done"]} /\ UNCHANGED behind
      <3>1. PICK y : y = [x EXCEPT !.at = "done"]
        OBVIOUS
      <3>2. y.at = "done" /\ y \in requests' /\ requests' = (requests \ {x}) \cup {y}
        BY <2>2, <2>3, <3>1
      <3>3. NoteType'
        BY <1>0, <1>1, <2>1, <2>2, <2>3, <3>2 DEF NoteType
      <3>4. NoteLists'
        BY <3>2 DEF NoteLists
      <3>5. ASSUME NotesMeant PROVE NotesMeant'
        BY <1>1, <2>1, <2>3, <3>2, <3>5 DEF NotesMeant
      <3> QED
        BY <1>0, <1>1, <3>3, <3>4, <3>5 DEF NoteInv
    <2>4. CASE notes' = x.rules /\ noting' = x.means /\ requests' = requests \ {x} /\ behind' = TRUE
      <3>1. NoteType'
        BY <1>0, <1>1, <2>1, <2>2, <2>4 DEF NoteType
      <3>2. ASSUME NotesMeant PROVE NotesMeant'
        BY <1>1, <2>1, <2>4, <3>2 DEF NotesMeant
      <3> QED
        BY <1>0, <1>1, <2>4, <3>1, <3>2 DEF NoteInv, NoteLists
    <2>5. CASE requests' = requests \ {x} /\ UNCHANGED <<notes, noting, behind>>
      <3>1. NoteType'
        BY <1>0, <1>1, <2>1, <2>5 DEF NoteType
      <3>2. NoteLists'
        BY <1>0, <1>1, <2>1, <2>5 DEF NoteLists
      <3>3. ASSUME NotesMeant PROVE NotesMeant'
        BY <1>1, <2>5, <3>3 DEF NotesMeant
      <3> QED
        BY <1>0, <1>1, <3>1, <3>2, <3>3 DEF NoteInv
    <2> QED
      BY <1>2, <2>3, <2>4, <2>5 DEF Notified!Put
  <1>3. CASE Notified!OnPut(x)
    <2>1. /\ UNCHANGED <<notes, noting>> /\ requests' = requests \ {x}
          /\ index' = index \/ index' = Notified!None
          /\ formRule' = formRule \/ formRule' = Notified!Nothing
      BY <1>3 DEF Notified!OnPut, Notified!Cancelled, Notified!form
    <2>2. Notified!Nothing \in NoteSet
      BY DEF Notified!Nothing, NoteSet, Notified!Marks
    <2>3. asking' = IF asking = Notified!Idle THEN Notified!Asked ELSE asking
      BY <1>3 DEF Notified!OnPut, Notified!Refetched
    <2>4. behind' = (behind \/ asking.at = "answer")
      BY <1>3 DEF Notified!OnPut, Notified!Refetched
    <2>5. behind' \in BOOLEAN /\ (~behind' => asking.at # "answer")
      BY <2>4, Zenon
    <2>6. asking' # Notified!Idle /\ (asking'.at = "answer" => UNCHANGED asking)
      BY <2>3 DEF Notified!Idle, Notified!Asked
    <2>7. NoteType'
      BY <1>0, <1>1, <2>1, <2>2, <2>5, <2>6 DEF NoteType
    <2>8. NoteLists'
      BY <2>5, <2>6 DEF NoteLists
    <2>9. ASSUME NotesMeant PROVE NotesMeant'
      BY <1>1, <2>1, <2>9 DEF NotesMeant
    <2> QED
      BY <1>0, <1>1, <2>7, <2>8, <2>9 DEF NoteInv
  <1> QED
    BY <1>2, <1>3

\* Another window.
LEMMA NoteElsewhere ==
  ASSUME NoteInv, NEW i \in DOMAIN notes, NEW v \in Notes, Notified!Elsewhere(i, v)
  PROVE  NoteInv'
  <1>0. NoteType /\ (~rash => NotesMeant)
    BY DEF NoteInv
  <1>1. /\ UNCHANGED <<noted, asking, index, formRule, requests, sent>> /\ behind' = TRUE
        /\ notes' = [notes EXCEPT ![i].at = v]
        /\ noting' = (noting \ {notes[i]}) \cup {notes'[i]}
    BY DEF Notified!Elsewhere, Notified!form
  <1>2. rash' \in BOOLEAN /\ (~rash' => ~rash /\ requests = {})
    BY Zenon DEF Notified!Elsewhere
  <1>3. notes \in Seq(NoteSet) /\ sent \in Nat /\ notes[i] \in NoteSet
    <2>1. notes \in Seq(NoteSet) /\ sent \in Nat
      BY <1>0 DEF NoteType
    <2> QED
      BY <2>1, ElementOf
  <1>4. PICK r : r = [notes[i] EXCEPT !.at = v]
    OBVIOUS
  <1>5. r \in NoteSet /\ r.id = notes[i].id
    BY <1>3, <1>4 DEF NoteSet, Notified!Marks
  <1>6. /\ notes' \in Seq(NoteSet) /\ DOMAIN notes' = DOMAIN notes /\ notes'[i] = r
        /\ \A j \in DOMAIN notes \ {i} : notes'[j] = notes[j]
    BY <1>1, <1>3, <1>4, <1>5
  <1>7. NoteType'
    BY <1>0, <1>1, <1>2, <1>6 DEF NoteType
  <1>8. ASSUME ~rash' PROVE NotesMeant'
    <2>1. NotesApart(notes, sent) /\ Notified!Range(notes) = noting
      BY <1>0, <1>2, <1>8 DEF NotesMeant
    <2>2. PICK t : t = notes'
      OBVIOUS
    <2>3. /\ t \in Seq(NoteSet) /\ DOMAIN t = DOMAIN notes /\ t[i] = r
          /\ \A j \in DOMAIN notes \ {i} : t[j] = notes[j]
      BY <1>6, <2>2
    <2>4. /\ NotesHas(t, sent, {x \in Notified!Range(notes) : x.id # r.id} \cup {r})
          /\ {x \in Notified!Range(notes) : x.id # r.id} = Notified!Range(notes) \ {notes[i]}
      <3>1. PICK n \in Nat : n = sent /\ n >= n
        BY <1>3
      <3>2. NotesApart(notes, n)
        BY <2>1, <3>1
      <3>3. NotesHas(t, n, {x \in Notified!Range(notes) : x.id # r.id} \cup {r})
        BY <1>3, <1>5, <2>3, <3>1, <3>2, NoteEdited
      <3>4. {x \in Notified!Range(notes) : x.id # r.id} = Notified!Range(notes) \ {notes[i]}
        BY <1>5, <3>2, NoteOthers
      <3> QED
        BY <3>1, <3>3, <3>4
    <2>5. NotesApart(notes', sent) /\ Notified!Range(notes') = noting'
      BY <1>1, <1>6, <2>1, <2>2, <2>4 DEF NotesHas
    <2> QED
      BY <1>1, <1>2, <1>8, <2>5 DEF NotesMeant
  <1> QED
    BY <1>1, <1>7, <1>8 DEF NoteInv, NoteLists

LEMMA NoteKept == NoteInv /\ (Notified!Next \/ UNCHANGED note) => NoteInv'
  <1>1. NoteInv /\ UNCHANGED note => NoteInv'
    BY DEF note, NoteInv, NoteType, NoteLists, NotesMeant
  <1>2. NoteInv /\ Notified!Next => NoteInv'
    BY NoteViews, NoteSaves, NoteDeletes, NoteAnswers, NoteElsewhere DEF Notified!Next, Notified!User
  <1> QED
    BY <1>1, <1>2

LEMMA NoteSays == NoteInv => Notified!AsMeant /\ Notified!Listed
  <1>1. NoteInv => Notified!AsMeant
    BY DEF NoteInv, NotesMeant, Notified!AsMeant
  <1>2. NoteInv => Notified!Listed
    BY DEF NoteInv, NoteLists, Notified!Listed
  <1> QED
    BY <1>1, <1>2

-----------------------------------------------------------------------------
(* The faces.                                                              *)

\* Each face is in one of the two lists.
FacesIn(k, u) ==
  /\ \A f \in DOMAIN names :
       IF names[f] = Persons!Unknown THEN f \in u \ DOMAIN k
       ELSE f \in DOMAIN k \ u /\ k[f] = names[f]
  /\ DOMAIN k \cup u = DOMAIN names

FaceInv ==
  /\ DOMAIN names \subseteq Faces /\ DOMAIN known \subseteq Faces
  /\ looking.at = "answer" => DOMAIN looking.known \subseteq Faces
  /\ \A c \in errands : /\ c = [n |-> c.n, op |-> c.op, of |-> c.of, name |-> c.name, at |-> c.at]
                        /\ c.op = "register" => c.of \in Faces
  /\ older \in BOOLEAN
  /\ tracing # Persons!Idle => tracing.of = face.name
  /\ Persons!ProfileListed
  /\ ~older /\ (\A c \in errands : c.at # "done") =>
       /\ looking = Persons!Idle => FacesIn(known, unknown)
       /\ looking.at = "answer" => FacesIn(looking.known, looking.unknown)

LEMMA FaceNumbers ==
  Faces \subseteq Nat \ {0} /\ IsFiniteSet(Faces) /\ DOMAIN NamesAtStart \subseteq Faces
  BY Parameters, Zenon DEF Persons!Numbered, Persons!IsFiniteSet, IsFiniteSet

LEMMA GreatestIs ==
  ASSUME NEW S \in SUBSET Nat, IsFiniteSet(S), S # {}
  PROVE  \E g \in S : \A h \in S : h <= g
  <1> DEFINE T == {Rank(S, r) : r \in S}
  <1>1. \A r \in S : Rank(S, r) \in Nat
    BY RankIs
  <1>2. T \subseteq Nat /\ T # {}
    BY <1>1
  <1>3. PICK m \in T : \A y \in T : m <= y
    BY <1>2, LeastNat
  <1>4. PICK g \in S : Rank(S, g) = m
    BY <1>3
  <1>5. ASSUME NEW h \in S PROVE h <= g
    <2>1. Rank(S, g) <= Rank(S, h)
      BY <1>3, <1>4
    <2>2. h > g => Rank(S, h) < Rank(S, g)
      BY RankIs
    <2>3. Rank(S, g) \in Nat /\ Rank(S, h) \in Nat /\ h \in Nat /\ g \in Nat
      BY <1>1
    <2> QED
      BY <2>1, <2>2, <2>3
  <1> QED
    BY <1>5

\* The face that is selected when the selected one is not listed.
LEMMA LatestIs ==
  ASSUME NEW k, DOMAIN k \subseteq Faces
  PROVE  /\ Persons!Latest(k) = Persons!NoFace <=> DOMAIN k = {}
         /\ Persons!Latest(k) # Persons!NoFace => Persons!Latest(k).id \in DOMAIN k
  <1>1. CASE DOMAIN k = {}
    BY <1>1 DEF Persons!Latest
  <1>2. CASE DOMAIN k # {}
    <2> DEFINE f == CHOOSE g \in DOMAIN k : \A h \in DOMAIN k : h <= g
    <2>1. IsFiniteSet(DOMAIN k) /\ DOMAIN k \in SUBSET Nat
      BY FaceNumbers, FS_Subset
    <2>2. f \in DOMAIN k
      BY <1>2, <2>1, GreatestIs
    <2>3. Persons!Latest(k) = [id |-> f, name |-> k[f]]
      BY <1>2 DEF Persons!Latest
    <2>4. f # 0
      BY <2>2, FaceNumbers
    <2> HIDE DEF f
    <2>5. Persons!Latest(k).id = f /\ Persons!NoFace.id = 0
      BY <2>3 DEF Persons!NoFace, Persons!None
    <2> QED
      BY <1>2, <2>2, <2>4, <2>5
  <1> QED
    BY <1>1, <1>2

\* The profile, its fetch and the list that it is of.
ProfileInv(k, sel, app, tr) ==
  /\ sel = Persons!NoFace <=> DOMAIN k = {}
  /\ sel # Persons!NoFace => sel.id \in DOMAIN k
  /\ app \in {Persons!Empty, sel.name}
  /\ tr # Persons!Idle => tr.of = sel.name

FaceType ==
  /\ DOMAIN names \subseteq Faces /\ DOMAIN known \subseteq Faces
  /\ looking.at = "answer" => DOMAIN looking.known \subseteq Faces
  /\ older \in BOOLEAN

FaceCalls ==
  \A c \in errands : /\ c = [n |-> c.n, op |-> c.op, of |-> c.of, name |-> c.name, at |-> c.at]
                     /\ c.op = "register" => c.of \in Faces

Answerless == \A c \in errands : c.at # "done"

FaceLists ==
  ~older /\ Answerless =>
    /\ looking = Persons!Idle => FacesIn(known, unknown)
    /\ looking.at = "answer" => FacesIn(looking.known, looking.unknown)

LEMMA FaceInvIs ==
  FaceInv <=> FaceType /\ FaceCalls /\ FaceLists /\ ProfileInv(known, face, appearances, tracing)
  BY Zenon DEF FaceInv, FaceType, FaceCalls, FaceLists, Answerless, ProfileInv, Persons!ProfileListed

LEMMA FaceInit == Persons!Init => FaceInv
  <1> SUFFICES ASSUME Persons!Init PROVE FaceInv
    OBVIOUS
  <1>1. /\ names = NamesAtStart /\ known = <<>> /\ looking = Persons!Asked /\ face = Persons!NoFace
        /\ appearances = Persons!Empty /\ tracing = Persons!Idle /\ errands = {} /\ older = TRUE
    BY DEF Persons!Init
  <1>2. DOMAIN known = {}
    BY <1>1
  <1>3. FaceType
    BY <1>1, <1>2, FaceNumbers DEF FaceType, Persons!Asked
  <1>4. FaceCalls /\ FaceLists
    BY <1>1 DEF FaceCalls, FaceLists
  <1>5. ProfileInv(known, face, appearances, tracing)
    BY <1>1, <1>2 DEF ProfileInv
  <1> QED
    BY <1>3, <1>4, <1>5, FaceInvIs

LEMMA ChosenKeeps ==
  ASSUME NEW k, ProfileInv(known, face, appearances, tracing), NEW sel, Persons!Chosen(sel),
         sel = Persons!NoFace <=> DOMAIN k = {}, sel # Persons!NoFace => sel.id \in DOMAIN k
  PROVE  ProfileInv(k, face', appearances', tracing')
  <1>1. face' = sel
    BY DEF Persons!Chosen
  <1>2. CASE sel.name = face.name
    <2>1. UNCHANGED <<appearances, tracing>>
      BY <1>2 DEF Persons!Chosen
    <2> QED
      BY <1>1, <1>2, <2>1 DEF ProfileInv
  <1>3. CASE sel.name # face.name
    <2>1. /\ appearances' = Persons!Empty
          /\ tracing' = IF sel = Persons!NoFace THEN Persons!Idle ELSE [at |-> "asked", of |-> sel.name]
      BY <1>3 DEF Persons!Chosen
    <2>2. tracing' # Persons!Idle => tracing'.of = sel.name
      BY <2>1
    <2> QED
      BY <1>1, <2>1, <2>2 DEF ProfileInv
  <1> QED
    BY <1>2, <1>3

LEMMA FaceLooks ==
  ASSUME FaceInv,
         \/ Persons!Focus \/ Persons!Serve \/ Persons!OnLists \/ Persons!Traced
         \/ \E f \in Faces : Persons!Select(f)
  PROVE  FaceInv'
  <1>0. FaceType /\ FaceCalls /\ FaceLists /\ ProfileInv(known, face, appearances, tracing)
    BY FaceInvIs
  <1>1. UNCHANGED <<names, errands>>
    BY DEF Persons!Focus, Persons!Serve, Persons!OnLists, Persons!Traced, Persons!Select
  <1>2. FaceCalls' /\ (Answerless' => Answerless)
    BY <1>0, <1>1 DEF FaceCalls, Answerless
  <1>3. CASE Persons!Focus
    <2>1. UNCHANGED <<known, unknown, face, appearances, tracing, older>>
          /\ looking' = Persons!Asked
      BY <1>3 DEF Persons!Focus, Persons!profile
    <2>2. looking' # Persons!Idle /\ looking'.at # "answer"
      BY <2>1 DEF Persons!Asked, Persons!Idle
    <2>3. FaceType' /\ FaceLists'
      BY <1>0, <1>1, <2>1, <2>2 DEF FaceType, FaceLists
    <2> QED
      BY <1>0, <1>2, <2>1, <2>3 DEF FaceInv, FaceType, FaceCalls, FaceLists, Answerless, ProfileInv, Persons!ProfileListed
  <1>4. CASE Persons!Serve
    <2>1. /\ UNCHANGED <<known, unknown, face, appearances, tracing>>
          /\ \/ /\ looking' = [at |-> "answer",
                     known |-> [f \in {g \in DOMAIN names : names[g] # Persons!Unknown} |-> names[f]],
                     unknown |-> {f \in DOMAIN names : names[f] = Persons!Unknown}]
                /\ older' = FALSE
             \/ looking' = Persons!Idle /\ older' = TRUE
      BY <1>4 DEF Persons!Serve, Persons!profile, Persons!Restrict
    <2>2. looking'.at = "answer" => DOMAIN looking'.known \subseteq DOMAIN names
                                    /\ FacesIn(looking'.known, looking'.unknown)
      <3>1. CASE looking' = Persons!Idle
        BY <3>1 DEF Persons!Idle
      <3>2. CASE looking' # Persons!Idle
        <4> DEFINE k == [f \in {g \in DOMAIN names : names[g] # Persons!Unknown} |-> names[f]]
                   u == {f \in DOMAIN names : names[f] = Persons!Unknown}
        <4>1. looking' = [at |-> "answer", known |-> k, unknown |-> u]
          BY <2>1, <3>2
        <4>2. DOMAIN k = {g \in DOMAIN names : names[g] # Persons!Unknown}
              /\ \A f \in DOMAIN k : k[f] = names[f]
          OBVIOUS
        <4>3. FacesIn(k, u)
          BY <4>2 DEF FacesIn
        <4>4. looking'.known = k /\ looking'.unknown = u
          BY <4>1
        <4> HIDE DEF k, u
        <4> QED
          BY <4>2, <4>3, <4>4
      <3> QED
        BY <3>1, <3>2
    <2>3. FaceType'
      BY <1>0, <1>1, <2>1, <2>2 DEF FaceType
    <2>4. FaceLists'
      <3>1. older' \/ (looking' # Persons!Idle /\ (looking'.at = "answer" =>
                FacesIn(looking'.known, looking'.unknown)))
        BY <2>1, <2>2 DEF Persons!Idle
      <3> QED
        BY <1>1, <3>1 DEF FaceLists, FacesIn
    <2> QED
      BY <1>0, <1>2, <2>1, <2>3, <2>4 DEF FaceInv, FaceType, FaceCalls, FaceLists, Answerless, ProfileInv, Persons!ProfileListed
  <1>5. CASE Persons!OnLists
    <2>1. /\ looking.at = "answer" /\ looking' = Persons!Idle
          /\ known' = looking.known /\ unknown' = looking.unknown /\ older' = older
          /\ Persons!Chosen(Persons!Reselected(known'))
      BY <1>5 DEF Persons!OnLists
    <2>2. DOMAIN known' \subseteq Faces
      BY <1>0, <2>1 DEF FaceType
    <2>3. PICK sel : sel = Persons!Reselected(known')
      OBVIOUS
    <2>4. /\ sel = Persons!NoFace <=> DOMAIN known' = {}
          /\ sel # Persons!NoFace => sel.id \in DOMAIN known'
      <3>1. CASE face.id \in DOMAIN known'
        <4>1. sel = face
          BY <2>3, <3>1 DEF Persons!Reselected
        <4>2. face.id # 0
          BY <2>2, <3>1, FaceNumbers
        <4>3. face # Persons!NoFace
          BY <4>2 DEF Persons!NoFace, Persons!None
        <4> QED
          BY <3>1, <4>1, <4>3
      <3>2. CASE face.id \notin DOMAIN known'
        BY <2>2, <2>3, <3>2, LatestIs DEF Persons!Reselected
      <3> QED
        BY <3>1, <3>2
    <2>5. ProfileInv(known', face', appearances', tracing')
      BY <1>0, <2>1, <2>3, <2>4, ChosenKeeps
    <2>6. FaceType'
      BY <1>0, <1>1, <2>1, <2>2 DEF FaceType, Persons!Idle
    <2>7. FaceLists'
      BY <1>0, <1>1, <1>2, <2>1 DEF FaceLists, FacesIn, Persons!Idle
    <2> QED
      BY <1>2, <2>5, <2>6, <2>7 DEF FaceInv, FaceType, FaceCalls, FaceLists, Answerless, ProfileInv, Persons!ProfileListed
  <1>6. CASE Persons!Traced
    <2>1. /\ UNCHANGED <<known, unknown, looking, face, older>> /\ tracing # Persons!Idle
          /\ tracing' = Persons!Idle /\ appearances' \in {tracing.of, appearances}
      BY <1>6 DEF Persons!Traced, Persons!shown
    <2>2. ProfileInv(known', face', appearances', tracing')
      BY <1>0, <2>1 DEF ProfileInv
    <2>3. FaceType' /\ FaceLists'
      BY <1>0, <1>1, <1>2, <2>1 DEF FaceType, FaceLists, FacesIn
    <2> QED
      BY <1>2, <2>2, <2>3 DEF FaceInv, FaceType, FaceCalls, FaceLists, Answerless, ProfileInv, Persons!ProfileListed
  <1>7. ASSUME NEW f \in Faces, Persons!Select(f) PROVE FaceInv'
    <2>1. /\ UNCHANGED <<known, unknown, looking, older>> /\ f \in DOMAIN known
          /\ Persons!Chosen([id |-> f, name |-> known[f]])
      BY <1>7 DEF Persons!Select, Persons!shown
    <2>2. PICK sel : sel = [id |-> f, name |-> known[f]]
      OBVIOUS
    <2>3. sel.id = f /\ f # 0 /\ Persons!NoFace.id = 0
      BY <2>2, FaceNumbers DEF Persons!NoFace, Persons!None
    <2>4. ProfileInv(known, face', appearances', tracing')
      BY <1>0, <2>1, <2>2, <2>3, ChosenKeeps
    <2>5. ProfileInv(known', face', appearances', tracing')
      BY <2>1, <2>4
    <2>6. FaceType' /\ FaceLists'
      BY <1>0, <1>1, <1>2, <2>1 DEF FaceType, FaceLists, FacesIn
    <2> QED
      BY <1>2, <2>5, <2>6 DEF FaceInv, FaceType, FaceCalls, FaceLists, Answerless, ProfileInv, Persons!ProfileListed
  <1> QED
    BY <1>3, <1>4, <1>5, <1>6, <1>7

LEMMA FaceAsks ==
  ASSUME FaceInv,
         \/ Persons!CloseNaming \/ Persons!Ask
         \/ \E f \in Faces : Persons!OpenNaming(f)
         \/ \E p \in People : Persons!TypeName(p)
  PROVE  FaceInv'
  <1>0. FaceType /\ FaceCalls /\ FaceLists /\ ProfileInv(known, face, appearances, tracing)
    BY FaceInvIs
  <1>1. UNCHANGED <<names, known, unknown, looking, face, appearances, tracing, older>>
    BY DEF Persons!CloseNaming, Persons!Ask, Persons!OpenNaming, Persons!TypeName,
           Persons!Send, Persons!shown, Persons!profile
  <1>2. \/ UNCHANGED errands
        \/ \E op, f, p : /\ errands' = errands \cup
                              {[n |-> made, op |-> op, of |-> f, name |-> p, at |-> "asked"]}
                         /\ op = "register" => f \in Faces
    <2>1. CASE Persons!Ask
      <3>1. CASE Persons!Send("identify", namingFace, nameDraft)
        BY <3>1 DEF Persons!Send
      <3>2. CASE \E f \in DOMAIN known, p \in People : Persons!Send("rename", f, p)
        BY <3>2 DEF Persons!Send
      <3>3. CASE \E f \in DOMAIN known \cup unknown : Persons!Send("delete", f, Persons!Empty)
        BY <3>3 DEF Persons!Send
      <3>4. CASE \E f \in Faces, p \in People : Persons!Send("register", f, p)
        BY <3>4 DEF Persons!Send
      <3> QED
        BY <2>1, <3>1, <3>2, <3>3, <3>4 DEF Persons!Ask
    <2> QED
      BY <2>1 DEF Persons!CloseNaming, Persons!OpenNaming, Persons!TypeName
  <1>3. FaceCalls' /\ (Answerless' => Answerless)
    BY <1>0, <1>2 DEF FaceCalls, Answerless
  <1>4. FaceType' /\ FaceLists' /\ ProfileInv(known', face', appearances', tracing')
    BY <1>0, <1>1, <1>3 DEF FaceType, FaceLists, FacesIn, ProfileInv
  <1> QED
    BY <1>3, <1>4 DEF FaceInv, FaceType, FaceCalls, FaceLists, Answerless, ProfileInv, Persons!ProfileListed

LEMMA FaceAnswers ==
  ASSUME FaceInv, NEW c \in errands, Persons!Served(c) \/ Persons!Answered(c)
  PROVE  FaceInv'
  <1>0. FaceType /\ FaceCalls /\ FaceLists /\ ProfileInv(known, face, appearances, tracing)
    BY FaceInvIs
  <1>1. CASE Persons!Served(c)
    <2>1. UNCHANGED <<known, unknown, looking, face, appearances, tracing, older>> /\ c.at = "asked"
      BY <1>1 DEF Persons!Served, Persons!shown, Persons!profile
    <2>2. PICK end \in {"done", "failed"} :
            /\ errands' = (errands \ {c}) \cup {[c EXCEPT !.at = end]}
            /\ end = "failed" => UNCHANGED names
      BY <1>1 DEF Persons!Served
    <2>3. PICK d : d = [c EXCEPT !.at = end]
      OBVIOUS
    <2>4. c = [n |-> c.n, op |-> c.op, of |-> c.of, name |-> c.name, at |-> c.at]
          /\ (c.op = "register" => c.of \in Faces)
      BY <1>0 DEF FaceCalls
    <2>5. d = [n |-> c.n, op |-> c.op, of |-> c.of, name |-> c.name, at |-> end]
      BY <2>3, <2>4
    <2>6. d.n = c.n /\ d.op = c.op /\ d.of = c.of /\ d.name = c.name /\ d.at = end
      BY <2>5
    <2>7. errands' = (errands \ {c}) \cup {d}
      BY <2>2, <2>3
    <2>8. FaceCalls'
      BY <1>0, <2>4, <2>5, <2>6, <2>7 DEF FaceCalls
    <2>9. DOMAIN names' \subseteq Faces
      <3>1. \/ UNCHANGED names
            \/ names' = [f \in DOMAIN names \ {c.of} |-> names[f]]
            \/ /\ names' = [f \in DOMAIN names \cup {c.of} |->
                              IF f = c.of THEN c.name ELSE names[f]]
               /\ c.of \in DOMAIN names \/ c.op = "register"
        BY <1>1 DEF Persons!Served, Persons!Restrict
      <3> QED
        BY <1>0, <2>4, <3>1 DEF FaceType
    <2>10. FaceLists'
      <3>1. CASE end = "done"
        BY <2>6, <2>7, <3>1 DEF FaceLists, Answerless
      <3>2. CASE end = "failed"
        <4>1. Answerless' => Answerless
          BY <2>1, <2>7 DEF Answerless
        <4> QED
          BY <1>0, <2>1, <2>2, <3>2, <4>1 DEF FaceLists, FacesIn
      <3> QED
        BY <3>1, <3>2
    <2>11. FaceType' /\ ProfileInv(known', face', appearances', tracing')
      BY <1>0, <2>1, <2>9 DEF FaceType, ProfileInv
    <2> QED
      BY <2>8, <2>10, <2>11 DEF FaceInv, FaceType, FaceCalls, FaceLists, Answerless, ProfileInv, Persons!ProfileListed
  <1>2. CASE Persons!Answered(c)
    <2>1. /\ UNCHANGED <<names, known, unknown, face, appearances>> /\ errands' = errands \ {c}
      BY <1>2 DEF Persons!Answered
    <2>2. FaceCalls'
      BY <1>0, <2>1 DEF FaceCalls
    <2>3. CASE c.at # "failed"
      <3>1. /\ looking' = IF looking = Persons!Idle THEN Persons!Asked ELSE looking
            /\ older' = (looking.at = "answer")
            /\ tracing' = IF face = Persons!NoFace \/ tracing # Persons!Idle THEN tracing
                          ELSE [at |-> "asked", of |-> face.name]
        BY <1>2, <2>3 DEF Persons!Answered, Persons!Refetched
      <3>2. Persons!Asked # Persons!Idle /\ Persons!Asked.at # "answer"
        BY DEF Persons!Asked, Persons!Idle
      <3>3. looking' = Persons!Asked \/ (looking' = looking /\ looking # Persons!Idle)
        BY <3>1
      <3>4. looking' # Persons!Idle /\ (looking'.at = "answer" => older') /\ older' \in BOOLEAN
        BY <3>1, <3>2, <3>3, Zenon
      <3>5. FaceLists'
        BY <3>4 DEF FaceLists
      <3>6. looking'.at = "answer" => looking' = looking
        BY <3>2, <3>3
      <3>7. FaceType'
        BY <1>0, <2>1, <3>4, <3>6 DEF FaceType
      <3>8. tracing' # Persons!Idle => tracing'.of = face.name
        BY <1>0, <3>1 DEF ProfileInv
      <3>9. ProfileInv(known', face', appearances', tracing')
        BY <1>0, <2>1, <3>8 DEF ProfileInv
      <3> QED
        BY <2>2, <3>5, <3>7, <3>9 DEF FaceInv, FaceType, FaceCalls, FaceLists, Answerless, ProfileInv, Persons!ProfileListed
    <2>4. CASE c.at = "failed"
      <3>1. UNCHANGED <<looking, older, tracing>>
        BY <1>2, <2>4 DEF Persons!Answered
      <3>2. Answerless' => Answerless
        BY <2>1, <2>4 DEF Answerless
      <3>3. FaceType' /\ FaceLists' /\ ProfileInv(known', face', appearances', tracing')
        BY <1>0, <2>1, <3>1, <3>2 DEF FaceType, FaceLists, FacesIn, ProfileInv
      <3> QED
        BY <2>2, <3>3 DEF FaceInv, FaceType, FaceCalls, FaceLists, Answerless, ProfileInv, Persons!ProfileListed
    <2> QED
      BY <2>3, <2>4
  <1> QED
    BY <1>1, <1>2

LEMMA FaceKept == FaceInv /\ (Persons!Next \/ UNCHANGED person) => FaceInv'
  <1>1. FaceInv /\ UNCHANGED person => FaceInv'
    BY DEF person, FaceInv, FacesIn, Persons!ProfileListed
  <1>2. FaceInv /\ Persons!Next => FaceInv'
    BY FaceLooks, FaceAsks, FaceAnswers DEF Persons!Next, Persons!User
  <1> QED
    BY <1>1, <1>2

LEMMA FaceSays == FaceInv => Persons!Listed /\ Persons!ProfileListed
  BY DEF FaceInv, FacesIn, Persons!Listed

-----------------------------------------------------------------------------
(* All pages together.                                                     *)

SettingsInv == FormInv /\ WizardInv /\ CamInv /\ EditorInv /\ SwitchInv /\ BoxInv /\ ZoneInv

PageInv == RuleInv /\ LineInv /\ NoteInv /\ FaceInv

LEMMA SettingsKeep == SettingsInv /\ (SettingsNext \/ UNCHANGED settings) => SettingsInv'
  <1> SUFFICES ASSUME SettingsInv, SettingsNext \/ UNCHANGED settings PROVE SettingsInv'
    OBVIOUS
  <1>1. Forms!Next \/ UNCHANGED forms
    BY DEF SettingsNext, settings
  <1>2. Wizard!Next \/ UNCHANGED wizard
    BY DEF SettingsNext, settings
  <1>3. CamWizard!Next \/ UNCHANGED camwiz
    BY DEF SettingsNext, settings
  <1>4. Editor!Next \/ UNCHANGED editor
    BY DEF SettingsNext, settings
  <1>5. Switches!Next \/ UNCHANGED toggles
    BY DEF SettingsNext, settings
  <1>6. Boxes!Next \/ UNCHANGED ticks
    BY DEF SettingsNext, settings
  <1>7. Zones!Next \/ UNCHANGED areas
    BY DEF SettingsNext, settings
  <1> QED
    BY <1>1, <1>2, <1>3, <1>4, <1>5, <1>6, <1>7, FormKept, WizardKept, CamKept, EditorKept,
       SwitchKept, BoxKept, ZoneKept DEF SettingsInv

LEMMA PagesKeep == PageInv /\ [Next]_vars => PageInv'
  <1> SUFFICES ASSUME PageInv, [Next]_vars PROVE PageInv'
    OBVIOUS
  <1>1. Rules!Next \/ UNCHANGED rule
    BY DEF Next, vars
  <1>2. Lines!Next \/ UNCHANGED tab
    BY DEF Next, vars
  <1>3. Notified!Next \/ UNCHANGED note
    BY DEF Next, vars
  <1>4. Persons!Next \/ UNCHANGED person
    BY DEF Next, vars
  <1> QED
    BY <1>1, <1>2, <1>3, <1>4, RuleKept, LineKept, NoteKept, FaceKept DEF PageInv

(* However edits, fetches, saves, their answers and changes from elsewhere *)
(* follow each other, for any cameras, plugins, rows, rules, lines and     *)
(* faces, what an operator has entered in a page of the settings, of a     *)
(* plugin or of the faces is what is sent and stored, and a list that has  *)
(* come shows what is stored, with each page's exceptions (FormsHold).     *)
THEOREM WhatIsEnteredIsKept == Spec => []FormsHold
  <1>1. Init => SettingsInv /\ PageInv
    <2>1. Init => SettingsInv
      BY FormInit, WizardInit, CamInit, EditorInit, SwitchInit, BoxInit, ZoneInit
         DEF Init, SettingsInit, SettingsInv
    <2>2. Init => PageInv
      BY RuleInit, LineInit, NoteInit, FaceInit DEF Init, PageInv
    <2> QED
      BY <2>1, <2>2
  <1>2. SettingsInv /\ PageInv /\ [Next]_vars => (SettingsInv /\ PageInv)'
    <2> SUFFICES ASSUME SettingsInv, PageInv, [Next]_vars PROVE (SettingsInv /\ PageInv)'
      OBVIOUS
    <2>1. SettingsNext \/ UNCHANGED settings
      BY DEF Next, vars
    <2> QED
      BY <2>1, SettingsKeep, PagesKeep
  <1>3. SettingsInv /\ PageInv => FormsHold
    <2>1. SettingsInv => SettingsKept
      BY SwitchSays DEF SettingsInv, SettingsKept, FormInv, WizardInv, CamInv, EditorInv, BoxInv, ZoneInv
    <2>2. PageInv => /\ Rules!AsMeant /\ Lines!SavedIsStored
                     /\ Notified!AsMeant /\ Notified!Listed
                     /\ Persons!Listed /\ Persons!ProfileListed
      BY RuleSays, LineSays, NoteSays, FaceSays DEF PageInv
    <2> QED
      BY <2>1, <2>2 DEF FormsHold
  <1> QED
    BY <1>1, <1>2, <1>3, PTL DEF Spec
=============================================================================
