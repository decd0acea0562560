---------------------------- MODULE PlaybackPage ----------------------------
(***************************************************************************)
(* Playback of a day (pages/Playback.tsx, components/playback/PlaybackView *)
(* .tsx): one clock, driven by a timer and by the videos of the cameras,   *)
(* which jumps over what no chosen camera recorded; each video follows the *)
(* clock unless it leads it.  Time is counted in half seconds from the     *)
(* begin of the day.                                                       *)
(***************************************************************************)
EXTENDS Integers, FiniteSets, FiniteSetsExt, Sequences

CONSTANTS
  Watched,    \* the cameras
  Recorded,   \* of each, the segments of the day, in order: start and end
  Day,        \* rangeEnd
  Stride,     \* bound: how far the timer takes the clock in one call
  MaxCameras  \* MAX_CAMERAS, 4 in the code

Recordings ==
  /\ {Day, Stride, MaxCameras} \subseteq Nat \ {0}
  /\ Recorded \in [Watched -> Seq([start : Nat, end : Nat])]
  /\ \A c \in Watched : \A i \in DOMAIN Recorded[c] :
       Recorded[c][i].start < Recorded[c][i].end /\ Recorded[c][i].end <= Day

\* The timer is called in time: it does not take the clock past a segment,
\* none of which is shorter than a second.
Unhurried ==
  \A c \in Watched : \A i \in DOMAIN Recorded[c] :
    Recorded[c][i].end - Recorded[c][i].start >= 2 /\ Recorded[c][i].end - Recorded[c][i].start >= Stride

VARIABLES
  opened,   \* the page is mounted
  chosen,   \* selectedIds
  loading,  \* those whose recordings are being fetched
  playing,
  clock,    \* currentTime
  video     \* per camera: seg, the segment its player shows, or none; at,
            \* the position in it; leads, isLeaderRef

vars == <<opened, chosen, loading, playing, clock, video>>

Empty == [start |-> 0, end |-> 0]
NoVideo == [seg |-> Empty, at |-> 0, leads |-> FALSE]

Init ==
  /\ opened = FALSE /\ chosen = {} /\ loading = {} /\ playing = FALSE
  /\ clock = 0
  /\ video = [c \in Watched |-> NoVideo]

-----------------------------------------------------------------------------
(* Segments.                                                               *)

Covers(s, t) == s.start <= t /\ t < s.end

(* cameraSegments: nothing while anything is being fetched.                *)
Segments(C, L, c) == IF c \in C /\ L = {} THEN Recorded[c] ELSE <<>>

(* The first start after t in allSegments, which are sorted.               *)
FirstAfter(S, t) == Min({s.start : s \in {s \in S : s.start > t}})

(* findContinuousTime.                                                     *)
Continuous(S, t) ==
  IF \E s \in S : Covers(s, t) THEN t
  ELSE IF \E s \in S : s.start > t THEN FirstAfter(S, t)
  ELSE Day

AllSegments(C, L) == UNION {Range(Segments(C, L, c)) : c \in Watched}

Clip(t) == IF t < 0 THEN 0 ELSE IF t > Day THEN Day ELSE t

-----------------------------------------------------------------------------
(* After a change of what is chosen, loading, playing or of the time the   *)
(* effects run: the clock jumps to what is recorded, a player appears,     *)
(* changes its source or goes, and follows the clock.                      *)

Apart(x, y) == x - y > 3 \/ y - x > 3

Followed(v, s, t) ==
  LET w == IF v.seg = s THEN v ELSE [v EXCEPT !.seg = s, !.at = 0]
  IN  IF ~w.leads /\ Apart(w.at, t - s.start) THEN [w EXCEPT !.at = t - s.start] ELSE w

Render(C, L, p, t) ==
  LET S   == AllSegments(C, L)
      now == IF p /\ S # {} THEN Continuous(S, t) ELSE t
      Active(c) == {s \in Range(Segments(C, L, c)) : Covers(s, now)}
  IN  /\ chosen' = C /\ loading' = L /\ playing' = p /\ clock' = now
      /\ video' = [c \in Watched |->
           IF Active(c) = {} THEN NoVideo ELSE Followed(video[c], CHOOSE s \in Active(c) : TRUE, now)]

-----------------------------------------------------------------------------
(* The page.                                                               *)

OpenPage ==
  /\ ~opened /\ opened' = TRUE
  /\ UNCHANGED <<chosen, loading, playing, clock, video>>

(* toggleCamera; the query of a camera that is chosen is sent.             *)
Toggle(c) ==
  /\ opened
  /\ c \in chosen \/ Cardinality(chosen) < MaxCameras
  /\ IF c \in chosen THEN Render(chosen \ {c}, loading \ {c}, playing, clock)
                     ELSE Render(chosen \cup {c}, loading \cup {c}, playing, clock)
  /\ UNCHANGED opened

(* A query is answered, or the focus of the window sends all of them.      *)
Loaded(c) == c \in loading /\ Render(chosen, loading \ {c}, playing, clock) /\ UNCHANGED opened

Refocus == chosen # {} /\ loading = {} /\ Render(chosen, chosen, playing, clock) /\ UNCHANGED opened

(* The button; pausing does not depend on what is recorded.                *)
PlayPause == chosen # {} /\ Render(chosen, loading, ~playing, clock) /\ UNCHANGED opened

(* handleSeek, of the time line and of the list of events.                 *)
Seek(t) == opened /\ Render(chosen, loading, TRUE, Clip(t)) /\ UNCHANGED opened

(* handleDateChange: the recordings are removed, and asked for again.      *)
DateChange == opened /\ Render(chosen, chosen, FALSE, 0) /\ UNCHANGED opened

-----------------------------------------------------------------------------
(* The clock.                                                              *)

(* The timer: by the time since the last call and the rate.                *)
Timer(d) == playing /\ Render(chosen, loading, playing, Clip(clock + d)) /\ UNCHANGED opened

(* Variant: a video that lags behind sets the clock back.                  *)
TimeUpdateBack(c) ==
  LET v == [video[c] EXCEPT !.at = IF @ < video[c].seg.end - video[c].seg.start THEN @ + 1 ELSE @, !.leads = TRUE]
      t == v.seg.start + v.at
  IN  /\ playing /\ video[c].seg # Empty
      /\ clock' = IF t >= v.seg.end THEN Continuous(AllSegments(chosen, loading), v.seg.end) ELSE t
      /\ video' = [video EXCEPT ![c] = v]
      /\ UNCHANGED <<opened, chosen, loading, playing>>

(* handleTimeUpdate: the video has gone on.  It leads from now on; where   *)
(* it is behind the clock nothing ends that (no setTimeout after return).  *)
TimeUpdate(c) ==
  LET s  == video[c].seg
      at == IF video[c].at < s.end - s.start THEN video[c].at + 1 ELSE video[c].at
      t  == s.start + at
      S  == AllSegments(chosen, loading)
      to == IF t >= s.end THEN Continuous(S, s.end) ELSE t
      V  == [video EXCEPT ![c].at = at, ![c].leads = TRUE]
      Active(u) == {r \in Range(Segments(chosen, loading, u)) : Covers(r, to)}
  IN  /\ playing /\ s # Empty
      /\ IF t < clock - 1
         THEN clock' = clock /\ video' = V
         ELSE /\ clock' = to
              /\ video' = [u \in Watched |->
                   IF Active(u) = {} THEN NoVideo ELSE Followed(V[u], CHOOSE r \in Active(u) : TRUE, to)]
      /\ UNCHANGED <<opened, chosen, loading, playing>>

(* 50 ms after an update that was taken.                                   *)
LeadEnds(c) ==
  /\ video[c].leads /\ ~(video[c].seg.start + video[c].at < clock - 1)
  /\ video' = [video EXCEPT ![c].leads = FALSE]
  /\ UNCHANGED <<opened, chosen, loading, playing, clock>>

(* Bound: where one seeks to.                                              *)
Sought == {0, Day \div 2, Day}

User ==
  \/ OpenPage \/ Refocus \/ PlayPause \/ DateChange
  \/ \E c \in Watched : Toggle(c) \/ Loaded(c)
  \/ \E t \in Sought : Seek(t)

Next ==
  \/ User
  \/ \E d \in 1..Stride : Timer(d)
  \/ \E c \in Watched : TimeUpdate(c) \/ LeadEnds(c)

Spec == Init /\ [][Next]_vars

-----------------------------------------------------------------------------
(* A video that is ahead of the clock: it has not followed a seek back.    *)
Ahead(c) == video[c].seg # Empty /\ video[c].seg.start + video[c].at > clock + 1

(* As long as nobody seeks, no video is ahead and the timer is called in   *)
(* time, the clock neither goes back by more than half a second, whichever *)
(* video reports its time, nor passes over a segment of a chosen camera    *)
(* (the guard of handleTimeUpdate, findContinuousTime over the sorted      *)
(* segments of all cameras).                                               *)
PassesAll ==
  [][ /\ playing /\ playing' /\ chosen' = chosen /\ loading' = loading
      /\ \A c \in Watched : ~Ahead(c)
      /\ \A t \in Sought : ~Seek(t)
      => /\ clock' >= clock - 1
         /\ \A s \in AllSegments(chosen, loading) : ~(clock < s.start /\ s.end <= clock') ]_vars

-----------------------------------------------------------------------------
(* What the code does not do; each is refuted by a demonstration.          *)

(* A video that plays shows what the clock says, to two seconds.           *)
InSync ==
  \A c \in Watched :
    playing /\ video[c].seg # Empty => ~(video[c].seg.start + video[c].at < clock - 4)

(* What the operator sought is not undone by a video.                      *)
SeekHolds ==
  [][ \A c \in Watched : TimeUpdate(c) => clock' <= clock + 1 \/ video[c].seg.end <= clock + 1 ]_vars
=============================================================================
