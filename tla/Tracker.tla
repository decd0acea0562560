------------------------------ MODULE Tracker ------------------------------
(***************************************************************************)
(* plugins/shared/tracker.py: which detections of one class are taken for  *)
(* which object, frame after frame.  A place stands for the detections of  *)
(* one spot of the picture; the spots are in a row, and only neighbours    *)
(* are less than 100 pixels apart.                                         *)
(*                                                                         *)
(* The tracks of a tracker are a sequence, in the order of its dictionary, *)
(* of records [id, place].                                                 *)
(***************************************************************************)
EXTENDS Integers, FiniteSets, SequencesExt

Distance(a, b) == IF a < b THEN b - a ELSE a - b
Near(a, b)     == Distance(a, b) <= 1

(* The tracks a detection may be taken for.                                *)
Close(tracks, place) == {i \in DOMAIN tracks : Near(tracks[i].place, place)}

(* _match_detection_to_track: the first of the nearest ones.               *)
Nearest(tracks, place) ==
  CHOOSE i \in Close(tracks, place) : \A j \in Close(tracks, place) :
    LET di == Distance(tracks[i].place, place)
        dj == Distance(tracks[j].place, place)
    IN di < dj \/ (di = dj /\ i <= j)

(* The id of a detection: that of its track, else one more than there are  *)
(* tracks, which another track may have.                                   *)
IdOf(tracks, place) ==
  IF Close(tracks, place) # {} THEN tracks[Nearest(tracks, place)].id ELSE Len(tracks) + 1

Has(tracks, id) == \E i \in DOMAIN tracks : tracks[i].id = id

(* One detection: a new track, or the track of that id moves.              *)
Detect(result, place) ==
  LET id == IdOf(result.tracks, place)
  IN [tracks |-> IF Has(result.tracks, id)
                 THEN [i \in DOMAIN result.tracks |->
                         IF result.tracks[i].id = id THEN [id |-> id, place |-> place]
                         ELSE result.tracks[i]]
                 ELSE Append(result.tracks, [id |-> id, place |-> place]),
      seen   |-> Append(result.seen, id)]

(* The tracks that have been seen, in their order.                         *)
Kept(tracks, seen) ==
  LET keep    == {i \in DOMAIN tracks : Contains(seen, tracks[i].id)}
      upTo(i) == Cardinality({j \in keep : j <= i})
  IN  [n \in 1..Cardinality(keep) |-> tracks[CHOOSE i \in keep : upTo(i) = n]]

(* update: the detections of a frame one after the other, and then the     *)
(* tracks without a detection are forgotten.  Returns the tracks and the   *)
(* id of each detection.                                                   *)
Update(tracks, places) ==
  LET result[n \in 0..Len(places)] ==
        IF n = 0 THEN [tracks |-> tracks, seen |-> <<>>]
        ELSE Detect(result[n - 1], places[n])
      all == result[Len(places)]
  IN [tracks |-> Kept(all.tracks, all.seen), seen |-> all.seen]

PlaceOf(tracks, id) == (CHOOSE k \in Range(tracks) : k.id = id).place
=============================================================================
