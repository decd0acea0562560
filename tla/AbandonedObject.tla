-------------------------- MODULE AbandonedObject --------------------------
(***************************************************************************)
(* plugins/enterprise/abandoned_object/plugin.py on one camera: what it    *)
(* takes for an abandoned object, frame after frame, by the tracks of the  *)
(* objects and of the people (Tracker).                                    *)
(*                                                                         *)
(* A frame is one action: the awaits within it are those of emit_alert,    *)
(* and on_frame is not called again for the camera before it has returned  *)
(* (PluginRegistry, OneAtATime).  Seconds are counted as ages that stop at *)
(* the largest threshold they are compared with.  _last_event_at is left   *)
(* out: it is purged with the object, so its cooldown never decides.       *)
(***************************************************************************)
EXTENDS Tracker

CONSTANTS
  Places,      \* the spots of the picture, integers
  MaxObjects,  \* bound: objects detected in a frame
  MaxPeople,   \* bound: people detected in a frame
  Gaps,        \* the seconds from a frame to the next
  Persistence, \* required_persistence_frames
  Suspicious, Pending, Abandoned, \* suspicious_, pending_, min_abandoned_seconds
  Stale, Removed,                 \* stale_seconds, removed_seconds
  None

Ids    == 1..(2 * MaxObjects)  \* those of a frame before and those new in it
Alerts == {"abandoned_object", "removed_object"}
States == {"NEW", "MOVING", "STATIC_CANDIDATE", "ABANDONED_PENDING",
           "ABANDONED_CONFIRMED", "REMOVED", "CLEARED"}

AtMost(bound, n) == IF n < bound THEN n ELSE bound
Largest(a, b)    == IF a < b THEN b ELSE a

(* What is kept of an object.                                              *)
Objects ==
  [places : UNION {[1..n -> Places] : n \in 1..Persistence},
   state : States,
   unattended : (0..Abandoned) \cup {None},
   missing : 0..Largest(Stale, Removed),
   emitted : SUBSET Alerts]

Parameters ==
  /\ Places \subseteq Int
  /\ Gaps \subseteq Nat \ {0}
  /\ Persistence \in Nat \ {0}
  /\ {Suspicious, Pending, Abandoned, Stale, Removed, MaxObjects, MaxPeople} \subseteq Nat
  /\ None \notin Int /\ None \notin Objects

VARIABLES
  tracks,  \* the tracker of the objects
  people,  \* the tracker of the people
  object,  \* _object_states: what is known of the object of each id, or None;
           \* one that the last frame has cleared is still shown as CLEARED
  alone,   \* history: the time since a frame showed an object at a place and
           \* somebody near, kept until blurred
  steady,  \* history: the place of the only object, and for how many frames in
           \* a row it has been all there was, with nobody in the picture
  mixed,   \* history: two detections of a frame were given one track
  blurred  \* history: two objects were close, two people were given one track,
           \* or a track was lost while another object was shown or still known

vars == <<tracks, people, object, alone, steady, mixed, blurred>>

Init ==
  /\ tracks = <<>>
  /\ people = <<>>
  /\ object = [id \in Ids |-> None]
  /\ alone = [p \in Places |-> Abandoned]
  /\ steady = [place |-> None, frames |-> 0]
  /\ mixed = FALSE
  /\ blurred = FALSE

-----------------------------------------------------------------------------
(* What a frame does to one object.                                        *)

(* _emit_once: of the alerts, those in Alerts are remembered.              *)
Emit(o, alert) == [o EXCEPT !.emitted = @ \cup ({alert} \cap Alerts)]

(* The object gets a frame older; one that was cleared is no longer there. *)
Older(o, gap) ==
  IF o = None THEN None
  ELSE IF o.state = "CLEARED" THEN None
  ELSE [o EXCEPT !.missing = AtMost(Largest(Stale, Removed), @ + gap),
                 !.unattended = IF @ = None THEN None ELSE AtMost(Abandoned, @ + gap)]

(* _upsert_object_state: of the positions, only the last ones are read.    *)
Upsert(o, place) ==
  IF o = None
  THEN [places |-> <<place>>, state |-> "NEW", unattended |-> None, missing |-> 0,
        emitted |-> {}]
  ELSE [o EXCEPT !.missing = 0,
                 !.places = IF Len(@) < Persistence THEN Append(@, place)
                            ELSE Append(Tail(@), place)]

(* _thresholds_for_state, and the state that goes with each.               *)
Unattended(o) ==
  CASE o.unattended >= Abandoned ->
         Emit([o EXCEPT !.state = "ABANDONED_CONFIRMED"], "abandoned_object")
    [] o.unattended < Abandoned /\ o.unattended >= Pending ->
         Emit([o EXCEPT !.state = "ABANDONED_PENDING"], "abandoned_pending")
    [] o.unattended < Abandoned /\ o.unattended < Pending /\ o.unattended >= Suspicious ->
         Emit([o EXCEPT !.state = "STATIC_CANDIDATE"], "suspicious_static_object")
    [] OTHER -> o

(* Variant: the time without an owner goes on while the owner is there.    *)
AttendedOn(o) == [o EXCEPT !.state = "STATIC_CANDIDATE"]

(* Somebody is near: the time without an owner starts again.               *)
Attended(o) ==
  [(IF o.state \in {"ABANDONED_PENDING", "ABANDONED_CONFIRMED"}
    THEN Emit(o, "owner_returned") ELSE o)
     EXCEPT !.state = "STATIC_CANDIDATE", !.unattended = None]

(* _advance_state.                                                         *)
Advance(o, attended) ==
  LET static == \A i, j \in DOMAIN o.places : o.places[i] = o.places[j]
  IN CASE Len(o.places) < Persistence -> Emit(o, "object_appeared")
       [] Len(o.places) = Persistence /\ ~static ->
            [o EXCEPT !.state = "MOVING", !.unattended = None]
       [] Len(o.places) = Persistence /\ static /\ attended -> Attended(o)
       [] OTHER -> Unattended([o EXCEPT !.unattended = IF @ = None THEN 0 ELSE @])

(* Variant: a lost object is cleared before it is reported as removed.     *)
MissingCleared(o) ==
  IF o.missing >= Stale THEN Emit([o EXCEPT !.state = "CLEARED"], "object_cleared")
  ELSE IF o.state = "ABANDONED_CONFIRMED" /\ o.missing >= Removed
  THEN Emit([o EXCEPT !.state = "REMOVED"], "removed_object")
  ELSE o

(* _handle_missing_objects: reported as removed, and then cleared.         *)
Missing(o) ==
  LET gone == IF o.state = "ABANDONED_CONFIRMED" /\ o.missing >= Removed
              THEN Emit([o EXCEPT !.state = "REMOVED"], "removed_object") ELSE o
  IN IF o.missing >= Stale THEN Emit([gone EXCEPT !.state = "CLEARED"], "object_cleared")
     ELSE gone

-----------------------------------------------------------------------------
(* Frames.                                                                 *)

Scenes(bound) == UNION {[1..n -> Places] : n \in 0..bound}

(* An object of a frame: once for each detection that is taken for it, all *)
(* of them at the place where its track is in the end.                     *)
Shown(o, place, attended, times) ==
  LET after[n \in 0..times] ==
        IF n = 0 THEN o ELSE Advance(Upsert(after[n - 1], place), attended)
  IN after[times]

(* What is known of an object after a frame.                               *)
Known(o, id, now, who) ==
  LET times == Cardinality({n \in DOMAIN now.seen : now.seen[n] = id})
      place == PlaceOf(now.tracks, id)
  IN IF times > 0 THEN Shown(o, place, \E k \in Range(who) : Near(k.place, place), times)
     ELSE IF o = None THEN None ELSE Missing(o)

(* A track is lost while another object is shown or known.                 *)
Lost(objects, seen) ==
  \E k \in Range(tracks) : ~Contains(seen, k.id) /\
    (objects # <<>> \/ \E id \in Ids \ {k.id} : object[id] # None)

(* _process_detections.                                                    *)
Frame(gap, objects, persons, now, who) ==
  /\ tracks' = now.tracks
  /\ people' = who.tracks
  /\ object' = [id \in Ids |-> Known(Older(object[id], gap), id, now, who.tracks)]
  /\ blurred' = (blurred \/ Lost(objects, now.seen) \/ ~IsInjective(who.seen) \/
                 \E i, j \in DOMAIN objects : i # j /\ Near(objects[i], objects[j]))
  /\ alone' = [p \in Places |->
       IF blurred' THEN Abandoned
       ELSE IF Contains(objects, p) /\ \E q \in Range(persons) : Near(p, q) THEN 0
       ELSE AtMost(Abandoned, alone[p] + gap)]
  /\ steady' =
       IF Len(objects) # 1 \/ persons # <<>> THEN [place |-> None, frames |-> 0]
       ELSE IF steady.place = objects[1]
       THEN [steady EXCEPT !.frames = AtMost(Persistence + Abandoned, @ + 1)]
       ELSE [place |-> objects[1], frames |-> 1]
  /\ mixed' = (mixed \/ ~IsInjective(now.seen))

AnyFrame ==
  \E objects \in Scenes(MaxObjects) :
    LET now == Update(tracks, objects)
    IN \E persons \in Scenes(MaxPeople) :
         LET who == Update(people, persons)
         IN \E gap \in Gaps : Frame(gap, objects, persons, now, who)

-----------------------------------------------------------------------------
(* The routes.                                                             *)

(* DELETE /objects/{id}: the object, and every track of the camera.        *)
ClearObject(id) ==
  /\ object' = [object EXCEPT ![id] = None]
  /\ tracks' = <<>>
  /\ blurred' = (blurred \/ \E other \in Ids \ {id} : object[other] # None)
  /\ steady' = [place |-> None, frames |-> 0]
  /\ UNCHANGED <<people, alone, mixed>>

(* on_unload, and on_load later.                                           *)
Unload ==
  /\ object' = [id \in Ids |-> None]
  /\ tracks' = <<>> /\ people' = <<>>
  /\ steady' = [place |-> None, frames |-> 0]
  /\ UNCHANGED <<alone, mixed, blurred>>

Clear == Unload \/ \E id \in Ids : ClearObject(id)

Next == AnyFrame \/ Clear

Spec == Init /\ [][Next]_vars

-----------------------------------------------------------------------------
(* Properties.                                                             *)

(* Every variable has its type, and an object is kept no longer than it    *)
(* may be missing.                                                         *)
TypeOK ==
  /\ \A k \in Range(tracks) : k.id \in Ids /\ k.place \in Places
  /\ \A k \in Range(people) : k.id \in 1..(2 * MaxPeople) /\ k.place \in Places
  /\ object \in [Ids -> Objects \cup {None}]
  /\ alone \in [Places -> 0..Abandoned]
  /\ steady \in [place : Places \cup {None}, frames : 0..(Persistence + Abandoned)]
  /\ {mixed, blurred} \subseteq BOOLEAN

(* Two detections are taken for one object only after two objects were     *)
(* close to each other, or a track was lost while others went on.          *)
Apart == mixed => blurred

(* While the objects have been apart, no two people have been taken for    *)
(* one and no track was lost beside another object, an object is called    *)
(* abandoned, or nearly so, only when for so many seconds no frame has     *)
(* shown somebody near it.  With a Persistence of one frame an object that *)
(* moves keeps its time, and the spot it comes to may just have been       *)
(* attended.                                                               *)
AloneWhenAbandoned ==
  ~blurred => \A id \in Ids :
    object[id] # None /\ object[id].missing = 0 =>
      LET place == Last(object[id].places)
      IN /\ object[id].state = "ABANDONED_CONFIRMED" => alone[place] >= Abandoned
         /\ object[id].state = "ABANDONED_PENDING" => alone[place] >= AtMost(Abandoned, Pending)

(* An abandoned object that is then missing for good has been reported as  *)
(* removed when it is forgotten, even when both are due in one frame.      *)
RemovedTold ==
  [][\A id \in Ids :
       object[id] # None /\ object'[id] # None =>
         (object[id].state \in {"ABANDONED_CONFIRMED", "REMOVED"} /\ object'[id].state = "CLEARED"
            => "removed_object" \in object'[id].emitted)]_vars

(* Whatever came before, an object that has been all there is to see, at   *)
(* one place, for the frames it takes to be static and the seconds it      *)
(* takes to be abandoned after that, has been reported as abandoned.       *)
InTime ==
  steady.frames >= Persistence + Abandoned =>
    \E id \in Ids : object[id] # None /\ object[id].missing = 0 /\
      object[id].state = "ABANDONED_CONFIRMED" /\ "abandoned_object" \in object[id].emitted
=============================================================================
