---------------------------- MODULE EventPipeline ----------------------------
(***************************************************************************)
(* From a Frigate MQTT message to a row of the table events, a broadcast   *)
(* and the plugins (services/event_service.py), with the event routes that *)
(* delete, protect and unprotect a row (api/v1/events.py).                 *)
(*                                                                         *)
(* There is one broker task per registered server.  A task handles its     *)
(* messages one at a time and awaits between the steps of a handler, so    *)
(* handlers of different tasks and API requests interleave.  A message is  *)
(* delivered in order and at most once to every connected subscriber.      *)
(***************************************************************************)
EXTENDS Integers, Sequences

CONSTANTS
  Servers,      \* the registered Frigate servers
  Events,       \* the objects Frigate tracks
  Requests,     \* the concurrent API requests
  Owner,        \* the server whose Frigate tracks an object
  SharedBroker, \* whether every Frigate publishes to one central broker
  Faults,       \* "lost", "publish", "crash", "fetch", "resize"
  Operations,   \* the API operations clients use
  MaxUpdates,   \* bound: "update" messages of one object
  NoRow, NoDims

Rows == [id : Nat, server : Servers, located : BOOLEAN,
         ended : BOOLEAN, clip : BOOLEAN, protected : BOOLEAN]

ASSUME Parameters ==
  /\ Owner \in [Events -> Servers]
  /\ SharedBroker \in BOOLEAN
  /\ Faults \subseteq {"lost", "publish", "crash", "fetch", "resize"}
  /\ Operations \subseteq {"delete", "protect", "unprotect"}
  /\ MaxUpdates \in Nat /\ NoRow \notin Rows

VARIABLES
  objects,  \* Frigate: what it knows of every object
  width,    \* Frigate: the detect width of each server's camera, 1 for 640
  queue,    \* the messages waiting for each broker task, in order
  job,      \* the message each broker task is handling
  dims,     \* _detect_dims_cache, by handling server and camera
  rows,     \* the table events, by frigate_event_id
  nextId,   \* the next value of events.id
  erased,   \* history: the ids of deleted rows
  feed,     \* history: the ids published on vms:events
  request   \* the API requests under way

frigateVars == <<objects, width, queue>>
dbVars      == <<rows, nextId, erased>>
vars        == <<objects, width, queue, job, dims, rows, nextId, erased, feed, request>>

Fallback == 1    \* the width of (640, 360)
Widths   == 1..2

Messages == [event : Events, shot : BOOLEAN, clip : BOOLEAN, ended : BOOLEAN, right : Widths]
Objects  == [phase : {"unseen", "live", "ended"}, updates : 0..MaxUpdates,
             shot : BOOLEAN, clip : BOOLEAN]
Idle     == [at |-> "idle"]
Jobs     == {Idle} \cup [at : {"upsert"}, msg : Messages]
                   \cup [at : {"dims"}, msg : Messages, id : Nat]
                   \cup [at : {"publish", "dispatch"}, msg : Messages, id : Nat, width : Widths]
Asked    == {Idle} \cup [at : {"commit"}, op : {"delete", "protect", "unprotect"},
                         event : Events, row : Rows]

Init ==
  /\ objects = [e \in Events |-> [phase |-> "unseen", updates |-> 0, shot |-> FALSE, clip |-> FALSE]]
  /\ width \in [Servers -> Widths]
  /\ queue = [s \in Servers |-> <<>>]
  /\ job = [s \in Servers |-> Idle]
  /\ dims = [s \in Servers |-> [c \in Servers |-> NoDims]]
  /\ rows = [e \in Events |-> NoRow]
  /\ nextId = 1
  /\ erased = {}
  /\ feed = {}
  /\ request = [r \in Requests |-> Idle]

-----------------------------------------------------------------------------
(* Frigate and the MQTT brokers.                                           *)

(* Variant: every task connects to the one broker.                         *)
HearersAll(e) == Servers

(* The tasks that receive the messages of an object.  Every task           *)
(* subscribes to the same three topics, and frigate/+/events matches the   *)
(* prefixed topic of any Frigate on the same broker.                       *)
Hearers(e) == IF SharedBroker THEN Servers ELSE {Owner[e]}

(* A disconnected task misses the message: the subscription keeps none.    *)
Send(msg) ==
  \E heard \in IF "lost" \in Faults THEN SUBSET Hearers(msg.event) ELSE {Hearers(msg.event)} :
    queue' = [s \in Servers |-> IF s \in heard THEN Append(queue[s], msg) ELSE queue[s]]

(* Frigate's next message about an object.  Its box may reach the right    *)
(* edge of the detect frame; a snapshot or a clip once kept stays kept.    *)
Track(e) ==
  \E shot, clip \in BOOLEAN, phase \in {"live", "ended"} :
    LET o == objects[e] IN
    /\ o.phase = "unseen" => phase = "live"
    /\ o.phase = "live" /\ phase = "live" => o.updates < MaxUpdates
    /\ o.phase # "ended"
    /\ (o.shot => shot) /\ (o.clip => clip)
    /\ objects' = [objects EXCEPT ![e] =
         [phase |-> phase, shot |-> shot, clip |-> clip,
          updates |-> IF o.phase = phase THEN o.updates + 1 ELSE o.updates]]
    /\ Send([event |-> e, shot |-> shot, clip |-> clip, ended |-> phase = "ended",
             right |-> width[Owner[e]]])
    /\ UNCHANGED <<width, job, dims, dbVars, feed, request>>

(* The detect resolution is edited in Frigate.                             *)
Resize(s) ==
  /\ "resize" \in Faults
  /\ \E w \in Widths : width' = [width EXCEPT ![s] = w]
  /\ UNCHANGED <<objects, queue, job, dims, dbVars, feed, request>>

-----------------------------------------------------------------------------
(* _handle_event, one action per await.                                    *)

(* Variant: every message is handled in a task of its own.                 *)
ReceiveAny(s) ==
  \E i \in 1..Len(queue[s]) :
    /\ job[s] = Idle
    /\ queue' = [queue EXCEPT ![s] = SubSeq(@, 1, i - 1) \o SubSeq(@, i + 1, Len(@))]
    /\ job' = [job EXCEPT ![s] = IF queue[s][i].shot THEN [at |-> "upsert", msg |-> queue[s][i]] ELSE Idle]
    /\ UNCHANGED <<objects, width, dims, dbVars, feed, request>>

(* Variant: the last message of an object is taken for old news.           *)
ReceiveLive(s) ==
  /\ job[s] = Idle /\ queue[s] # <<>>
  /\ queue' = [queue EXCEPT ![s] = Tail(@)]
  /\ LET msg == Head(queue[s]) IN
     job' = [job EXCEPT ![s] = IF msg.shot /\ ~msg.ended
                               THEN [at |-> "upsert", msg |-> msg] ELSE Idle]
  /\ UNCHANGED <<objects, width, dims, dbVars, feed, request>>

(* The checks before the upsert: a message without snapshot is skipped.    *)
Receive(s) ==
  /\ job[s] = Idle /\ queue[s] # <<>>
  /\ queue' = [queue EXCEPT ![s] = Tail(@)]
  /\ LET msg == Head(queue[s]) IN
     job' = [job EXCEPT ![s] = IF msg.shot THEN [at |-> "upsert", msg |-> msg] ELSE Idle]
  /\ UNCHANGED <<objects, width, dims, dbVars, feed, request>>

(* Variant: the row is replaced whole.                                     *)
StoredWhole(s, msg) ==
  LET old == rows[msg.event] IN
  [id |-> IF old = NoRow THEN nextId ELSE old.id, server |-> s, located |-> Owner[msg.event] = s,
   ended |-> msg.ended, clip |-> msg.clip, protected |-> FALSE]

(* INSERT ... ON CONFLICT (frigate_event_id) DO UPDATE and its commit: a   *)
(* conflict keeps the id, the server, the camera and is_protected.         *)
Stored(s, msg) ==
  LET old == rows[msg.event] IN
  IF old = NoRow
  THEN [id |-> nextId, server |-> s, located |-> Owner[msg.event] = s,
        ended |-> msg.ended, clip |-> msg.clip, protected |-> FALSE]
  ELSE [old EXCEPT !.ended = msg.ended, !.clip = msg.clip]

(* Variant: the transaction is committed after the broadcast, and a failed *)
(* broadcast rolls it back.                                                *)
UpsertUncommitted(s) ==
  /\ job[s].at = "upsert"
  /\ LET msg == job[s].msg  row == Stored(s, msg) IN
     /\ rows' \in {rows, [rows EXCEPT ![msg.event] = row]}
     /\ nextId' = IF row.id = nextId THEN nextId + 1 ELSE nextId
     /\ job' = [job EXCEPT ![s] = [at |-> "dims", msg |-> msg, id |-> row.id]]
  /\ UNCHANGED <<frigateVars, dims, erased, feed, request>>

Upsert(s) ==
  /\ job[s].at = "upsert"
  /\ LET msg == job[s].msg  row == Stored(s, msg) IN
     /\ rows' = [rows EXCEPT ![msg.event] = row]
     /\ nextId' = IF row.id = nextId THEN nextId + 1 ELSE nextId
     /\ job' = [job EXCEPT ![s] = [at |-> "dims", msg |-> msg, id |-> row.id]]
  /\ UNCHANGED <<frigateVars, dims, erased, feed, request>>

(* The width the server's own /api/config gives for the camera: a camera   *)
(* of another Frigate is not in it, and a failed fetch is not told apart.  *)
Fetched(s, camera) ==
  (IF camera = s THEN {width[s]} ELSE {Fallback})
    \cup (IF "fetch" \in Faults THEN {Fallback} ELSE {})

GetDetectDims(s) ==
  /\ job[s].at = "dims"
  /\ LET msg == job[s].msg  camera == Owner[msg.event] IN
     \E w \in IF dims[s][camera] # NoDims THEN {dims[s][camera]} ELSE Fetched(s, camera) :
       /\ dims' = [dims EXCEPT ![s][camera] = w]
       /\ job' = [job EXCEPT ![s] = [at |-> "publish", msg |-> msg, id |-> @.id, width |-> w]]
  /\ UNCHANGED <<frigateVars, dbVars, feed, request>>

(* Variant: only what is new to the clients is published.                  *)
PublishEnded(s) ==
  /\ job[s].at = "publish"
  /\ feed' = IF job[s].msg.ended THEN feed \cup {job[s].id} ELSE feed
  /\ job' = [job EXCEPT ![s].at = "dispatch"]
  /\ UNCHANGED <<frigateVars, dims, dbVars, request>>

(* A failed publish raises out of the handler: no plugin sees the event.   *)
Publish(s) ==
  /\ job[s].at = "publish"
  /\ \/ /\ feed' = feed \cup {job[s].id}
        /\ job' = [job EXCEPT ![s].at = "dispatch"]
     \/ /\ "publish" \in Faults
        /\ job' = [job EXCEPT ![s] = Idle]
        /\ UNCHANGED feed
  /\ UNCHANGED <<frigateVars, dims, dbVars, request>>

(* plugin_registry.dispatch_event; an exception of it is swallowed.        *)
DispatchPlugins(s) ==
  /\ job[s].at = "dispatch"
  /\ job' = [job EXCEPT ![s] = Idle]
  /\ UNCHANGED <<frigateVars, dims, dbVars, feed, request>>

-----------------------------------------------------------------------------
(* The event routes: load the row, decide, commit.                         *)

Load(r, op, e) ==
  /\ request[r] = Idle
  /\ op \in Operations
  /\ rows[e] # NoRow
  /\ op = "delete" => ~rows[e].protected
  /\ request' = [request EXCEPT ![r] = [at |-> "commit", op |-> op, event |-> e, row |-> rows[e]]]
  /\ UNCHANGED <<frigateVars, job, dims, dbVars, feed>>

(* Whether the row a request loaded is still there: its id is the key.     *)
StillThere(q) == rows[q.event] # NoRow /\ rows[q.event].id = q.row.id

(* db.delete of the loaded row, after the call to Frigate.                 *)
CommitDelete(r) ==
  /\ request[r].at = "commit" /\ request[r].op = "delete"
  /\ LET q == request[r] IN
     /\ rows' = IF StillThere(q) THEN [rows EXCEPT ![q.event] = NoRow] ELSE rows
     /\ erased' = erased \cup {q.row.id}
  /\ request' = [request EXCEPT ![r] = Idle]
  /\ UNCHANGED <<frigateVars, job, dims, nextId, feed>>

(* The UPDATE of is_protected, which is sent only when it changes the      *)
(* loaded row; a row deleted meanwhile fails the request.                  *)
CommitProtection(r) ==
  /\ request[r].at = "commit" /\ request[r].op # "delete"
  /\ LET q == request[r]  wanted == q.op = "protect" IN
     rows' = IF StillThere(q) /\ q.row.protected # wanted
             THEN [rows EXCEPT ![q.event].protected = wanted] ELSE rows
  /\ request' = [request EXCEPT ![r] = Idle]
  /\ UNCHANGED <<frigateVars, job, dims, nextId, erased, feed>>

(* The backend stops: jobs, requests, the cache and unread messages go.    *)
Crash ==
  /\ "crash" \in Faults
  /\ queue' = [s \in Servers |-> <<>>]
  /\ job' = [s \in Servers |-> Idle]
  /\ dims' = [s \in Servers |-> [c \in Servers |-> NoDims]]
  /\ request' = [r \in Requests |-> Idle]
  /\ UNCHANGED <<objects, width, dbVars, feed>>

Handle(s) == Receive(s) \/ Upsert(s) \/ GetDetectDims(s) \/ Publish(s) \/ DispatchPlugins(s)
Ask(r)    == \/ \E op \in Operations, e \in Events : Load(r, op, e)
             \/ CommitDelete(r) \/ CommitProtection(r)

Next ==
  \/ \E e \in Events : Track(e)
  \/ \E s \in Servers : Resize(s) \/ Handle(s)
  \/ \E r \in Requests : Ask(r)
  \/ Crash

Spec == Init /\ [][Next]_vars

(* A broker task runs as long as the event loop does, and every await of   *)
(* the handler is bounded (3 s for /api/config, the database otherwise).   *)
FairSpec == Spec /\ \A s \in Servers : WF_vars(Handle(s))

-----------------------------------------------------------------------------
(* Properties.                                                             *)

(* Every variable has its type.                                            *)
TypeOK ==
  /\ objects \in [Events -> Objects]
  /\ width \in [Servers -> Widths]
  /\ queue \in [Servers -> Seq(Messages)]
  /\ job \in [Servers -> Jobs]
  /\ dims \in [Servers -> [Servers -> Widths \cup {NoDims}]]
  /\ rows \in [Events -> Rows \cup {NoRow}]
  /\ nextId \in Nat
  /\ erased \subseteq Nat
  /\ feed \subseteq Nat
  /\ request \in [Requests -> Asked]

(* What a row says of a finished object is never taken back: an end_time   *)
(* or a clip, once stored, stays while the row does.                       *)
EndKept ==
  [][\A e \in Events :
       rows[e] # NoRow /\ rows'[e] # NoRow /\ rows'[e].id = rows[e].id =>
         (rows[e].ended => rows'[e].ended) /\ (rows[e].clip => rows'[e].clip)]_vars

(* A row belongs to the server whose Frigate saw the object, and so has    *)
(* the camera of that server.                                              *)
RowAttributed ==
  \A e \in Events : rows[e] # NoRow => rows[e].server = Owner[e] /\ rows[e].located

(* A client told of an event finds its row, unless a user deleted it.      *)
AnnouncedStored ==
  \A i \in feed : i \in erased \/ \E e \in Events : rows[e] # NoRow /\ rows[e].id = i

(* When the handlers have caught up, every row agrees with Frigate.        *)
CaughtUp ==
  (\A s \in Servers : queue[s] = <<>> /\ job[s] = Idle) =>
    \A e \in Events : rows[e] # NoRow =>
      /\ rows[e].ended = (objects[e].phase = "ended")
      /\ rows[e].clip = objects[e].clip

(* The coordinates handed to the plugins are normalized: a box inside the  *)
(* frame has its right edge at 1 or less.                                  *)
Normalized ==
  \A s \in Servers : job[s].at = "dispatch" => job[s].msg.right <= job[s].width

(* A protected row is deleted by nobody and unprotected only by an         *)
(* unprotect request.                                                      *)
ProtectedKept ==
  [][\A e \in Events :
       rows[e] # NoRow /\ rows[e].protected =>
         \/ rows'[e] # NoRow /\ rows'[e].protected
         \/ rows'[e] # NoRow /\ \E r \in Requests :
              request[r].at = "commit" /\ request[r].op = "unprotect" /\ request'[r] = Idle]_vars

(* A finished object that has a snapshot is at some time stored as         *)
(* finished.                                                               *)
FinishedStored ==
  \A e \in Events :
    <>(objects[e].phase = "ended" /\ objects[e].shot) =>
      <>(rows[e] # NoRow /\ rows[e].ended)

(* A stored row is announced to the clients, unless it is deleted first.   *)
StoredAnnounced ==
  \A e \in Events :
    (rows[e] # NoRow) ~> (rows[e] = NoRow \/ rows[e].id \in feed)
=============================================================================
