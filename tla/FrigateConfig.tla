---------------------------- MODULE FrigateConfig ----------------------------
(***************************************************************************)
(* How the VMS edits the configuration of one Frigate server               *)
(* (services/frigate_config_service.py over services/frigate_service.py).  *)
(*                                                                         *)
(* Every edit is a chain of HTTP calls: register go2rtc streams, GET the   *)
(* whole configuration, change a copy, PUT the whole copy (in memory       *)
(* only), POST save, write a history row, drop the Redis caches.  Between  *)
(* two calls any other request, a cache reader, a crash of the backend or  *)
(* a restart of Frigate may run, so each call is an action of its own.     *)
(*                                                                         *)
(* A configuration is abstracted to the set of settings it holds; a        *)
(* setting is a pair <<key, author>>: the section it sits in (a camera or  *)
(* the global section) and the request that wrote it.  Requests write      *)
(* distinct settings, so a deep merge is a union, and a setting that is    *)
(* missing later was lost.                                                 *)
(***************************************************************************)
EXTENDS FiniteSets

CONSTANTS
    Cameras,    \* camera names
    Global,     \* the key of the global sections
    Requests,   \* edit requests, each issued at most once
    Readers,    \* requests that read through the Redis caches
    Base,       \* author of the settings present from the start
    None,       \* no cache entry, no stream
    Kinds,      \* the kinds of edit that are issued
    Faults,     \* which faults of the environment happen
    Concurrent  \* may two edits overlap?  Nothing in the code prevents it

AllKinds == {"add", "update", "delete", "global", "revert", "addstream", "delstream"}

\* http   a call fails before it reaches Frigate
\* reply  a call takes effect and its answer is lost
\* reject Frigate answers 422 to PUT /api/config/set
\* store  the database or Redis fails
\* crash  the backend stops, Redis and the database survive
\* restart Frigate restarts and reloads config.yml
\* ttl    a cache entry runs out
AllFaults == {"http", "reply", "reject", "store", "crash", "restart", "ttl"}

ASSUME ConfigAssumption ==
    /\ Global \notin Cameras
    /\ Base \notin Requests
    /\ None \notin Requests \cup {Base}
    /\ Kinds \subseteq AllKinds
    /\ Faults \subseteq AllFaults
    /\ Concurrent \in BOOLEAN

VARIABLES
    mem,       \* Frigate: the configuration in memory
    disk,      \* Frigate: config.yml
    go2rtc,    \* go2rtc[c][role]: author of the registered stream, or None
    recorded,  \* the history row of each request
    cache,     \* Redis: the cached configuration and camera list
    pc, op, draft, todo,  \* each edit: next call, parameters, copy to send,
                          \* streams left; the last two are empty when dead
    rd         \* each reader

frigate == <<mem, disk, go2rtc>>
edit == <<pc, op, draft, todo>>
vars == <<mem, disk, go2rtc, recorded, cache, pc, op, draft, todo, rd>>

-----------------------------------------------------------------------------
Keys == Cameras \cup {Global}
Authors == Requests \cup {Base}
Config == SUBSET (Keys \X Authors)
Roles == {"main", "sub"}
Views == {"config", "cameras"}

\* The parameters of an edit.  streams: what an add registers (main, and sub
\* when rtsp_sub is given) and what a delete removes when asked to.
StreamsOf(kind) ==
    CASE kind = "add" -> {{"main"}, Roles}
      [] kind = "delete" -> {{}, Roles}
      [] kind \in {"addstream", "delstream"} -> {{"main"}}
      [] OTHER -> {{}}

Op == [kind: AllKinds, key: Keys, streams: SUBSET Roles, save: BOOLEAN]

Present(cfg, c) == \E s \in cfg : s[1] = c

\* The cached camera list is the cameras section of the configuration.
View(v, cfg) == IF v = "cameras" THEN {s \in cfg : s[1] \in Cameras} ELSE cfg

\* What the request writes into its copy of the configuration.
Mutate(r, o, cfg) ==
    IF o.kind = "delete"
    THEN {s \in cfg : s[1] # o.key}
    ELSE cfg \cup {<<o.key, r>>}

\* The guards on the camera name: 409 for a duplicate, 404 for a missing one.
Refused(o, cfg) ==
    \/ o.kind = "add" /\ Present(cfg, o.key)
    \/ o.kind \in {"update", "delete"} /\ ~Present(cfg, o.key)

HttpSteps == {"register", "read", "list", "unregister", "set", "save", "revert"}
StoreSteps == {"fail", "record", "purge", "purgecams"}
Running == HttpSteps \cup StoreSteps \cup {"undo"}
Finished == {"done", "refused", "rejected", "error"}
Active == {r \in Requests : pc[r] \in Running}

Reader == [step: {"idle", "fetch", "fill"}, view: Views, val: Config]

TypeOK ==
    /\ mem \in Config
    /\ disk \in Config
    /\ go2rtc \in [Cameras -> [Roles -> Authors \cup {None}]]
    /\ recorded \in [Requests -> {"none", "success", "failure"}]
    /\ cache \in [Views -> Config \cup {None}]
    /\ pc \in [Requests -> Running \cup Finished \cup {"idle"}]
    /\ op \in [Requests -> Op]
    /\ draft \in [Requests -> Config]
    /\ todo \in [Requests -> SUBSET Roles]
    /\ rd \in [Readers -> Reader]

AtRest == [step |-> "idle", view |-> "config", val |-> {}]
NoOp == [kind |-> "revert", key |-> Global, streams |-> {}, save |-> FALSE]

\* Some cameras are configured and saved, with their streams registered; the
\* caches are cold or hold what an earlier reader found.
Init ==
    /\ \E present \in SUBSET Cameras :
        /\ mem = {<<k, Base>> : k \in present \cup {Global}}
        /\ go2rtc = [c \in Cameras |-> [role \in Roles |->
                        IF c \in present THEN Base ELSE None]]
    /\ disk = mem
    /\ \E warm \in BOOLEAN :
        cache = [v \in Views |-> IF warm THEN View(v, mem) ELSE None]
    /\ recorded = [r \in Requests |-> "none"]
    /\ pc = [r \in Requests |-> "idle"]
    /\ op = [r \in Requests |-> NoOp]
    /\ draft = [r \in Requests |-> {}]
    /\ todo = [r \in Requests |-> {}]
    /\ rd = [x \in Readers |-> AtRest]

-----------------------------------------------------------------------------
Goto(r, step) == pc' = [pc EXCEPT ![r] = step]

\* The call took effect; its answer arrives, or it is lost and httpx raises.
Answered(r, step) ==
    \/ Goto(r, step)
    \/ "reply" \in Faults /\ Goto(r, "error")

\* Variant: the camera is configured without registering its streams.
FirstStepUnregistered(kind) ==
    CASE kind = "addstream" -> "register"
      [] kind = "delstream" -> "unregister"
      [] kind = "revert" -> "revert"
      [] OTHER -> "read"

FirstStep(kind) ==
    CASE kind \in {"add", "addstream"} -> "register"
      [] kind = "delstream" -> "unregister"
      [] kind = "revert" -> "revert"
      [] OTHER -> "read"

\* An operator's request arrives (POST, PUT or DELETE on the config API).
Begin(r) ==
    /\ pc[r] = "idle"
    /\ Concurrent \/ Active = {}
    /\ \E kind \in Kinds, save \in BOOLEAN :
       \E key \in (IF kind \in {"global", "revert"} THEN {Global} ELSE Cameras),
          streams \in StreamsOf(kind) :
        /\ op' = [op EXCEPT ![r] =
                    [kind |-> kind, key |-> key, streams |-> streams, save |-> save]]
        /\ todo' = [todo EXCEPT ![r] = streams]
        /\ Goto(r, FirstStep(kind))
    /\ UNCHANGED <<frigate, recorded, cache, draft, rd>>

\* POST /api/go2rtc/streams, the main stream first; an existing name gets the
\* new URL.
Register(r) ==
    LET role == IF "main" \in todo[r] THEN "main" ELSE "sub"
        rest == todo[r] \ {role}
        next == IF op[r].kind = "addstream" THEN "done" ELSE "read"
    IN  /\ pc[r] = "register"
        /\ go2rtc' = [go2rtc EXCEPT ![op[r].key][role] = r]
        /\ todo' = [todo EXCEPT ![r] = rest]
        /\ Answered(r, IF rest = {} THEN next ELSE "register")
        /\ UNCHANGED <<mem, disk, recorded, cache, op, draft, rd>>

\* Variant: the edit starts from the cached configuration.
ReadConfigCached(r) ==
    LET base == IF cache["config"] = None THEN mem ELSE cache["config"]
    IN  /\ pc[r] = "read"
        /\ IF Refused(op[r], base)
           THEN Goto(r, "refused") /\ UNCHANGED draft
           ELSE /\ draft' = [draft EXCEPT ![r] = Mutate(r, op[r], base)]
                /\ Goto(r, "set")
        /\ UNCHANGED <<frigate, recorded, cache, op, todo, rd>>

\* GET /api/config, the guard on the camera name, and the change to the copy.
ReadConfig(r) ==
    /\ pc[r] = "read"
    /\ \/ /\ Refused(op[r], mem)
          /\ Goto(r, "refused")
          /\ UNCHANGED draft
       \/ /\ ~Refused(op[r], mem)
          /\ draft' = [draft EXCEPT ![r] = Mutate(r, op[r], mem)]
          /\ Goto(r, IF op[r].kind = "delete" /\ op[r].streams # {}
                     THEN "list" ELSE "set")
    /\ UNCHANGED <<frigate, recorded, cache, op, todo, rd>>

\* GET /api/go2rtc/streams: which of the camera's streams exist.
ListStreams(r) ==
    LET found == {role \in op[r].streams : go2rtc[op[r].key][role] # None}
    IN  /\ pc[r] = "list"
        /\ todo' = [todo EXCEPT ![r] = found]
        /\ Goto(r, IF found = {} THEN "set" ELSE "unregister")
        /\ UNCHANGED <<frigate, recorded, cache, op, draft, rd>>

\* DELETE /api/go2rtc/streams/{name}; a stream already gone (404) is no error.
Unregister(r) ==
    /\ pc[r] = "unregister"
    /\ \E role \in todo[r] :
        /\ go2rtc' = [go2rtc EXCEPT ![op[r].key][role] = None]
        /\ todo' = [todo EXCEPT ![r] = @ \ {role}]
        /\ Answered(r, IF todo[r] # {role} THEN "unregister"
                       ELSE IF op[r].kind = "delstream" THEN "done" ELSE "set")
    /\ UNCHANGED <<mem, disk, recorded, cache, op, draft, rd>>

\* Variant: only the edited section is sent.
SetSection(r) ==
    /\ pc[r] = "set"
    /\ mem' = {s \in draft[r] : s[1] = op[r].key}
    /\ draft' = [draft EXCEPT ![r] = {}]
    /\ Answered(r, IF op[r].save THEN "save" ELSE "record")
    /\ UNCHANGED <<disk, go2rtc, recorded, cache, op, todo, rd>>

\* PUT /api/config/set: Frigate replaces the configuration in memory ...
SetConfig(r) ==
    /\ pc[r] = "set"
    /\ mem' = draft[r]
    /\ draft' = [draft EXCEPT ![r] = {}]
    /\ Answered(r, IF op[r].save THEN "save" ELSE "record")
    /\ UNCHANGED <<disk, go2rtc, recorded, cache, op, todo, rd>>

\* Variant: a rejected edit reads again and retries.
RejectRetried(r) ==
    /\ pc[r] = "set"
    /\ "reject" \in Faults
    /\ draft' = [draft EXCEPT ![r] = {}]
    /\ Goto(r, "read")
    /\ UNCHANGED <<frigate, recorded, cache, op, todo, rd>>

\* ... or answers 422 and keeps it: FrigateConfigError.
RejectConfig(r) ==
    /\ pc[r] = "set"
    /\ "reject" \in Faults
    /\ draft' = [draft EXCEPT ![r] = {}]
    /\ Goto(r, "undo")
    /\ UNCHANGED <<frigate, recorded, cache, op, todo, rd>>

\* Variant: a lost answer of the save is handled as a rejected configuration.
SaveUndone(r) ==
    /\ pc[r] = "save"
    /\ disk' = mem
    /\ \/ Goto(r, "record")
       \/ "reply" \in Faults /\ Goto(r, "undo")
    /\ UNCHANGED <<mem, go2rtc, recorded, cache, op, draft, todo, rd>>

\* POST /api/config/save writes what is in memory, whoever put it there.
SaveConfig(r) ==
    /\ pc[r] = "save"
    /\ disk' = mem
    /\ Answered(r, "record")
    /\ UNCHANGED <<mem, go2rtc, recorded, cache, op, draft, todo, rd>>

\* POST /api/config/revert in the except branch; its own failure is ignored.
UndoRejected(r) ==
    /\ pc[r] = "undo"
    /\ \/ mem' = disk
       \/ "http" \in Faults /\ UNCHANGED mem
    /\ Goto(r, "fail")
    /\ UNCHANGED <<disk, go2rtc, recorded, cache, op, draft, todo, rd>>

RecordFailure(r) ==
    /\ pc[r] = "fail"
    /\ recorded' = [recorded EXCEPT ![r] = "failure"]
    /\ Goto(r, "rejected")
    /\ UNCHANGED <<frigate, cache, op, draft, todo, rd>>

\* revert_last_change: the operator discards what was not saved.
RevertChange(r) ==
    /\ pc[r] = "revert"
    /\ mem' = disk
    /\ Answered(r, "record")
    /\ UNCHANGED <<disk, go2rtc, recorded, cache, op, draft, todo, rd>>

RecordSuccess(r) ==
    /\ pc[r] = "record"
    /\ recorded' = [recorded EXCEPT ![r] = "success"]
    /\ Goto(r, "purge")
    /\ UNCHANGED <<frigate, cache, op, draft, todo, rd>>

InvalidateConfig(r) ==
    /\ pc[r] = "purge"
    /\ cache' = [cache EXCEPT !["config"] = None]
    /\ Goto(r, IF op[r].kind \in {"add", "delete"} THEN "purgecams" ELSE "done")
    /\ UNCHANGED <<frigate, recorded, op, draft, todo, rd>>

InvalidateCameras(r) ==
    /\ pc[r] = "purgecams"
    /\ cache' = [cache EXCEPT !["cameras"] = None]
    /\ Goto(r, "done")
    /\ UNCHANGED <<frigate, recorded, op, draft, todo, rd>>

\* An httpx error is not a FrigateConfigError: it leaves the handler at once,
\* with no revert, no history row and no invalidation.  So does a failure of
\* the database or of Redis.
CallFails(r) ==
    /\ \/ "http" \in Faults /\ pc[r] \in HttpSteps
       \/ "store" \in Faults /\ pc[r] \in StoreSteps
    /\ Goto(r, "error")
    /\ draft' = [draft EXCEPT ![r] = {}]
    /\ todo' = [todo EXCEPT ![r] = {}]
    /\ UNCHANGED <<frigate, recorded, cache, op, rd>>

-----------------------------------------------------------------------------
\* get_config_cached and get_cameras_cached: a miss, the GET, then SETEX.
CacheMiss(x) ==
    /\ rd[x].step = "idle"
    /\ \E v \in Views :
        /\ cache[v] = None
        /\ rd' = [rd EXCEPT ![x] = [step |-> "fetch", view |-> v, val |-> {}]]
    /\ UNCHANGED <<frigate, recorded, cache, edit>>

\* Variant: the names of the cameras are cached in place of their sections.
FetchNames(x) ==
    /\ rd[x].step = "fetch"
    /\ rd' = [rd EXCEPT ![x] = [step |-> "fill", view |-> rd[x].view,
                                val |-> {s[1] : s \in mem}]]
    /\ UNCHANGED <<frigate, recorded, cache, edit>>

Fetch(x) ==
    /\ rd[x].step = "fetch"
    /\ \/ rd' = [rd EXCEPT ![x] = [step |-> "fill", view |-> rd[x].view,
                                   val |-> View(rd[x].view, mem)]]
       \/ "http" \in Faults /\ rd' = [rd EXCEPT ![x] = AtRest]
    /\ UNCHANGED <<frigate, recorded, cache, edit>>

Fill(x) ==
    /\ rd[x].step = "fill"
    /\ cache' = [cache EXCEPT ![rd[x].view] = rd[x].val]
    /\ rd' = [rd EXCEPT ![x] = AtRest]
    /\ UNCHANGED <<frigate, recorded, edit>>

\* Variant: the configuration is cached without a TTL.
ExpireCameras(v) ==
    /\ "ttl" \in Faults
    /\ v = "cameras" /\ cache[v] # None
    /\ cache' = [cache EXCEPT ![v] = None]
    /\ UNCHANGED <<frigate, recorded, edit, rd>>

\* The TTL of a cache entry runs out (60 s, 30 s).
Expire(v) ==
    /\ "ttl" \in Faults
    /\ cache[v] # None
    /\ cache' = [cache EXCEPT ![v] = None]
    /\ UNCHANGED <<frigate, recorded, edit, rd>>

\* The backend stops: every handler and reader in flight is gone.
Crash ==
    /\ "crash" \in Faults
    /\ pc' = [r \in Requests |-> IF r \in Active THEN "error" ELSE pc[r]]
    /\ rd' = [x \in Readers |-> AtRest]
    /\ draft' = [r \in Requests |-> {}]
    /\ todo' = [r \in Requests |-> {}]
    /\ UNCHANGED <<frigate, recorded, cache, op>>

FrigateRestart ==
    /\ "restart" \in Faults
    /\ mem' = disk
    /\ UNCHANGED <<disk, go2rtc, recorded, cache, edit, rd>>

\* A step of a request the backend is already working on.
EditStep(r) ==
    \/ Register(r) \/ ReadConfig(r) \/ ListStreams(r) \/ Unregister(r)
    \/ SetConfig(r) \/ RejectConfig(r) \/ SaveConfig(r) \/ UndoRejected(r)
    \/ RecordFailure(r) \/ RevertChange(r) \/ RecordSuccess(r)
    \/ InvalidateConfig(r) \/ InvalidateCameras(r) \/ CallFails(r)

ReaderStep(x) == Fetch(x) \/ Fill(x)

Next ==
    \/ \E r \in Requests : Begin(r) \/ EditStep(r)
    \/ \E x \in Readers : CacheMiss(x) \/ ReaderStep(x)
    \/ \E v \in Views : Expire(v)
    \/ Crash
    \/ FrigateRestart

\* Every await ends (httpx has a 10 s timeout) and every entry has a TTL;
\* nobody has to issue a request.
Fairness ==
    /\ \A r \in Requests : WF_vars(EditStep(r))
    /\ \A x \in Readers : WF_vars(ReaderStep(x))
    /\ \A v \in Views : WF_vars(Expire(v))

Spec == Init /\ [][Next]_vars
FairSpec == Spec /\ Fairness
-----------------------------------------------------------------------------
\* Properties

Written == {s \in mem \cup disk : s[2] \in Requests}
Idle == Active = {} /\ \A x \in Readers : rd[x].step = "idle"

(* A request whose history row says it failed has left nothing behind: not  *)
(* in Frigate's memory or on its disk, not in a cache, and not in the copy  *)
(* another request is about to send.                                        *)
RejectedLeavesNoTrace ==
    \A r \in Requests : recorded[r] = "failure" =>
        \A k \in Keys :
            /\ <<k, r>> \notin mem \cup disk
            /\ \A v \in Views : cache[v] # None => <<k, r>> \notin cache[v]
            /\ \A q \in Requests \ {r} : <<k, r>> \notin draft[q]

(* A change that was saved and recorded as a success is in config.yml until *)
(* a delete of its camera has been sent: no other edit takes it away.       *)
SavedDurable ==
    \A r \in Requests :
        recorded[r] = "success" /\ op[r].save /\ op[r].kind \in {"add", "update", "global"}
        => \/ <<op[r].key, r>> \in disk
           \/ \E d \in Requests : /\ op[d].kind = "delete" /\ op[d].key = op[r].key
                                  /\ pc[d] \notin {"idle", "read", "list", "unregister"}

(* When the configuration of a new camera is about to be sent, every stream *)
(* it refers to is registered, with the URL of this request.                *)
StreamsInPlace ==
    \A r \in Requests : pc[r] = "set" /\ op[r].kind = "add" =>
        \A role \in op[r].streams : go2rtc[op[r].key][role] = r

(* Every change that can be seen in Frigate, in memory or on disk, is in    *)
(* the history as a success once its request is over.                       *)
ChangeTracked ==
    \A s \in Written : pc[s[2]] \in Finished => recorded[s[2]] = "success"

(* A request that ended in an error, unrecorded, is not in Frigate's        *)
(* running configuration: it was reverted.                                  *)
ErrorUndone ==
    \A s \in mem : s[2] \in Requests /\ pc[s[2]] = "error" => recorded[s[2]] = "success"

(* When nothing is in flight the cached configuration is Frigate's.         *)
CachedConfigFresh == Idle => cache["config"] \in {None, mem}

(* The same for the cached camera list.                                     *)
CachedCamerasFresh == Idle => cache["cameras"] \in {None, View("cameras", mem)}

(* When nothing is in flight, a configured camera has its main stream       *)
(* registered in go2rtc: its ffmpeg inputs refer to it.                     *)
ConfiguredCameraHasStream ==
    Idle => \A c \in Cameras : Present(mem, c) => go2rtc[c]["main"] # None

(* A request that was refused because the camera exists has not touched the *)
(* streams of that camera.                                                  *)
RefusedChangesNoStream ==
    \A r \in Requests : pc[r] = "refused" =>
        \A role \in Roles : go2rtc[op[r].key][role] # r

(* A stale cache entry does not outlive its TTL: once the edits are over,   *)
(* the cached configuration is eventually Frigate's, for good.              *)
EventuallyFresh == <>[](cache["config"] \in {None, mem})

(* Every request that arrives is answered.                                  *)
EveryEditEnds == \A r \in Requests : pc[r] \in Running ~> pc[r] \in Finished

(* The calls of an edit, taken one by one, amount to one edit of the        *)
(* configuration as it is when Frigate accepts it.                          *)
Store == INSTANCE ConfigStore WITH mem <- mem, disk <- disk
ImplementsStore == Store!Spec
=============================================================================
