--------------------------- MODULE PluginRegistry ---------------------------
(***************************************************************************)
(* The life of one plugin (plugins are keyed by name and do not meet in    *)
(* the registry): its row in the table plugins, the instance the registry  *)
(* holds, its frame subscriptions (plugins/registry.py), the routes that   *)
(* enable, disable and configure it (api/v1/plugins.py) and the frame      *)
(* loops started with the backend (main.py).                               *)
(*                                                                         *)
(* on_load and on_unload await (an engine, a database), so routes          *)
(* interleave with each other and with the dispatch of events and frames.  *)
(***************************************************************************)
EXTENDS Integers, FiniteSets

CONSTANTS
  Cameras,      \* cameras with an RTSP address
  Configs,      \* configurations of the plugin
  Wants,        \* the cameras a configuration subscribes to
  Requests,     \* concurrent API requests
  Operations,   \* "enable", "disable", "configure"
  LoadFails,    \* whether on_load may raise
  MaxInstances, \* bound: instances built
  MaxTasks,     \* bound: background tasks of one instance
  NoInstance

ASSUME Parameters ==
  /\ Wants \in [Configs -> SUBSET Cameras]
  /\ Operations \subseteq {"enable", "disable", "configure"}
  /\ LoadFails \in BOOLEAN
  /\ MaxInstances \in Nat \ {0} /\ MaxTasks \in Nat
  /\ IsFiniteSet(Requests) /\ NoInstance \notin 1..MaxInstances

Instances == 1..MaxInstances

VARIABLES
  row,      \* the plugin's row: enabled and config
  active,   \* the instance in _active, or NoInstance
  subs,     \* _frame_subscriptions: the instances of each camera
  built,    \* the number of instances built so far
  config,   \* each instance's own configuration
  tasks,    \* each instance's running background tasks (_monitor_task)
  loops,    \* the cameras with a frame dispatch loop
  frame,    \* each camera's on_frame calls: the instances still to be called
  calls,    \* each camera's on_frame calls under way
  inflight, \* _frame_inflight, by camera
  request,  \* the API requests under way
  troubled  \* history: requests have overlapped, or an on_load has raised

instVars  == <<built, config, tasks>>
frameVars == <<loops, frame, calls, inflight>>
core      == <<row, active, subs, instVars, frameVars, request>>
vars      == <<core, troubled>>

Idle == [at |-> "idle"]
Steps == {Idle}
  \cup [at : {"commit"}, op : Operations, config : Configs]
  \cup [at : {"load", "unload", "reload"}, op : Operations, config : Configs, instance : Instances]

Start ==
  /\ frame = [c \in Cameras |-> {}]
  /\ calls = [c \in Cameras |-> {}]
  /\ inflight = {}
  /\ request = [r \in Requests |-> Idle]

(* load_all has run: an enabled plugin is loaded, unless its on_load       *)
(* raised, and a loop runs for every camera some plugin subscribed to.     *)
Init ==
  /\ row \in [enabled : BOOLEAN, config : Configs]
  /\ built = IF row.enabled THEN 1 ELSE 0
  /\ active \in IF row.enabled THEN {1} \cup (IF LoadFails THEN {NoInstance} ELSE {}) ELSE {NoInstance}
  /\ config = [i \in Instances |-> row.config]
  /\ tasks = [i \in Instances |-> IF i = 1 THEN built ELSE 0]
  /\ subs = [c \in Cameras |-> IF active = 1 /\ c \in Wants[row.config] THEN {1} ELSE {}]
  /\ loops = {c \in Cameras : subs[c] # {}}
  /\ troubled = (row.enabled /\ active = NoInstance)
  /\ Start

-----------------------------------------------------------------------------
(* The routes.                                                             *)

(* The row is loaded; a configure request carries a configuration, the     *)
(* others keep the one they loaded.                                        *)
Load(r, op) ==
  /\ request[r] = Idle
  /\ \E v \in IF op = "configure" THEN Configs ELSE {row.config} :
       request' = [request EXCEPT ![r] = [at |-> "commit", op |-> op, config |-> v]]
  /\ UNCHANGED <<row, active, subs, instVars, frameVars>>

Commit(r, changed) ==
  /\ request[r].at = "commit"
  /\ row' = changed

(* Enable: commit, and when the plugin is not active build an instance and *)
(* start its on_load with the configuration loaded before.                 *)
Enable(r) ==
  LET q == request[r]  i == built + 1 IN
  /\ Commit(r, [row EXCEPT !.enabled = TRUE])
  /\ q.op = "enable"
  /\ \/ /\ active # NoInstance
        /\ request' = [request EXCEPT ![r] = Idle]
        /\ UNCHANGED instVars
     \/ /\ active = NoInstance
        /\ built < MaxInstances
        /\ built' = i
        /\ config' = [config EXCEPT ![i] = q.config]
        /\ tasks' = [tasks EXCEPT ![i] = 1]
        /\ request' = [request EXCEPT ![r] = [at |-> "load", op |-> q.op, config |-> q.config, instance |-> i]]
  /\ UNCHANGED <<active, subs, frameVars>>

(* Variant: a disable only marks the row.                                  *)
DisableRow(r) ==
  /\ Commit(r, [row EXCEPT !.enabled = FALSE])
  /\ request[r].op = "disable"
  /\ request' = [request EXCEPT ![r] = Idle]
  /\ UNCHANGED <<active, subs, instVars, frameVars>>

(* Disable: commit, and when the plugin is active start its on_unload.     *)
(* on_unload cancels the background task the instance knows of.            *)
Disable(r) ==
  /\ Commit(r, [row EXCEPT !.enabled = FALSE])
  /\ request[r].op = "disable"
  /\ \/ /\ active = NoInstance
        /\ request' = [request EXCEPT ![r] = Idle]
        /\ UNCHANGED tasks
     \/ /\ active # NoInstance
        /\ tasks' = [tasks EXCEPT ![active] = IF @ > 0 THEN @ - 1 ELSE 0]
        /\ request' = [request EXCEPT ![r] =
             [at |-> "unload", op |-> "disable", config |-> @.config, instance |-> active]]
  /\ UNCHANGED <<active, subs, built, config, frameVars>>

(* Configure: commit, and when the plugin is active run the on_load of the *)
(* same instance again, which starts another background task.              *)
Configure(r) ==
  LET q == request[r] IN
  /\ Commit(r, [row EXCEPT !.config = q.config])
  /\ q.op = "configure"
  /\ \/ /\ active = NoInstance
        /\ request' = [request EXCEPT ![r] = Idle]
        /\ UNCHANGED <<config, tasks>>
     \/ /\ active # NoInstance /\ tasks[active] < MaxTasks
        /\ config' = [config EXCEPT ![active] = q.config]
        /\ tasks' = [tasks EXCEPT ![active] = @ + 1]
        /\ request' = [request EXCEPT ![r] =
             [at |-> "reload", op |-> q.op, config |-> q.config, instance |-> active]]
  /\ UNCHANGED <<active, subs, built, frameVars>>

(* Variant: a reload adds subscriptions without removing the old ones.     *)
SubscribedToo(i) == [c \in Cameras |-> IF c \in Wants[config[i]] THEN subs[c] \cup {i} ELSE subs[c]]

(* _unregister_frame_subscriptions removes every instance of the name.     *)
Subscribed(i) == [c \in Cameras |-> IF c \in Wants[config[i]] THEN {i} ELSE {}]

(* on_load returns: the instance replaces what is active under the name    *)
(* (enable) or has its subscriptions registered again (configure).         *)
Loaded(r) ==
  /\ request[r].at \in {"load", "reload"}
  /\ LET i == request[r].instance IN
     /\ active' = IF request[r].at = "load" THEN i ELSE active
     /\ subs' = Subscribed(i)
  /\ request' = [request EXCEPT ![r] = Idle]
  /\ UNCHANGED <<row, instVars, frameVars>>

(* on_load raises: 500, and the committed row stays.                       *)
LoadRaises(r) ==
  /\ LoadFails
  /\ request[r].at \in {"load", "reload"}
  /\ request' = [request EXCEPT ![r] = Idle]
  /\ UNCHANGED <<row, active, subs, instVars, frameVars>>

(* on_unload is over: whatever is active under the name is removed.        *)
Unloaded(r) ==
  /\ request[r].at = "unload"
  /\ active' = NoInstance
  /\ subs' = IF active = NoInstance THEN subs ELSE [c \in Cameras |-> {}]
  /\ request' = [request EXCEPT ![r] = Idle]
  /\ UNCHANGED <<row, instVars, frameVars>>

-----------------------------------------------------------------------------
(* Frames.                                                                 *)

(* The loop of a camera hands the next frame to the instances subscribed   *)
(* now, once the calls for the previous frame are over.                    *)
DispatchFrame(c) ==
  /\ c \in loops
  /\ frame[c] = {} /\ calls[c] = {}
  /\ subs[c] # {}
  /\ frame' = [frame EXCEPT ![c] = subs[c]]
  /\ UNCHANGED <<row, active, subs, instVars, loops, calls, inflight, request>>

(* _dispatch_frame_plugin: a plugin still busy with the camera is skipped. *)
CallOnFrame(c, i) ==
  /\ i \in frame[c]
  /\ frame' = [frame EXCEPT ![c] = @ \ {i}]
  /\ IF c \in inflight
     THEN UNCHANGED <<calls, inflight>>
     ELSE calls' = [calls EXCEPT ![c] = @ \cup {i}] /\ inflight' = inflight \cup {c}
  /\ UNCHANGED <<row, active, subs, instVars, loops, request>>

(* Variant: the mark is set again by a call that was over.                 *)
EndOnFrameMarked(c, i) ==
  /\ i \in calls[c]
  /\ calls' = [calls EXCEPT ![c] = @ \ {i}]
  /\ UNCHANGED <<row, active, subs, instVars, loops, frame, inflight, request>>

(* on_frame returns, raises or is cut off by frame_timeout_seconds.        *)
EndOnFrame(c, i) ==
  /\ i \in calls[c]
  /\ calls' = [calls EXCEPT ![c] = @ \ {i}]
  /\ inflight' = inflight \ {c}
  /\ UNCHANGED <<row, active, subs, instVars, loops, frame, request>>

Serve(r)  == Enable(r) \/ Disable(r) \/ Configure(r) \/ Loaded(r) \/ Unloaded(r)
Handle(r) == Serve(r) \/ LoadRaises(r)
Frames(c) == DispatchFrame(c) \/ \E i \in Instances : CallOnFrame(c, i) \/ EndOnFrame(c, i)

Step ==
  \/ \E r \in Requests : Serve(r) \/ \E op \in Operations : Load(r, op)
  \/ \E c \in Cameras : Frames(c)

Busy == {r \in Requests : request[r] # Idle}

Next ==
  \/ Step /\ troubled' = (troubled \/ Cardinality(Busy') > 1)
  \/ (\E r \in Requests : LoadRaises(r)) /\ troubled' = TRUE

Spec == Init /\ [][Next]_vars

(* Every await of a route ends, and on_frame has a timeout of 20 s.        *)
Fairness ==
  /\ \A r \in Requests : WF_core(Handle(r))
  /\ \A c \in Cameras : WF_core(DispatchFrame(c)) /\ \A i \in Instances :
       WF_core(CallOnFrame(c, i)) /\ WF_core(EndOnFrame(c, i))

FairSpec == Spec /\ Fairness

-----------------------------------------------------------------------------
(* Properties.                                                             *)

(* Every variable has its type.                                            *)
TypeOK ==
  /\ row \in [enabled : BOOLEAN, config : Configs]
  /\ active \in Instances \cup {NoInstance}
  /\ subs \in [Cameras -> SUBSET Instances]
  /\ built \in 0..MaxInstances
  /\ config \in [Instances -> Configs]
  /\ tasks \in [Instances -> 0..MaxTasks]
  /\ loops \subseteq Cameras
  /\ frame \in [Cameras -> SUBSET Instances]
  /\ calls \in [Cameras -> SUBSET Instances]
  /\ inflight \subseteq Cameras
  /\ request \in [Requests -> Steps]
  /\ troubled \in BOOLEAN

Quiet == Busy = {}

(* As long as no two requests have overlapped and no on_load has raised,   *)
(* between requests the plugin runs exactly when its row says so, with the *)
(* configuration of the row.                                               *)
RunsAsStored ==
  Quiet /\ ~troubled =>
           /\ row.enabled = (active # NoInstance)
           /\ row.enabled => config[active] = row.config

(* Nor then does anything but the active instance receive frames, and it   *)
(* does those of the cameras the configuration of the row names.           *)
SubscribedAsStored ==
  Quiet /\ ~troubled => \A c \in Cameras :
    subs[c] = IF row.enabled /\ c \in Wants[row.config] THEN {active} ELSE {}

(* Between requests that have not overlapped, the plugin runs as its row   *)
(* says and gets the frames of the cameras its configuration names.        *)
AsStored == RunsAsStored /\ SubscribedAsStored

(* A camera never has two instances of the plugin subscribed, and a frame  *)
(* is never analysed twice at once.                                        *)
OneAtATime ==
  \A c \in Cameras : Cardinality(subs[c]) <= 1 /\ Cardinality(calls[c]) <= 1

(* A plugin that stays subscribed to a camera with a loop keeps being      *)
(* given frames: no stale in-flight mark shuts it out.                     *)
FramesKeepComing ==
  \A c \in Cameras :
    (c \in loops /\ <>[](subs[c] # {})) => []<>(calls[c] # {})

(* A plugin that is disabled when nothing is under way runs nothing.       *)
DisabledRunsNothing ==
  Quiet /\ ~row.enabled => \A i \in Instances : tasks[i] = 0

(* A plugin that is disabled when nothing is under way gets no events.     *)
DisabledNotActive == Quiet /\ ~row.enabled => active = NoInstance

(* A camera some instance subscribes to has a loop that reads its frames.  *)
SubscribedCameraRead == \A c \in Cameras : subs[c] # {} => c \in loops
=============================================================================
