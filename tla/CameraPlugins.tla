---------------------------- MODULE CameraPlugins ----------------------------
(***************************************************************************)
(* The plugins of a camera, in the dialog of the camera                    *)
(* (components/settings/CameraForm.tsx): a box for each plugin, filled     *)
(* when the dialog is opened from the list as it was, and a PUT of a       *)
(* plugin's whole configuration, as the list has it, for each box that is  *)
(* not as the list is.  The boxes are not saved with the camera's form.    *)
(***************************************************************************)
EXTENDS Integers, FiniteSets

CONSTANTS
  Plugins, Cameras,
  Values,    \* of the rest of a configuration
  MaxSaves,  \* bound: presses of the button
  MaxEdits   \* bound: edits made elsewhere

VARIABLES
  config,         \* of the server: of each plugin, the cameras it has and the rest
  shown, query,   \* the query's data; idle, asked, or the answer
  camera, boxes,  \* editing; pluginAssignments
  status,         \* the button's label, which alone disables it
  puts, saves,    \* requests under way; presses of the button
  edits,
  asOpened,       \* history: the list when the boxes were filled
  meant, strayed  \* history: what the operators meant; plugins where it was lost

dialog  == <<camera, boxes, status, asOpened>>
history == <<meant, strayed>>
vars    == <<config, shown, query, dialog, puts, saves, edits, history>>

Nobody == "nobody"
Idle   == [at |-> "idle"]
Asked  == [at |-> "asked"]

Init ==
  /\ config = [p \in Plugins |-> [cams |-> Cameras, rest |-> CHOOSE v \in Values : TRUE]]
  /\ shown = <<>> /\ query = Asked
  /\ camera = Nobody /\ boxes = <<>> /\ status = "idle" /\ asOpened = <<>>
  /\ puts = {} /\ saves = 0 /\ edits = 0
  /\ meant = config /\ strayed = {}

(* Variant: the cameras alone are sent, and the rest is as at first.       *)
AssignedBare(c, cam, ticked) ==
  [cams |-> IF ticked THEN c.cams \cup {cam} ELSE c.cams \ {cam},
   rest |-> CHOOSE v \in Values : TRUE]

(* The configuration c with or without the camera cam.                     *)
Assigned(c, cam, ticked) ==
  [c EXCEPT !.cams = IF ticked THEN @ \cup {cam} ELSE @ \ {cam}]

-----------------------------------------------------------------------------
Focus ==
  /\ query = Idle /\ query' = Asked
  /\ UNCHANGED <<config, shown, dialog, puts, saves, edits, history>>

Serve ==
  /\ query = Asked
  /\ query' \in {[at |-> "answer", config |-> config], Idle}
  /\ UNCHANGED <<config, shown, dialog, puts, saves, edits, history>>

OnList ==
  /\ query.at = "answer" /\ query' = Idle
  /\ shown' = query.config
  /\ UNCHANGED <<config, dialog, puts, saves, edits, history>>

(* openEdit, with the effect on editing alone: a list that comes later     *)
(* fills no box.                                                           *)
OpenEdit(c) ==
  /\ camera = Nobody /\ camera' = c
  /\ boxes' = [p \in DOMAIN shown |-> c \in shown[p].cams]
  /\ status' = "idle" /\ asOpened' = shown
  /\ UNCHANGED <<config, shown, query, puts, saves, edits, history>>

CloseModal ==
  /\ camera # Nobody /\ camera' = Nobody
  /\ boxes' = <<>> /\ status' = "idle" /\ asOpened' = <<>>
  /\ UNCHANGED <<config, shown, query, puts, saves, edits, history>>

Tick(p) ==
  /\ camera # Nobody /\ p \in DOMAIN shown
  /\ boxes' = [q \in DOMAIN boxes \cup {p} |->
                 IF q # p THEN boxes[q] ELSE p \notin DOMAIN boxes \/ ~boxes[p]]
  /\ UNCHANGED <<config, shown, query, camera, status, asOpened, puts, saves, edits, history>>

-----------------------------------------------------------------------------
(* The plugins whose box is not as the list is; one without a box is none. *)
ToSend ==
  {p \in DOMAIN shown : p \in DOMAIN boxes => boxes[p] # (camera \in shown[p].cams)}

(* handlePluginSave, pluginMut: what is put is the list's configuration.   *)
PluginSave ==
  /\ camera # Nobody /\ status # "saving" /\ saves < MaxSaves
  /\ status' = "saving" /\ saves' = saves + 1
  /\ puts' = puts \cup
       {[of |-> p, save |-> saves', at |-> "asked", base |-> shown[p],
         config |-> Assigned(shown[p], camera, p \in DOMAIN boxes /\ boxes[p]),
         camera |-> camera, ticked |-> p \in DOMAIN boxes /\ boxes[p],
         chosen |-> p \in DOMAIN asOpened /\ shown[p] = asOpened[p]] : p \in ToSend}
  /\ UNCHANGED <<config, shown, query, camera, boxes, asOpened, edits, history>>

(* update_plugin_config replaces the configuration.  What the operator     *)
(* means is the box; it is lost where the list was not what is stored, or  *)
(* not what the box was filled from.                                       *)
Put(x) ==
  /\ x \in puts /\ x.at = "asked"
  /\ \E well \in BOOLEAN :
       /\ puts' = (puts \ {x}) \cup {[of |-> x.of, save |-> x.save, at |-> IF well THEN "done" ELSE "failed"]}
       /\ IF ~well THEN UNCHANGED <<config, history>>
          ELSE /\ config' = [config EXCEPT ![x.of] = x.config]
               /\ meant' = [meant EXCEPT ![x.of].cams = IF x.ticked THEN @ \cup {x.camera}
                                                      ELSE @ \ {x.camera}]
               /\ strayed' = IF x.chosen /\ x.base = config[x.of] THEN strayed
                             ELSE strayed \cup {x.of}
  /\ UNCHANGED <<shown, query, dialog, saves, edits>>

(* Promise.all: well when all are, ill with the first that is, when the    *)
(* others are forgotten.  The label is changed whichever camera is edited. *)
OnSaved(k) ==
  LET own == {x \in puts : x.save = k} IN
  /\ IF \E x \in own : x.at = "failed"
     THEN /\ puts' = (puts \ own) \cup {[x EXCEPT !.save = 0] : x \in {y \in own : y.at = "asked"}}
          /\ status' = "error" /\ UNCHANGED query
     ELSE /\ own # {} /\ \A x \in own : x.at = "done"
          /\ puts' = puts \ own /\ status' = "ok"
          /\ query' = IF query = Idle THEN Asked ELSE query
  /\ UNCHANGED <<config, shown, camera, boxes, asOpened, saves, edits, history>>

(* Nothing was to be sent.                                                 *)
OnNothing ==
  /\ status = "saving" /\ {x \in puts : x.save = saves} = {}
  /\ status' = "ok" /\ query' = IF query = Idle THEN Asked ELSE query
  /\ UNCHANGED <<config, shown, camera, boxes, asOpened, puts, saves, edits, history>>

(* The configuration is edited in another window.                          *)
Elsewhere(p, v) ==
  /\ config[p].rest # v /\ edits < MaxEdits
  /\ config' = [config EXCEPT ![p].rest = v]
  /\ meant' = [meant EXCEPT ![p].rest = v]
  /\ edits' = edits + 1
  /\ UNCHANGED <<shown, query, dialog, puts, saves, strayed>>

-----------------------------------------------------------------------------
User ==
  \/ \E c \in Cameras : OpenEdit(c)
  \/ \E p \in Plugins : Tick(p)
  \/ \E p \in Plugins, v \in Values : Elsewhere(p, v)
  \/ CloseModal \/ PluginSave \/ Focus

Next ==
  \/ User \/ Serve \/ OnList \/ OnNothing
  \/ \E x \in puts : Put(x)
  \/ \E k \in 1 .. MaxSaves : OnSaved(k)

Spec == Init /\ [][Next]_vars

-----------------------------------------------------------------------------
(* A plugin has the cameras that the boxes gave it, and the rest of its    *)
(* configuration as it was, but for a save from a list that had changed    *)
(* since, or since the dialog was opened, or was not there yet.            *)
AsTicked == \A p \in Plugins \ strayed : config[p] = meant[p]

-----------------------------------------------------------------------------
(* What the code does not do; each is refuted by a demonstration.          *)

AlwaysAsTicked == config = meant

(* Only what was ticked is sent.                                           *)
SentAsChosen == \A x \in puts : x.at = "asked" => x.chosen
=============================================================================
