---------------------------- MODULE CameraWizard ----------------------------
(***************************************************************************)
(* The wizard that adds a camera to a Frigate (pages/CameraWizard.tsx):    *)
(* five steps, each of which is validated when it is left forwards.  What  *)
(* it does to Frigate is FrigateConfig's.  Choices that nothing depends on *)
(* (sizes, objects, modes, snapshots, sound) are left out.                 *)
(***************************************************************************)
EXTENDS Integers

CONSTANTS
  Servers,  \* servers that may be chosen
  Streams   \* what may be typed for the main stream: "" or a scheme

Unset == "unset"

VARIABLES
  step, done, error,
  serverId, cameraName, displayName, rtspMain, recordDays,
  add,   \* addMut: idle, or the payload that was sent
  sync   \* syncMut is under way, or has ended: the page is left

fields == <<serverId, cameraName, displayName, rtspMain, recordDays>>
vars   == <<step, done, error, fields, add, sync>>

Idle == [at |-> "idle"]

Init ==
  /\ step = 1 /\ done = FALSE /\ error = FALSE
  /\ serverId = Unset /\ cameraName = FALSE /\ displayName = FALSE
  /\ rtspMain = "" /\ recordDays = 7
  /\ add = Idle /\ sync = "idle"

Asking == ~done /\ sync = "idle"

-----------------------------------------------------------------------------
(* Variant: the stream is not looked at.                                   *)
ValidNoStream(at) ==
  /\ at = 1 => serverId # Unset
  /\ at = 2 => cameraName /\ displayName
  /\ at = 4 => recordDays >= 1

(* validateStep: the name, kept to its letters as it is typed, is not      *)
(* empty, and the others are what they have to be.                         *)
Valid(at) ==
  /\ at = 1 => serverId # Unset
  /\ at = 2 => cameraName /\ displayName /\ rtspMain = "rtsp"
  /\ at = 4 => recordDays >= 1

(* What the form of the step lets the operator enter.                      *)
Choose ==
  /\ Asking
  /\ \/ step = 1 /\ serverId' \in Servers /\ UNCHANGED <<cameraName, displayName, rtspMain, recordDays>>
     \/ /\ step = 2 /\ cameraName' \in BOOLEAN /\ displayName' \in BOOLEAN /\ rtspMain' \in Streams
        /\ UNCHANGED <<serverId, recordDays>>
     \/ step = 4 /\ recordDays' \in {0, 7} /\ UNCHANGED <<serverId, cameraName, displayName, rtspMain>>
  /\ UNCHANGED <<step, done, error, add, sync>>

(* next, prev: an error stays on its step.                                 *)
StepForward ==
  /\ Asking /\ step < 5
  /\ error' = ~Valid(step)
  /\ step' = IF Valid(step) THEN step + 1 ELSE step
  /\ UNCHANGED <<done, fields, add, sync>>

StepBack ==
  /\ Asking /\ step > 1 /\ add = Idle
  /\ error' = FALSE /\ step' = step - 1
  /\ UNCHANGED <<done, fields, add, sync>>

Submit ==
  /\ Asking /\ step = 5 /\ add = Idle
  /\ error' = FALSE
  /\ add' = [at |-> "asked", server |-> serverId, name |-> cameraName, display |-> displayName,
             main |-> rtspMain, days |-> recordDays]
  /\ UNCHANGED <<step, done, fields, sync>>

(* onSuccess or onError.                                                   *)
Added ==
  /\ add # Idle /\ add' = Idle
  /\ \/ done' = TRUE /\ UNCHANGED error
     \/ error' = TRUE /\ UNCHANGED done
  /\ UNCHANGED <<step, fields, sync>>

(* "Agregar otra": the server and the retention are kept.                  *)
AddAnother ==
  /\ done /\ sync = "idle"
  /\ done' = FALSE /\ step' = 1
  /\ cameraName' = FALSE /\ displayName' = FALSE /\ rtspMain' = ""
  /\ UNCHANGED <<error, serverId, recordDays, add, sync>>

(* finish: the page is left whether or not the server was synchronised.    *)
Finish ==
  /\ done /\ sync = "idle" /\ sync' = "asked"
  /\ UNCHANGED <<step, done, error, fields, add>>

Leave ==
  /\ sync = "asked" /\ sync' = "left"
  /\ UNCHANGED <<step, done, error, fields, add>>

User == Choose \/ StepForward \/ StepBack \/ Submit \/ AddAnother \/ Finish

Next == User \/ Added \/ Leave

Spec == Init /\ [][Next]_vars

-----------------------------------------------------------------------------
(* Whatever steps are taken back, and for a second camera too, what is     *)
(* sent passes every validation (validateStep, prev, "Agregar otra").      *)
SentIsValid ==
  add # Idle =>
    /\ add.server # Unset /\ add.name /\ add.display /\ add.main = "rtsp" /\ add.days >= 1
=============================================================================
