---------------------------- MODULE ServerWizard ----------------------------
(***************************************************************************)
(* The wizard that adds a server (components/settings/ServerWizard.tsx),   *)
(* with the routes it calls: an address is tested, the server is described *)
(* and created, its cameras are synchronised.                              *)
(***************************************************************************)
EXTENDS Integers, FiniteSets

CONSTANTS
  Urls,     \* addresses that may be typed
  Names,    \* names of servers
  Existing  \* names of the servers there are

Unset == "unset"

VARIABLES
  step,             \* 1 to 3; 0 when the wizard is closed
  url, test, result,
  name, rtsp, mqtt, \* displayName and name; rtspBase, by the address it is of; mqttHost
  create, created,  \* createMut: idle, asked, done or failed; createdServer
  sync,             \* the call that follows a creation
  stepErr,
  servers,          \* the servers created
  online, retyped   \* history: addresses that passed a test; the address was
                    \* edited while its test ran

entered == <<url, name, rtsp, mqtt>>
calls   == <<test, create, sync>>
vars    == <<step, result, entered, calls, created, stepErr, servers, online, retyped>>

Idle == [at |-> "idle"]

Init ==
  /\ step = 1
  /\ url = Unset /\ name = Unset /\ rtsp = Unset /\ mqtt = FALSE
  /\ test = Idle /\ result = Unset
  /\ create = Idle /\ created = Unset /\ sync = FALSE /\ stepErr = FALSE
  /\ servers = {} /\ online = {} /\ retyped = FALSE

-----------------------------------------------------------------------------
(* Step 1: the address.                                                    *)

TypeUrl(u) ==
  /\ step = 1 /\ url # u
  /\ url' = u /\ result' = Unset
  /\ retyped' = (test # Idle)
  /\ UNCHANGED <<step, name, rtsp, mqtt, calls, created, stepErr, servers, online>>

(* handleTest ...                                                          *)
Test ==
  /\ step = 1 /\ url # Unset /\ test = Idle
  /\ test' = [at |-> "asked", url |-> url] /\ result' = Unset
  /\ retyped' = FALSE
  /\ UNCHANGED <<step, entered, create, sync, created, stepErr, servers, online>>

(* ... and its answer, which is taken for the address's that is typed.     *)
Tested ==
  /\ test # Idle /\ test' = Idle
  /\ \/ result' = "online" /\ online' = online \cup {test.url}
     \/ result' = "offline" /\ UNCHANGED online
  /\ UNCHANGED <<step, entered, create, sync, created, stepErr, servers, retyped>>

(* Variant: the button is not disabled.                                    *)
Step1Any ==
  /\ step = 1 /\ url # Unset
  /\ step' = 2
  /\ rtsp' = IF rtsp = Unset THEN url ELSE rtsp
  /\ UNCHANGED <<result, url, name, mqtt, calls, created, stepErr, servers, online, retyped>>

(* handleStep1Next: an address for streams is proposed if there is none.   *)
Step1Next ==
  /\ step = 1 /\ result = "online"
  /\ step' = 2
  /\ rtsp' = IF rtsp = Unset THEN url ELSE rtsp
  /\ UNCHANGED <<result, url, name, mqtt, calls, created, stepErr, servers, online, retyped>>

-----------------------------------------------------------------------------
(* Step 2: what else there is to say; step 3: creation.                    *)

Describe ==
  /\ step = 2
  /\ name' \in Names \cup {Unset} /\ rtsp' \in Urls \cup {Unset} /\ mqtt' \in BOOLEAN
  /\ UNCHANGED <<step, result, url, calls, created, stepErr, servers, online, retyped>>

Step2Next ==
  /\ step = 2 /\ Unset \notin {name, rtsp}
  /\ step' = 3 /\ stepErr' = FALSE
  /\ UNCHANGED <<result, entered, calls, created, servers, online, retyped>>

Back ==
  /\ step \in {2, 3} /\ created = Unset
  /\ step' = step - 1
  /\ UNCHANGED <<result, entered, calls, created, stepErr, servers, online, retyped>>

(* handleStep3Submit.                                                      *)
Submit ==
  /\ step = 3 /\ created = Unset /\ create = Idle
  /\ create' = [at |-> "asked", name |-> name, url |-> url, mqtt |-> mqtt, retyped |-> retyped]
  /\ stepErr' = FALSE
  /\ UNCHANGED <<step, result, entered, test, sync, created, servers, online, retyped>>

(* create_server commits and then, with a broker, fails; a name that is    *)
(* taken fails too.                                                        *)
Create ==
  /\ create.at = "asked"
  /\ LET taken == create.name \in Existing \cup {s.name : s \in servers} IN
     /\ servers' = IF taken THEN servers
                   ELSE servers \cup {[name |-> create.name, url |-> create.url, retyped |-> create.retyped]}
     /\ create' = [at |-> IF taken \/ create.mqtt THEN "failed" ELSE "done", name |-> create.name]
  /\ UNCHANGED <<step, result, entered, test, sync, created, stepErr, online, retyped>>

(* createMut's onSuccess, which synchronises, and its onError.             *)
OnCreate ==
  /\ create.at \in {"done", "failed"} /\ create' = Idle
  /\ IF create.at = "done"
     THEN created' = create.name /\ sync' = TRUE /\ UNCHANGED stepErr
     ELSE stepErr' = TRUE /\ UNCHANGED <<created, sync>>
  /\ UNCHANGED <<step, result, entered, test, servers, online, retyped>>

Synced ==
  /\ sync /\ sync' = FALSE
  /\ UNCHANGED <<step, result, entered, test, create, created, stepErr, servers, online, retyped>>

(* handleFinish, and onClose at any time.                                  *)
Close ==
  /\ step # 0 /\ step' = 0
  /\ UNCHANGED <<result, entered, calls, created, stepErr, servers, online, retyped>>

-----------------------------------------------------------------------------
User ==
  \/ \E u \in Urls : TypeUrl(u)
  \/ Test \/ Step1Next \/ Describe \/ Step2Next \/ Back \/ Submit \/ Close

Next == User \/ Tested \/ Create \/ OnCreate \/ Synced

Spec == Init /\ [][Next]_vars

-----------------------------------------------------------------------------
(* Only a server whose address has answered a test is created, whichever   *)
(* steps are taken back, unless the address was edited while it was tested.*)
OnlyTested == \A s \in servers : s.url \in online \/ s.retyped

-----------------------------------------------------------------------------
(* What the code does not do; each is refuted by a demonstration.          *)

AlwaysTested == \A s \in servers : s.url \in online

(* What is told to have failed has not been done.                          *)
FailedIsNot == stepErr => servers = {}

(* The address proposed for streams is of the server that was tested.      *)
ProposedOf == [][Step1Next => rtsp' = url]_vars
=============================================================================
