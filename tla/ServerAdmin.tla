----------------------------- MODULE ServerAdmin -----------------------------
(***************************************************************************)
(* The registered Frigate servers: the routes that create, update and      *)
(* delete them (api/v1/servers.py), the pool of HTTP clients they share    *)
(* with every other route (services/frigate_service.py) and the MQTT       *)
(* broker tasks started for them (services/mqtt_service.py, main.py).      *)
(*                                                                         *)
(* servers.py never imports mqtt_service, so the routes stop with a        *)
(* NameError where they would start or stop a task.                        *)
(***************************************************************************)
EXTENDS Integers, FiniteSets

CONSTANTS
  Servers,    \* ids of servers
  Settings,   \* what a row says: url, credentials and broker
  Listening,  \* the settings that are enabled and name an MQTT broker
  Requests,   \* concurrent API requests
  Operations, \* the operations requests perform
  MaxClients, \* bound: HTTP clients built
  MaxAttempt, \* bound: failures in a row of one task
  NoServer, NoClient, NoTask

Clients == [id : 1..MaxClients, settings : Settings]

ASSUME Parameters ==
  /\ Listening \subseteq Settings
  /\ Operations \subseteq {"create", "update", "delete", "use"}
  /\ MaxClients \in Nat /\ MaxAttempt \in Nat
  /\ NoServer \notin Settings /\ NoClient \notin Clients
  /\ IsFiniteSet(Requests)

VARIABLES
  rows,      \* the table frigate_servers
  pool,      \* FrigateService._clients
  built,     \* the number of clients built so far: the last one's id
  closed,    \* the ids of the clients whose connections are closed
  request,   \* the API requests under way
  deleted,   \* history: the servers whose delete request has ended
  task,      \* the broker task of each server
  brokerUp,  \* whether each server's broker accepts connections
  overlapped \* history: whether two requests have been under way at once

poolVars == <<pool, built, closed>>
mqttVars == <<task, brokerUp>>
core     == <<rows, poolVars, request, deleted, mqttVars>>
vars     == <<core, overlapped>>

Idle    == [at |-> "idle"]
Steps   == {Idle} \cup [at : {"get", "close", "drop", "commit", "forget"}, op : Operations,
                        server : Servers, settings : Settings]
                  \cup [at : {"send"}, server : Servers, client : Clients]
Tasks   == [settings : Settings, at : {"connecting", "connected", "waiting"}, attempt : 0..MaxAttempt]

Init ==
  /\ rows \in [Servers -> Settings \cup {NoServer}]
  /\ pool = [s \in Servers |-> NoClient]
  /\ built = 0
  /\ closed = {}
  /\ request = [r \in Requests |-> Idle]
  /\ deleted = {}
  /\ task = [s \in Servers |-> NoTask]
  /\ brokerUp \in [Servers -> BOOLEAN]
  /\ overlapped = FALSE

-----------------------------------------------------------------------------
(* The routes.  Every step but the last one of a request awaits.           *)

End(r) == request' = [request EXCEPT ![r] = Idle]

(* The commit of POST /servers; starting a task for it raises NameError.   *)
Create(r, s, v) ==
  /\ "create" \in Operations
  /\ request[r] = Idle /\ rows[s] = NoServer
  /\ rows' = [rows EXCEPT ![s] = v]
  /\ deleted' = deleted \ {s}
  /\ UNCHANGED <<poolVars, request, mqttVars>>

(* _get_or_404: the row is loaded and kept for the whole request.          *)
Load(r, s, op) ==
  /\ op \in Operations \ {"create"}
  /\ request[r] = Idle /\ rows[s] # NoServer
  /\ \E v \in IF op = "update" THEN Settings ELSE {rows[s]} :
       request' = [request EXCEPT ![r] = [at |-> IF op = "use" THEN "get" ELSE "close",
                                          op |-> op, server |-> s, settings |-> v]]
  /\ UNCHANGED <<rows, poolVars, deleted, mqttVars>>

(* get_client: the pooled client, or a new one from the loaded row.        *)
GetClient(r) ==
  /\ request[r].at = "get"
  /\ LET s == request[r].server IN
     /\ \/ pool[s] # NoClient /\ UNCHANGED <<pool, built>>
        \/ /\ pool[s] = NoClient /\ built < MaxClients
           /\ built' = built + 1
           /\ pool' = [pool EXCEPT ![s] = [id |-> built + 1, settings |-> request[r].settings]]
     /\ request' = [request EXCEPT ![r] = [at |-> "send", server |-> s, client |-> pool'[s]]]
  /\ UNCHANGED <<rows, closed, deleted, mqttVars>>

(* The answer of Frigate, or the error of a closed client.                 *)
Send(r) ==
  /\ request[r].at = "send"
  /\ End(r)
  /\ UNCHANGED <<rows, poolVars, deleted, mqttVars>>

After(q) == IF q.op = "update" THEN "commit" ELSE "forget"

(* Variant: an update looks for the client under a key it was not built for. *)
CloseMissed(r) ==
  /\ request[r].at = "close"
  /\ request' = [request EXCEPT ![r].at = After(request[r])]
  /\ UNCHANGED <<rows, poolVars, deleted, mqttVars>>

(* remove_client, up to its await: the client is closed in the pool.       *)
Close(r) ==
  /\ request[r].at = "close"
  /\ LET q == request[r] IN
     IF pool[q.server] = NoClient
     THEN request' = [request EXCEPT ![r].at = After(q)] /\ UNCHANGED closed
     ELSE /\ closed' = closed \cup {pool[q.server].id}
          /\ request' = [request EXCEPT ![r].at = "drop"]
  /\ UNCHANGED <<rows, pool, built, deleted, mqttVars>>

(* Variant: remove_client closes the client and keeps it.                  *)
DropKept(r) ==
  /\ request[r].at = "drop"
  /\ request' = [request EXCEPT ![r].at = After(request[r])]
  /\ UNCHANGED <<rows, poolVars, deleted, mqttVars>>

(* ... and after it: a KeyError when another request has dropped it.       *)
Drop(r) ==
  /\ request[r].at = "drop"
  /\ LET q == request[r] IN
     IF pool[q.server] = NoClient
     THEN End(r) /\ UNCHANGED pool
     ELSE /\ pool' = [pool EXCEPT ![q.server] = NoClient]
          /\ request' = [request EXCEPT ![r].at = After(q)]
  /\ UNCHANGED <<rows, built, closed, deleted, mqttVars>>

(* The UPDATE and its commit, then the NameError of remove_server.         *)
CommitUpdate(r) ==
  /\ request[r].at = "commit"
  /\ rows' = [rows EXCEPT ![request[r].server] = request[r].settings]
  /\ End(r)
  /\ UNCHANGED <<poolVars, deleted, mqttVars>>

(* Delete: the NameError of remove_server comes before the DELETE.         *)
ForgetServer(r) ==
  /\ request[r].at = "forget"
  /\ deleted' = deleted \cup {request[r].server}
  /\ End(r)
  /\ UNCHANGED <<rows, poolVars, mqttVars>>

-----------------------------------------------------------------------------
(* The broker tasks.                                                       *)

(* A start of the backend: one task per row that names a broker.           *)
Restart ==
  /\ task' = [s \in Servers |-> IF rows[s] \in Listening
                                THEN [settings |-> rows[s], at |-> "connecting", attempt |-> 0]
                                ELSE NoTask]
  /\ pool' = [s \in Servers |-> NoClient]
  /\ request' = [r \in Requests |-> Idle]
  /\ UNCHANGED <<rows, built, closed, deleted, brokerUp>>

(* A connection is made and the backoff starts over.                       *)
Connect(s) ==
  /\ task[s] # NoTask /\ task[s].at = "connecting" /\ brokerUp[s]
  /\ task' = [task EXCEPT ![s].at = "connected", ![s].attempt = 0]
  /\ UNCHANGED <<rows, poolVars, request, deleted, brokerUp>>

(* Variant: an error that is not an MqttError ends the task.               *)
FailEnds(s) ==
  /\ task[s] # NoTask /\ task[s].at \in {"connecting", "connected"} /\ ~brokerUp[s]
  /\ task' = [task EXCEPT ![s] = NoTask]
  /\ UNCHANGED <<rows, poolVars, request, deleted, brokerUp>>

(* No connection, or the connection is lost: sleep before the next try,    *)
(* min(2^attempt, 60) seconds.                                             *)
Fail(s) ==
  /\ task[s] # NoTask /\ task[s].at \in {"connecting", "connected"} /\ ~brokerUp[s]
  /\ task' = [task EXCEPT ![s].at = "waiting",
                          ![s].attempt = IF @ < MaxAttempt THEN @ + 1 ELSE @]
  /\ UNCHANGED <<rows, poolVars, request, deleted, brokerUp>>

Retry(s) ==
  /\ task[s] # NoTask /\ task[s].at = "waiting"
  /\ task' = [task EXCEPT ![s].at = "connecting"]
  /\ UNCHANGED <<rows, poolVars, request, deleted, brokerUp>>

(* The broker goes down or comes back.                                     *)
Toggle(s) ==
  /\ brokerUp' = [brokerUp EXCEPT ![s] = ~@]
  /\ UNCHANGED <<rows, poolVars, request, deleted, task>>

Handle(r) ==
  \/ GetClient(r) \/ Send(r) \/ Close(r) \/ Drop(r) \/ CommitUpdate(r) \/ ForgetServer(r)
BrokerLoop(s) == Connect(s) \/ Fail(s) \/ Retry(s)

Step ==
  \/ \E r \in Requests, s \in Servers, v \in Settings : Create(r, s, v)
  \/ \E r \in Requests, s \in Servers, op \in Operations : Load(r, s, op)
  \/ \E r \in Requests : Handle(r)
  \/ Restart
  \/ \E s \in Servers : BrokerLoop(s) \/ Toggle(s)

Busy == {r \in Requests : request[r] # Idle}

Next == Step /\ overlapped' = (overlapped \/ Cardinality(Busy') > 1)

Spec == Init /\ [][Next]_vars

(* The loop of a task and its bounded sleep are scheduled by the event     *)
(* loop for as long as the process runs.                                   *)
FairSpec == Spec /\ \A s \in Servers : WF_core(BrokerLoop(s))

-----------------------------------------------------------------------------
(* Properties.                                                             *)

(* Every variable has its type.                                            *)
TypeOK ==
  /\ rows \in [Servers -> Settings \cup {NoServer}]
  /\ pool \in [Servers -> Clients \cup {NoClient}]
  /\ built \in 0..MaxClients
  /\ closed \subseteq 1..built
  /\ request \in [Requests -> Steps]
  /\ deleted \subseteq Servers
  /\ task \in [Servers -> Tasks \cup {NoTask}]
  /\ brokerUp \in [Servers -> BOOLEAN]
  /\ overlapped \in BOOLEAN

(* As long as no two requests have overlapped, the pooled client of a      *)
(* server is, between requests, the one its row asks for.                  *)
PoolFresh ==
  \A s \in Servers :
    /\ rows[s] # NoServer /\ pool[s] # NoClient
    /\ Busy = {} /\ ~overlapped
    => pool[s].settings = rows[s]

(* Nor does a request then send through a client that is closed.           *)
SendsOpen ==
  ~overlapped => \A r \in Requests : request[r].at = "send" => request[r].client.id \notin closed

(* A task whose broker comes back for good connects, unless its server is  *)
(* left without a broker.                                                  *)
Reconnects ==
  \A s \in Servers :
    <>[]brokerUp[s] =>
      ((task[s] # NoTask) ~>
         (task[s] # NoTask /\ task[s].at = "connected") \/ rows[s] \notin Listening)

(* A server whose delete request has ended is gone.                        *)
DeletedGone == \A s \in deleted : rows[s] = NoServer

(* Between requests, a running task listens to the broker of its row.      *)
ListensToRow ==
  Busy = {} =>
    \A s \in Servers : task[s] # NoTask => task[s].settings = rows[s]
=============================================================================
