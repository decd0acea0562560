-------------------------- MODULE ServerAdminProofs --------------------------
(***************************************************************************)
(* Theorems about ServerAdmin, for any servers, settings and requests.     *)
(***************************************************************************)
EXTENDS ServerAdmin, TLAPS, FiniteSetTheorems

OneRequest == \A r, q \in Busy : r = q

\* The pooled client of a server, if any, is open and is of its row.
Good(s) == pool[s] # NoClient => pool[s].id \notin closed /\ pool[s].settings = rows[s]

\* A client is pooled for one server, and was built.
Apart ==
  /\ \A s \in Servers : pool[s] # NoClient => pool[s].id <= built
  /\ \A s, u \in Servers : pool[s] # NoClient /\ pool[u] # NoClient /\ s # u
                             => pool[s].id # pool[u].id

Dropping(s) == \E r \in Requests : request[r].at = "drop" /\ request[r].server = s

\* What a request has done to the pool, or holds of it, at each await.
Holds(q) ==
  /\ q.at = "get" => q.settings = rows[q.server]
  /\ q.at \in {"commit", "forget"} => pool[q.server] = NoClient
  /\ q.at = "send" => q.client.id \notin closed

Types ==
  /\ rows \in [Servers -> Settings \cup {NoServer}]
  /\ pool \in [Servers -> Clients \cup {NoClient}]
  /\ built \in Nat /\ closed \subseteq 1..built
  /\ request \in [Requests -> Steps]

Kept ==
  /\ Types /\ OneRequest /\ Apart
  /\ \A s \in Servers : Good(s) \/ Dropping(s)
  /\ \A r \in Requests : Holds(request[r])

IInv == ~overlapped => Kept

LEMMA InitIInv == Init => IInv
  <1> SUFFICES ASSUME Init PROVE Kept
    BY DEF IInv
  <1>1. \A r \in Requests : request[r] = Idle
    BY DEF Init
  <1>2. Types
    BY <1>1 DEF Init, Types, Steps
  <1>3. Apart /\ \A s \in Servers : Good(s)
    BY DEF Init, Apart, Good
  <1>4. OneRequest /\ \A r \in Requests : Holds(request[r])
    BY <1>1 DEF OneRequest, Busy, Holds, Idle
  <1> QED
    BY <1>2, <1>3, <1>4 DEF Kept

\* Broker tasks, and whatever else leaves the rows, the pool and the
\* requests as they are.
LEMMA StillKept ==
  ASSUME Kept, UNCHANGED <<rows, pool, built, closed, request>>
  PROVE  Kept'
  BY DEF Kept, Types, OneRequest, Busy, Apart, Good, Dropping, Holds

\* The step of one request, while no other one is under way.
LEMMA OnlyRequest ==
  ASSUME Kept, OneRequest', NEW r \in Requests, NEW q \in Steps,
         request[r] # Idle \/ q # Idle, request' = [request EXCEPT ![r] = q],
         (rows \in [Servers -> Settings \cup {NoServer}])',
         (pool \in [Servers -> Clients \cup {NoClient}])',
         (built \in Nat /\ closed \subseteq 1..built)',
         Apart', Holds(q)',
         \A s \in Servers : Good(s)' \/ (q.at = "drop" /\ q.server = s)
  PROVE  Kept'
  <1>1. request' \in [Requests -> Steps] /\ request'[r] = q
    BY DEF Kept, Types
  <1>2. ASSUME NEW u \in Requests, u # r
        PROVE  request'[u] = Idle
    <2>1. request'[u] = request[u]
      BY <1>2 DEF Kept, Types
    <2>2. request[u] # Idle => request[r] = Idle /\ q = Idle
      BY <1>1, <1>2, <2>1 DEF Kept, OneRequest, Busy
    <2> QED
      BY <2>1, <2>2
  <1>3. \A u \in Requests : Holds(request[u])'
    BY <1>1, <1>2 DEF Holds, Idle
  <1>4. \A s \in Servers : (Good(s) \/ Dropping(s))'
    BY <1>1 DEF Dropping
  <1> QED
    BY <1>1, <1>3, <1>4 DEF Kept, Types

\* While a request is under way, every other pooled client is as it should
\* be; so are all of them when it is not dropping one.
LEMMA OthersGood ==
  ASSUME Kept, NEW r \in Requests, request[r] # Idle, NEW s \in Servers,
         ~(request[r].at = "drop" /\ request[r].server = s)
  PROVE  Good(s)
  <1>1. ASSUME NEW u \in Requests, request[u].at = "drop"
        PROVE  u = r
    BY <1>1 DEF Kept, OneRequest, Busy, Idle
  <1> QED
    BY <1>1 DEF Kept, Dropping

LEMMA AllGood ==
  ASSUME Kept, NEW r \in Requests, request[r] = Idle, NEW q \in Steps, q # Idle,
         OneRequest', request' = [request EXCEPT ![r] = q], NEW s \in Servers
  PROVE  Good(s)
  <1>1. request'[r] = q
    BY DEF Kept, Types
  <1>2. ASSUME NEW u \in Requests, request[u].at = "drop"
        PROVE  FALSE
    <2>1. u # r /\ request'[u] = request[u] /\ request[u] # Idle
      BY <1>2 DEF Kept, Types, Idle
    <2> QED
      BY <1>1, <2>1 DEF OneRequest, Busy
  <1> QED
    BY <1>2 DEF Kept, Dropping

LEMMA CreateKept ==
  ASSUME Kept, NEW r \in Requests, NEW s \in Servers, NEW v \in Settings, Create(r, s, v)
  PROVE  Kept'
  <1>1. pool[s] = NoClient \/ Dropping(s)
    BY Parameters DEF Create, Kept, Types, Good, Clients
  <1>2. \A u \in Servers : u # s => rows'[u] = rows[u]
    BY DEF Create, Kept, Types
  <1>3. \A u \in Servers : (Good(u) \/ Dropping(u))'
    BY <1>1, <1>2 DEF Create, poolVars, Kept, Good, Dropping
  <1>4. ASSUME NEW u \in Requests
        PROVE  Holds(request[u])'
    <2>1. request[u].at = "get" => request[u].server \in Servers /\ request[u].settings \in Settings
      BY DEF Kept, Types, Steps, Idle
    <2>2. request[u].at = "get" => request[u].server # s
      BY <2>1, Parameters DEF Create, Kept, Holds
    <2> QED
      BY <1>2, <2>1, <2>2 DEF Create, poolVars, Kept, Holds
  <1> QED
    BY <1>3, <1>4 DEF Create, poolVars, Kept, Types, OneRequest, Busy, Apart

LEMMA LoadKept ==
  ASSUME Kept, OneRequest', NEW r \in Requests, NEW s \in Servers, NEW op \in Operations,
         Load(r, s, op)
  PROVE  Kept'
  <1>1. rows[s] \in Settings
    BY DEF Load, Kept, Types
  <1>2. PICK v \in Settings, q \in Steps :
          /\ q = [at |-> IF op = "use" THEN "get" ELSE "close", op |-> op,
                  server |-> s, settings |-> v]
          /\ op # "update" => v = rows[s]
          /\ request' = [request EXCEPT ![r] = q]
    BY <1>1 DEF Load, Steps
  <1>3. request[r] = Idle /\ q # Idle
    BY <1>2 DEF Load, Idle
  <1>4. \A u \in Servers : Good(u)'
    BY <1>2, <1>3, AllGood DEF Load, poolVars, Good
  <1>5. Holds(q)'
    BY <1>2 DEF Holds, Load
  <1>6. Apart'
    BY DEF Load, poolVars, Kept, Apart
  <1>7. /\ (rows \in [Servers -> Settings \cup {NoServer}])'
        /\ (pool \in [Servers -> Clients \cup {NoClient}])'
        /\ (built \in Nat /\ closed \subseteq 1..built)'
    BY DEF Load, poolVars, Kept, Types
  <1> QED
    BY <1>2, <1>3, <1>4, <1>5, <1>6, <1>7, OnlyRequest

LEMMA GetClientKept ==
  ASSUME Kept, OneRequest', NEW r \in Requests, GetClient(r)
  PROVE  Kept'
  <1> DEFINE s == request[r].server
  <1>1. /\ request[r] # Idle /\ request[r].at = "get"
        /\ s \in Servers /\ request[r].settings \in Settings
        /\ request[r].settings = rows[s]
    BY DEF GetClient, Kept, Types, Steps, Idle, Holds
  <1>2. \A u \in Servers : Good(u)
    BY <1>1, OthersGood
  <1>3. CASE pool[s] # NoClient /\ UNCHANGED <<pool, built>>
    <2>1. PICK q \in Steps :
            /\ q = [at |-> "send", server |-> s, client |-> pool[s]]
            /\ request' = [request EXCEPT ![r] = q]
      BY <1>1, <1>3 DEF GetClient, Kept, Types, Steps
    <2>2. Holds(q)' /\ \A u \in Servers : Good(u)'
      BY <1>1, <1>2, <1>3, <2>1 DEF GetClient, Good, Holds
    <2>3. Apart' /\ UNCHANGED <<rows, pool, built, closed>>
      BY <1>3 DEF GetClient, Kept, Apart
    <2> QED
      BY <1>1, <2>1, <2>2, <2>3, OnlyRequest DEF Kept, Types
  <1>4. CASE /\ pool[s] = NoClient /\ built < MaxClients
             /\ built' = built + 1
             /\ pool' = [pool EXCEPT ![s] = [id |-> built + 1, settings |-> request[r].settings]]
    <2> DEFINE c == [id |-> built + 1, settings |-> request[r].settings]
    <2>1. c \in Clients /\ c # NoClient /\ c.id \notin closed
      BY <1>1, <1>4, Parameters DEF Clients, Kept, Types
    <2>2. pool' \in [Servers -> Clients \cup {NoClient}] /\ pool'[s] = c
      BY <1>1, <1>4, <2>1 DEF Kept, Types
    <2>3. \A u \in Servers : u # s => pool'[u] = pool[u]
      BY <1>1, <1>4 DEF Kept, Types
    <2>4. PICK q \in Steps :
            /\ q = [at |-> "send", server |-> s, client |-> pool'[s]]
            /\ request' = [request EXCEPT ![r] = q]
      BY <1>1, <2>1, <2>2 DEF GetClient, Steps
    <2>5. UNCHANGED <<rows, closed>>
      BY DEF GetClient
    <2>6. Holds(q)'
      BY <2>1, <2>2, <2>4, <2>5 DEF Holds
    <2>7. \A u \in Servers : Good(u)'
      BY <1>1, <1>2, <2>1, <2>2, <2>3, <2>5 DEF Good
    <2>8. Apart'
      <3>1. \A u \in Servers : pool[u] # NoClient => pool[u].id \in Nat /\ pool[u].id <= built
        BY Parameters DEF Kept, Types, Apart, Clients
      <3> QED
        BY <1>1, <1>4, <2>2, <2>3, <3>1 DEF Kept, Types, Apart
    <2>9. built' \in Nat /\ closed' \subseteq 1..built'
      BY <1>4, <2>5 DEF Kept, Types
    <2> QED
      BY <1>1, <2>2, <2>4, <2>5, <2>6, <2>7, <2>8, <2>9, OnlyRequest DEF Kept, Types
  <1> QED
    BY <1>3, <1>4 DEF GetClient

LEMMA SendKept ==
  ASSUME Kept, OneRequest', NEW r \in Requests, Send(r)
  PROVE  Kept'
  <1>1. request[r] # Idle /\ request[r].at = "send" /\ Idle \in Steps
    BY DEF Send, Idle, Steps
  <1>2. \A u \in Servers : Good(u)'
    BY <1>1, OthersGood DEF Send, poolVars, Good
  <1>3. Holds(Idle)' /\ Apart'
    BY DEF Holds, Idle, Send, poolVars, Kept, Apart
  <1>4. UNCHANGED <<rows, pool, built, closed>> /\ request' = [request EXCEPT ![r] = Idle]
    BY DEF Send, poolVars, End
  <1> QED
    BY <1>1, <1>2, <1>3, <1>4, OnlyRequest DEF Kept, Types

LEMMA CloseKept ==
  ASSUME Kept, OneRequest', NEW r \in Requests, Close(r)
  PROVE  Kept'
  <1> DEFINE s == request[r].server
  <1>1. /\ request[r] # Idle /\ request[r].at = "close"
        /\ s \in Servers /\ request[r].settings \in Settings /\ request[r].op \in Operations
        /\ request[r] = [at |-> "close", op |-> request[r].op, server |-> s,
                         settings |-> request[r].settings]
    BY DEF Close, Kept, Types, Steps, Idle
  <1>2. \A u \in Servers : Good(u)
    BY <1>1, OthersGood
  <1>3. UNCHANGED <<rows, pool, built>>
    BY DEF Close
  <1>4. CASE pool[s] = NoClient
    <2>1. PICK q \in Steps :
            /\ q.at \in {"commit", "forget"} /\ q.server = s
            /\ request' = [request EXCEPT ![r] = q]
      <3>1. After(request[r]) \in {"commit", "forget"}
        BY DEF After
      <3>2. request' = [request EXCEPT ![r] = [request[r] EXCEPT !.at = After(request[r])]]
        BY <1>4 DEF Close
      <3> QED
        BY <1>1, <3>1, <3>2 DEF Steps
    <2>2. UNCHANGED closed
      BY <1>4 DEF Close
    <2>3. Holds(q)' /\ Apart' /\ q # Idle /\ \A u \in Servers : Good(u)'
      BY <1>2, <1>3, <1>4, <2>1, <2>2 DEF Holds, Kept, Apart, Idle, Good
    <2> QED
      BY <1>1, <1>3, <2>1, <2>2, <2>3, OnlyRequest DEF Kept, Types
  <1>5. CASE pool[s] # NoClient
    <2>1. PICK q \in Steps :
            /\ q.at = "drop" /\ q.server = s
            /\ request' = [request EXCEPT ![r] = q]
      <3>1. request' = [request EXCEPT ![r] = [request[r] EXCEPT !.at = "drop"]]
        BY <1>5 DEF Close
      <3> QED
        BY <1>1, <3>1 DEF Steps
    <2>2. closed' = closed \cup {pool[s].id}
      BY <1>5 DEF Close
    <2>3. pool[s].id \in 1..built
      BY <1>1, <1>5, Parameters DEF Kept, Types, Apart, Clients
    <2>4. built' \in Nat /\ closed' \subseteq 1..built'
      BY <1>3, <2>2, <2>3 DEF Kept, Types
    <2>5. \A u \in Servers : Good(u)' \/ (q.at = "drop" /\ q.server = u)
      BY <1>1, <1>2, <1>3, <1>5, <2>1, <2>2 DEF Good, Kept, Apart
    <2>6. Holds(q)' /\ Apart' /\ q # Idle
      BY <1>3, <2>1 DEF Holds, Kept, Apart, Idle
    <2> QED
      BY <1>1, <1>3, <2>1, <2>4, <2>5, <2>6, OnlyRequest DEF Kept, Types
  <1> QED
    BY <1>4, <1>5

LEMMA DropKeptInv ==
  ASSUME Kept, OneRequest', NEW r \in Requests, Drop(r)
  PROVE  Kept'
  <1> DEFINE s == request[r].server
  <1>1. /\ request[r] # Idle /\ request[r].at = "drop"
        /\ s \in Servers /\ request[r].settings \in Settings /\ request[r].op \in Operations
        /\ request[r] = [at |-> "drop", op |-> request[r].op, server |-> s,
                         settings |-> request[r].settings]
    BY DEF Drop, Kept, Types, Steps, Idle
  <1>2. \A u \in Servers : u # s => Good(u)
    BY <1>1, OthersGood
  <1>3. UNCHANGED <<rows, built, closed>>
    BY DEF Drop
  <1>4. CASE pool[s] = NoClient
    <2>1. UNCHANGED pool /\ request' = [request EXCEPT ![r] = Idle] /\ Idle \in Steps
      BY <1>4 DEF Drop, End, Steps
    <2>2. Holds(Idle)' /\ Apart' /\ \A u \in Servers : Good(u)'
      BY <1>2, <1>3, <1>4, <2>1 DEF Holds, Idle, Kept, Apart, Good
    <2> QED
      BY <1>1, <1>3, <2>1, <2>2, OnlyRequest DEF Kept, Types
  <1>5. CASE pool[s] # NoClient
    <2>1. PICK q \in Steps :
            /\ q.at \in {"commit", "forget"} /\ q.server = s
            /\ request' = [request EXCEPT ![r] = q]
      <3>1. After(request[r]) \in {"commit", "forget"}
        BY DEF After
      <3>2. request' = [request EXCEPT ![r] = [request[r] EXCEPT !.at = After(request[r])]]
        BY <1>5 DEF Drop
      <3> QED
        BY <1>1, <3>1, <3>2 DEF Steps
    <2>2. pool' = [pool EXCEPT ![s] = NoClient]
      BY <1>5 DEF Drop
    <2>3. /\ pool' \in [Servers -> Clients \cup {NoClient}] /\ pool'[s] = NoClient
          /\ \A u \in Servers : u # s => pool'[u] = pool[u]
      BY <1>1, <2>2 DEF Kept, Types
    <2>4. \A u \in Servers : Good(u)'
      BY <1>2, <1>3, <2>3 DEF Good
    <2>5. Holds(q)' /\ q # Idle
      BY <2>1, <2>3 DEF Holds, Idle
    <2>6. Apart'
      BY <1>3, <2>3 DEF Kept, Apart
    <2> QED
      BY <1>1, <1>3, <2>1, <2>3, <2>4, <2>5, <2>6, OnlyRequest DEF Kept, Types
  <1> QED
    BY <1>4, <1>5

LEMMA CommitUpdateKept ==
  ASSUME Kept, OneRequest', NEW r \in Requests, CommitUpdate(r)
  PROVE  Kept'
  <1> DEFINE s == request[r].server
  <1>1. /\ request[r] # Idle /\ request[r].at = "commit" /\ Idle \in Steps
        /\ s \in Servers /\ request[r].settings \in Settings /\ pool[s] = NoClient
    BY DEF CommitUpdate, Kept, Types, Steps, Idle, Holds
  <1>2. /\ rows' = [rows EXCEPT ![s] = request[r].settings]
        /\ UNCHANGED <<pool, built, closed>> /\ request' = [request EXCEPT ![r] = Idle]
    BY DEF CommitUpdate, poolVars, End
  <1>3. /\ rows' \in [Servers -> Settings \cup {NoServer}]
        /\ \A u \in Servers : u # s => rows'[u] = rows[u]
    BY <1>1, <1>2 DEF Kept, Types
  <1>4. \A u \in Servers : Good(u)
    BY <1>1, OthersGood
  <1>5. \A u \in Servers : Good(u)'
    BY <1>1, <1>2, <1>3, <1>4 DEF Good
  <1>6. Holds(Idle)' /\ Apart'
    BY <1>2 DEF Holds, Idle, Kept, Apart
  <1> QED
    BY <1>1, <1>2, <1>3, <1>5, <1>6, OnlyRequest DEF Kept, Types

LEMMA ForgetServerKept ==
  ASSUME Kept, OneRequest', NEW r \in Requests, ForgetServer(r)
  PROVE  Kept'
  <1>1. request[r] # Idle /\ request[r].at = "forget" /\ Idle \in Steps
    BY DEF ForgetServer, Idle, Steps
  <1>2. UNCHANGED <<rows, pool, built, closed>> /\ request' = [request EXCEPT ![r] = Idle]
    BY DEF ForgetServer, poolVars, End
  <1>3. \A u \in Servers : Good(u)'
    BY <1>1, <1>2, OthersGood DEF Good
  <1>4. Holds(Idle)' /\ Apart'
    BY <1>2 DEF Holds, Idle, Kept, Apart
  <1> QED
    BY <1>1, <1>2, <1>3, <1>4, OnlyRequest DEF Kept, Types

LEMMA RestartKept == ASSUME Kept, Restart PROVE Kept'
  <1>1. \A r \in Requests : request'[r] = Idle
    BY DEF Restart
  <1>2. Types'
    BY <1>1 DEF Restart, Kept, Types, Steps
  <1>3. Apart' /\ \A s \in Servers : Good(s)'
    BY DEF Restart, Apart, Good
  <1>4. OneRequest' /\ \A r \in Requests : Holds(request[r])'
    BY <1>1 DEF OneRequest, Busy, Holds, Idle
  <1> QED
    BY <1>2, <1>3, <1>4 DEF Kept

LEMMA StepKept == ASSUME Kept, OneRequest', Step PROVE Kept'
  <1>1. ASSUME NEW s \in Servers, BrokerLoop(s) \/ Toggle(s)
        PROVE  Kept'
    BY <1>1, StillKept DEF BrokerLoop, Connect, Fail, Retry, Toggle, poolVars
  <1>2. ASSUME NEW r \in Requests, Handle(r)
        PROVE  Kept'
    BY <1>2, GetClientKept, SendKept, CloseKept, DropKeptInv, CommitUpdateKept,
       ForgetServerKept DEF Handle
  <1> QED
    BY <1>1, <1>2, CreateKept, LoadKept, RestartKept DEF Step

LEMMA NextIInv == IInv /\ [Next]_vars => IInv'
  <1> SUFFICES ASSUME IInv, [Next]_vars, ~overlapped'
               PROVE  Kept'
    BY DEF IInv
  <1>1. CASE UNCHANGED vars
    BY <1>1, StillKept DEF vars, core, poolVars, IInv
  <1>2. CASE Next
    <2>1. Kept
      BY <1>2 DEF IInv, Next
    <2>2. IsFiniteSet(Busy')
      BY Parameters, FS_Subset DEF Busy
    <2>3. Cardinality(Busy') \in Nat
      BY <2>2, FS_CardinalityType
    <2>4. ~(Cardinality(Busy') > 1)
      BY <1>2, Zenon DEF Next
    <2>5. Cardinality(Busy') <= 1
      BY <2>3, <2>4
    <2>6. OneRequest'
      BY <2>2, <2>3, <2>5, FS_EmptySet, FS_Singleton DEF OneRequest
    <2> QED
      BY <1>2, <2>1, <2>6, StepKept DEF Next
  <1> QED
    BY <1>1, <1>2

(* As long as no two requests overlap, the pooled client of a server is    *)
(* between requests the one its row asks for, whatever updates, restarts   *)
(* and lost brokers there were (remove_client before the commit).          *)
THEOREM PooledClientIsFresh == Spec => []PoolFresh
  <1>1. IInv => PoolFresh
    BY DEF IInv, Kept, PoolFresh, Good, Dropping, Busy, Idle
  <1> QED
    BY <1>1, InitIInv, NextIInv, PTL DEF Spec

(* Nor does a request then send through a client that has been closed.     *)
THEOREM SendsThroughOpen == Spec => []SendsOpen
  <1>1. IInv => SendsOpen
    BY DEF IInv, Kept, SendsOpen, Holds
  <1> QED
    BY <1>1, InitIInv, NextIInv, PTL DEF Spec
=============================================================================
