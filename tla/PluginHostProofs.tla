-------------------------- MODULE PluginHostProofs --------------------------
(***************************************************************************)
(* Theorems about the plugin registry, for any cameras, configurations,    *)
(* requests and bounds, and about the abandoned object analytic, for any   *)
(* places, detections, seconds and thresholds.                             *)
(***************************************************************************)
EXTENDS PluginHost, Sequences, TLAPS, FiniteSetTheorems, WellFoundedInduction

Alone(S) == \A i, j \in S : i = j

\* Why a camera with a call under way cannot get another: its mark is set.
Marked == \A c \in Cameras : calls[c] # {} => c \in inflight

IInv ==
  /\ calls \in [Cameras -> SUBSET Instances]
  /\ \A c \in Cameras : Alone(subs[c]) /\ Alone(calls[c])
  /\ Marked

LEMMA AloneIsOne ==
  ASSUME NEW S, Alone(S)
  PROVE  Cardinality(S) <= 1
  <1>1. CASE S = {}
    BY <1>1, FS_EmptySet
  <1>2. CASE S # {}
    <2>1. PICK x : x \in S
      BY <1>2
    <2>2. S = {x}
      BY <2>1 DEF Alone
    <2> QED
      BY <2>2, FS_Singleton
  <1> QED
    BY <1>1, <1>2

\* Whatever instance is registered, it takes the place of all others.
LEMMA SubscribedAlone ==
  ASSUME NEW i, NEW c \in Cameras
  PROVE  Alone(Subscribed(i)[c])
  BY DEF Subscribed, Alone

LEMMA InitIInv == Init => IInv
  <1> SUFFICES ASSUME Init PROVE IInv
    OBVIOUS
  <1>1. \A c \in Cameras : Alone(subs[c])
    BY DEF Init, Alone
  <1>2. calls = [c \in Cameras |-> {}]
    BY DEF Init, Start
  <1> QED
    BY <1>1, <1>2 DEF IInv, Marked, Alone

\* The steps that leave the calls alone, and the subscriptions singular.
LEMMA CallsAlone ==
  ASSUME IInv, UNCHANGED <<calls, inflight>>,
         subs' = subs \/ \A c \in Cameras : Alone(subs'[c])
  PROVE  IInv'
  BY DEF IInv, Marked

\* A route takes at most one instance for another.
LEMMA HandleIInv ==
  ASSUME IInv, NEW r \in Requests, Handle(r)
  PROVE  IInv'
  <1>1. CASE Enable(r) \/ Disable(r) \/ Configure(r) \/ LoadRaises(r)
    BY <1>1, CallsAlone DEF Enable, Disable, Configure, LoadRaises, frameVars
  <1>2. CASE Loaded(r)
    <2>1. subs' = Subscribed(request[r].instance)
      BY <1>2 DEF Loaded
    <2>2. \A c \in Cameras : Alone(subs'[c])
      BY <2>1, SubscribedAlone
    <2> QED
      BY <1>2, <2>2, CallsAlone DEF Loaded, frameVars
  <1>3. CASE Unloaded(r)
    <2>1. subs' = subs \/ subs' = [c \in Cameras |-> {}]
      BY <1>3 DEF Unloaded
    <2>2. subs' = subs \/ \A c \in Cameras : Alone(subs'[c])
      BY <2>1 DEF Alone
    <2> QED
      BY <1>3, <2>2, CallsAlone DEF Unloaded, frameVars
  <1> QED
    BY <1>1, <1>2, <1>3 DEF Handle, Serve

\* A call begins only where none is under way, and ends alone.
LEMMA FramesIInv ==
  ASSUME IInv, NEW c \in Cameras, Frames(c)
  PROVE  IInv'
  <1>1. CASE DispatchFrame(c)
    BY <1>1, CallsAlone DEF DispatchFrame
  <1>2. ASSUME NEW i \in Instances, CallOnFrame(c, i)
        PROVE  IInv'
    <2>1. CASE c \in inflight
      BY <1>2, <2>1, CallsAlone DEF CallOnFrame
    <2>2. CASE c \notin inflight
      <3>1. calls[c] = {}
        BY <2>2 DEF IInv, Marked
      <3>2. /\ calls' = [calls EXCEPT ![c] = {i}]
            /\ inflight' = inflight \cup {c}
            /\ subs' = subs
        BY <1>2, <2>2, <3>1 DEF CallOnFrame, IInv
      <3>3. calls' \in [Cameras -> SUBSET Instances]
        BY <1>2, <3>2 DEF IInv
      <3>4. \A d \in Cameras : calls'[d] = IF d = c THEN {i} ELSE calls[d]
        BY <3>2 DEF IInv
      <3> QED
        BY <3>2, <3>3, <3>4 DEF IInv, Marked, Alone
    <2> QED
      BY <2>1, <2>2
  <1>3. ASSUME NEW i \in Instances, EndOnFrame(c, i)
        PROVE  IInv'
    <2>1. calls[c] = {i}
      BY <1>3 DEF EndOnFrame, IInv, Alone
    <2>2. /\ calls' = [calls EXCEPT ![c] = {}]
          /\ inflight' = inflight \ {c}
          /\ subs' = subs
      BY <1>3, <2>1 DEF EndOnFrame, IInv
    <2>3. calls' \in [Cameras -> SUBSET Instances]
      BY <2>2 DEF IInv
    <2>4. \A d \in Cameras : calls'[d] = IF d = c THEN {} ELSE calls[d]
      BY <2>2 DEF IInv
    <2> QED
      BY <2>2, <2>3, <2>4 DEF IInv, Marked, Alone
  <1> QED
    BY <1>1, <1>2, <1>3 DEF Frames

LEMMA NextIInv == IInv /\ [Next]_vars => IInv'
  <1> SUFFICES ASSUME IInv, [Next]_vars PROVE IInv'
    OBVIOUS
  <1>1. CASE UNCHANGED vars
    BY <1>1, CallsAlone DEF vars, core, frameVars
  <1>2. ASSUME NEW r \in Requests, NEW op \in Operations, Load(r, op)
        PROVE  IInv'
    BY <1>2, CallsAlone DEF Load, frameVars
  <1> QED
    BY <1>1, <1>2, HandleIInv, FramesIInv DEF Next, Step, Handle

(* A camera never has two instances of the plugin subscribed, and a frame  *)
(* is never analysed twice at once (PluginRegistry, main.py), for any      *)
(* number of cameras and requests, however they overlap.                   *)
THEOREM OneInstanceAtATime == Spec => []OneAtATime
  <1>1. IInv => OneAtATime
    BY AloneIsOne DEF IInv, OneAtATime
  <1> QED
    BY <1>1, InitIInv, NextIInv, PTL DEF Spec
-----------------------------------------------------------------------------
(* What the routes keep as long as one request follows the other.          *)

SType ==
  /\ row \in [enabled : BOOLEAN, config : Configs]
  /\ active \in Instances \cup {NoInstance}
  /\ built \in Nat
  /\ config \in [Instances -> Configs]
  /\ request \in [Requests -> Steps]

OneRequest == \A r, s \in Busy : r = s

Runs ==
  /\ row.enabled = (active # NoInstance)
  /\ row.enabled => config[active] = row.config

Subscribes ==
  \A c \in Cameras : subs[c] = IF row.enabled /\ c \in Wants[row.config] THEN {active} ELSE {}

\* What a request under way stands for, by the await it is at.
Awaits(q) ==
  /\ q.at = "commit" => Runs /\ Subscribes /\ (q.op # "configure" => q.config = row.config)
  /\ q.at = "load" =>
       /\ row.enabled /\ active = NoInstance /\ \A c \in Cameras : subs[c] = {}
       /\ q.instance \in Instances /\ config[q.instance] = row.config
  /\ q.at = "unload" => ~row.enabled /\ active # NoInstance
  /\ q.at = "reload" =>
       /\ row.enabled /\ active # NoInstance
       /\ q.instance = active /\ config[active] = row.config

OneByOne ==
  /\ OneRequest
  /\ Quiet => Runs /\ Subscribes
  /\ \A r \in Requests : Awaits(request[r])

SInv == SType /\ (~troubled => OneByOne)

LEMMA InitSInv == Init => SInv
  <1> SUFFICES ASSUME Init PROVE SInv
    OBVIOUS
  <1>1. SType
    BY Parameters DEF Init, Start, SType, Instances, Steps
  <1>2. ASSUME ~troubled
        PROVE  OneByOne
    <2>1. \A r \in Requests : request[r] = Idle
      BY DEF Init, Start
    <2>2. row.enabled = (active # NoInstance) /\ (row.enabled => active = 1)
      BY <1>2, Parameters DEF Init, Instances
    <2>3. Runs
      BY <2>2, Parameters DEF Init, Runs, Instances
    <2>4. row.enabled \in BOOLEAN /\ 1 # NoInstance
      BY Parameters DEF Init
    <2>5. active = 1 <=> row.enabled
      BY <2>2, <2>4
    <2>6. \A c \in Cameras : subs[c] = IF row.enabled /\ c \in Wants[row.config] THEN {1} ELSE {}
      BY <2>5 DEF Init
    <2>7. Subscribes
      BY <2>5, <2>6 DEF Subscribes
    <2> QED
      BY <2>1, <2>3, <2>7 DEF OneByOne, OneRequest, Busy, Awaits, Idle
  <1> QED
    BY <1>1, <1>2 DEF SInv

\* A step of request r, while no other one is under way.
LEMMA OnlyOne ==
  ASSUME SType, OneRequest, OneRequest', NEW r \in Requests, NEW q \in Steps,
         request[r] # Idle \/ q # Idle,
         request' = [request EXCEPT ![r] = q],
         q.at # "idle" => Awaits(q)',
         q.at = "idle" => (Runs /\ Subscribes)'
  PROVE  OneByOne'
  <1>1. request'[r] = q
    BY DEF SType
  <1>2. ASSUME NEW s \in Requests, s # r
        PROVE  request'[s] = Idle
    <2>1. request'[s] = request[s]
      BY <1>2 DEF SType
    <2>2. request[s] # Idle => request[r] = Idle /\ q = Idle
      BY <1>1, <1>2, <2>1 DEF OneRequest, Busy
    <2> QED
      BY <2>1, <2>2
  <1>3. \A s \in Requests : Awaits(request[s])'
    BY <1>1, <1>2 DEF Awaits, Idle
  <1>4. Quiet' => (Runs /\ Subscribes)'
    BY <1>1 DEF Quiet, Busy, Idle
  <1> QED
    BY <1>3, <1>4 DEF OneByOne

\* Steps that do not come from a request, and those that change nothing it is about.
LEMMA SInvKept ==
  ASSUME SInv, UNCHANGED <<row, active, subs, built, config, request>>, troubled => troubled'
  PROVE  SInv'
  BY DEF SInv, SType, OneByOne, OneRequest, Quiet, Busy, Runs, Subscribes, Awaits

LEMMA LoadSInv ==
  ASSUME SInv, NEW r \in Requests, NEW op \in Operations, Load(r, op),
         troubled => troubled', ~troubled' => OneRequest'
  PROVE  SInv'
  <1>1. PICK v \in Configs :
          /\ request' = [request EXCEPT ![r] = [at |-> "commit", op |-> op, config |-> v]]
          /\ op # "configure" => v = row.config
    BY DEF Load, SInv, SType
  <1>2. [at |-> "commit", op |-> op, config |-> v] \in Steps
    BY DEF Steps
  <1>3. SType'
    BY <1>1, <1>2 DEF Load, SInv, SType, instVars
  <1>4. ASSUME ~troubled'
        PROVE  OneByOne'
    <2>1. OneByOne /\ OneRequest'
      BY <1>4 DEF SInv
    <2>2. Quiet
      BY <1>1, <2>1 DEF Load, Quiet, Busy, OneRequest, SInv, SType, Idle
    <2>3. (Runs /\ Subscribes)'
      BY <2>1, <2>2 DEF OneByOne, Runs, Subscribes, Load, instVars
    <2> QED
      BY <1>1, <1>2, <2>1, <2>3, OnlyOne DEF SInv, OneByOne, Awaits, Idle, Load
  <1> QED
    BY <1>3, <1>4 DEF SInv

LEMMA EnableSInv ==
  ASSUME SInv, NEW r \in Requests, Enable(r),
         troubled => troubled', ~troubled' => OneRequest'
  PROVE  SInv'
  <1> DEFINE q == request[r]
  <1>1. /\ q \in Steps /\ q.at = "commit" /\ q.op = "enable" /\ q.config \in Configs
        /\ q # Idle
    BY DEF Enable, Commit, SInv, SType, Steps, Idle
  <1>2. /\ row' = [row EXCEPT !.enabled = TRUE]
        /\ active' = active /\ subs' = subs
    BY DEF Enable, Commit
  <1>3. ~troubled' => OneByOne /\ Awaits(q)
    BY DEF SInv, OneByOne
  <1>4. CASE active # NoInstance
    <2>1. request' = [request EXCEPT ![r] = Idle] /\ UNCHANGED <<built, config>>
      BY <1>4 DEF Enable, instVars
    <2>2. SType'
      BY <1>2, <2>1 DEF SInv, SType, Steps
    <2>3. ASSUME ~troubled'
          PROVE  OneByOne'
      <3>1. row' = row
        BY <1>1, <1>2, <1>3, <1>4, <2>3 DEF Awaits, Runs, SInv, SType
      <3>2. (Runs /\ Subscribes)'
        BY <1>1, <1>2, <1>3, <2>1, <2>3, <3>1 DEF Awaits, Runs, Subscribes
      <3> QED
        BY <1>1, <1>3, <2>1, <2>3, <3>2, OnlyOne DEF SInv, OneByOne, Idle, Steps
    <2> QED
      BY <2>2, <2>3 DEF SInv
  <1>5. CASE active = NoInstance
    <2>1. built + 1 \in Instances /\ built \in Nat
      BY <1>5, Parameters DEF Enable, Instances, SInv, SType
    <2>2. PICK i \in Instances, p \in Steps :
            /\ i = built + 1 /\ built' = i
            /\ p = [at |-> "load", op |-> q.op, config |-> q.config, instance |-> i]
            /\ config' = [config EXCEPT ![i] = q.config]
            /\ request' = [request EXCEPT ![r] = p]
      BY <1>1, <1>5, <2>1 DEF Enable, Steps
    <2>3. SType'
      <3>1. row' \in [enabled : BOOLEAN, config : Configs]
        BY <1>2 DEF SInv, SType
      <3>2. config' \in [Instances -> Configs] /\ request' \in [Requests -> Steps]
        BY <1>1, <2>2 DEF SInv, SType
      <3> QED
        BY <1>2, <2>1, <2>2, <3>1, <3>2 DEF SInv, SType
    <2>4. ASSUME ~troubled'
          PROVE  OneByOne'
      <3>1. Runs /\ Subscribes /\ q.config = row.config
        BY <1>1, <1>3, <2>4 DEF Awaits
      <3>2. \A c \in Cameras : subs[c] = {}
        BY <1>5, <3>1 DEF Runs, Subscribes
      <3>3. row'.enabled /\ row'.config = q.config /\ config'[i] = q.config
        BY <1>2, <2>2, <3>1 DEF SInv, SType
      <3>4. Awaits(p)'
        BY <1>2, <1>5, <2>2, <3>2, <3>3 DEF Awaits
      <3> QED
        BY <1>1, <1>3, <2>2, <2>4, <3>4, OnlyOne DEF SInv, OneByOne
    <2> QED
      BY <2>3, <2>4 DEF SInv
  <1> QED
    BY <1>4, <1>5

LEMMA DisableSInv ==
  ASSUME SInv, NEW r \in Requests, Disable(r),
         troubled => troubled', ~troubled' => OneRequest'
  PROVE  SInv'
  <1> DEFINE q == request[r]
  <1>1. /\ q \in Steps /\ q.at = "commit" /\ q.op = "disable" /\ q.config \in Configs
        /\ q # Idle
    BY DEF Disable, Commit, SInv, SType, Steps, Idle
  <1>2. /\ row' = [row EXCEPT !.enabled = FALSE]
        /\ UNCHANGED <<active, subs, built, config>>
    BY DEF Disable, Commit
  <1>3. ~troubled' => OneByOne /\ Awaits(q)
    BY DEF SInv, OneByOne
  <1>4. row' \in [enabled : BOOLEAN, config : Configs] /\ ~row'.enabled
    BY <1>2 DEF SInv, SType
  <1>5. CASE active = NoInstance
    <2>1. request' = [request EXCEPT ![r] = Idle]
      BY <1>5 DEF Disable
    <2>2. SType'
      BY <1>2, <1>4, <2>1 DEF SInv, SType, Steps
    <2>3. ASSUME ~troubled'
          PROVE  OneByOne'
      <3>1. Runs /\ Subscribes
        BY <1>1, <1>3, <2>3 DEF Awaits
      <3>2. (Runs /\ Subscribes)'
        BY <1>2, <1>4, <1>5, <3>1 DEF Runs, Subscribes
      <3> QED
        BY <1>1, <1>3, <2>1, <2>3, <3>2, OnlyOne DEF SInv, OneByOne, Idle, Steps
    <2> QED
      BY <2>2, <2>3 DEF SInv
  <1>6. CASE active # NoInstance
    <2>1. PICK p \in Steps :
            /\ p = [at |-> "unload", op |-> "disable", config |-> q.config, instance |-> active]
            /\ request' = [request EXCEPT ![r] = p]
      BY <1>1, <1>6 DEF Disable, Steps, SInv, SType
    <2>2. SType'
      BY <1>2, <1>4, <2>1 DEF SInv, SType
    <2>3. Awaits(p)'
      BY <1>2, <1>4, <1>6, <2>1 DEF Awaits
    <2> QED
      BY <1>1, <1>3, <2>1, <2>2, <2>3, OnlyOne DEF SInv, OneByOne
  <1> QED
    BY <1>5, <1>6

LEMMA ConfigureSInv ==
  ASSUME SInv, NEW r \in Requests, Configure(r),
         troubled => troubled', ~troubled' => OneRequest'
  PROVE  SInv'
  <1> DEFINE q == request[r]
  <1>1. /\ q \in Steps /\ q.at = "commit" /\ q.op = "configure" /\ q.config \in Configs
        /\ q # Idle
    BY DEF Configure, Commit, SInv, SType, Steps, Idle
  <1>2. /\ row' = [row EXCEPT !.config = q.config]
        /\ UNCHANGED <<active, subs, built>>
    BY DEF Configure, Commit
  <1>3. ~troubled' => OneByOne /\ Awaits(q)
    BY DEF SInv, OneByOne
  <1>4. /\ row' \in [enabled : BOOLEAN, config : Configs]
        /\ row'.enabled = row.enabled /\ row'.config = q.config
    BY <1>1, <1>2 DEF SInv, SType
  <1>5. CASE active = NoInstance
    <2>1. request' = [request EXCEPT ![r] = Idle] /\ UNCHANGED config
      BY <1>5 DEF Configure
    <2>2. SType'
      BY <1>2, <1>4, <2>1 DEF SInv, SType, Steps
    <2>3. ASSUME ~troubled'
          PROVE  OneByOne'
      <3>1. Runs /\ Subscribes
        BY <1>1, <1>3, <2>3 DEF Awaits
      <3>2. ~row.enabled
        BY <1>5, <3>1 DEF Runs
      <3>3. (Runs /\ Subscribes)'
        BY <1>2, <1>4, <1>5, <3>1, <3>2 DEF Runs, Subscribes
      <3> QED
        BY <1>1, <1>3, <2>1, <2>3, <3>3, OnlyOne DEF SInv, OneByOne, Idle, Steps
    <2> QED
      BY <2>2, <2>3 DEF SInv
  <1>6. CASE active # NoInstance
    <2>1. PICK p \in Steps :
            /\ p = [at |-> "reload", op |-> q.op, config |-> q.config, instance |-> active]
            /\ request' = [request EXCEPT ![r] = p]
            /\ config' = [config EXCEPT ![active] = q.config]
      BY <1>1, <1>6 DEF Configure, Steps, SInv, SType
    <2>2. SType'
      <3>1. config' \in [Instances -> Configs] /\ request' \in [Requests -> Steps]
        BY <1>1, <2>1 DEF SInv, SType
      <3> QED
        BY <1>2, <1>4, <3>1 DEF SInv, SType
    <2>3. ASSUME ~troubled'
          PROVE  OneByOne'
      <3>1. row.enabled
        BY <1>1, <1>3, <1>6, <2>3 DEF Awaits, Runs
      <3>2. config'[active] = q.config
        BY <1>6, <2>1 DEF SInv, SType
      <3>3. Awaits(p)'
        BY <1>2, <1>4, <1>6, <2>1, <3>1, <3>2 DEF Awaits
      <3> QED
        BY <1>1, <1>3, <2>1, <2>3, <3>3, OnlyOne DEF SInv, OneByOne
    <2> QED
      BY <2>2, <2>3 DEF SInv
  <1> QED
    BY <1>5, <1>6

\* An on_load that ends well leaves the plugin as its row says.
LEMMA LoadedSInv ==
  ASSUME SInv, NEW r \in Requests, Loaded(r),
         troubled => troubled', ~troubled' => OneRequest'
  PROVE  SInv'
  <1> DEFINE q == request[r]
  <1>1. q \in Steps /\ q.at \in {"load", "reload"} /\ q.instance \in Instances /\ q # Idle
    BY DEF Loaded, SInv, SType, Steps, Idle
  <1>2. /\ request' = [request EXCEPT ![r] = Idle]
        /\ UNCHANGED <<row, built, config>>
        /\ active' = IF q.at = "load" THEN q.instance ELSE active
        /\ subs' = Subscribed(q.instance)
    BY DEF Loaded, instVars
  <1>3. SType'
    BY <1>1, <1>2 DEF SInv, SType, Steps
  <1>4. ASSUME ~troubled'
        PROVE  OneByOne'
    <2>1. OneByOne /\ Awaits(q)
      BY <1>4 DEF SInv, OneByOne
    <2>2. active' = q.instance /\ row.enabled /\ config[q.instance] = row.config
      BY <1>1, <1>2, <2>1 DEF Awaits
    <2>3. q.instance # NoInstance
      BY <1>1, Parameters DEF Instances
    <2>4. (Runs /\ Subscribes)'
      BY <1>2, <2>2, <2>3 DEF Runs, Subscribes, Subscribed
    <2> QED
      BY <1>1, <1>2, <1>4, <2>1, <2>4, OnlyOne DEF SInv, OneByOne, Idle, Steps
  <1> QED
    BY <1>3, <1>4 DEF SInv

LEMMA UnloadedSInv ==
  ASSUME SInv, NEW r \in Requests, Unloaded(r),
         troubled => troubled', ~troubled' => OneRequest'
  PROVE  SInv'
  <1> DEFINE q == request[r]
  <1>1. q \in Steps /\ q.at = "unload" /\ q # Idle
    BY DEF Unloaded, SInv, SType, Idle
  <1>2. /\ request' = [request EXCEPT ![r] = Idle]
        /\ UNCHANGED <<row, built, config>>
        /\ active' = NoInstance
        /\ active # NoInstance => subs' = [c \in Cameras |-> {}]
    BY DEF Unloaded, instVars
  <1>3. SType'
    BY <1>2 DEF SInv, SType, Steps
  <1>4. ASSUME ~troubled'
        PROVE  OneByOne'
    <2>1. OneByOne /\ Awaits(q)
      BY <1>4 DEF SInv, OneByOne
    <2>2. row.enabled = FALSE /\ subs' = [c \in Cameras |-> {}]
      BY <1>1, <1>2, <2>1 DEF Awaits, SInv, SType
    <2>3. (Runs /\ Subscribes)'
      BY <1>2, <2>2 DEF Runs, Subscribes
    <2> QED
      BY <1>1, <1>2, <1>4, <2>1, <2>3, OnlyOne DEF SInv, OneByOne, Idle, Steps
  <1> QED
    BY <1>3, <1>4 DEF SInv

LEMMA NextSInv == SInv /\ [Next]_vars => SInv'
  <1> SUFFICES ASSUME SInv, [Next]_vars PROVE SInv'
    OBVIOUS
  <1>1. CASE UNCHANGED vars
    BY <1>1, SInvKept DEF vars, core, instVars
  <1>2. CASE Step /\ troubled' = (troubled \/ Cardinality(Busy') > 1)
    <2>1. troubled => troubled'
      BY <1>2
    <2>2. ~troubled' => OneRequest'
      <3> SUFFICES ASSUME ~troubled' PROVE OneRequest'
        OBVIOUS
      <3>1. IsFiniteSet(Busy')
        BY Parameters, FS_Subset DEF Busy
      <3>2. Cardinality(Busy') \in Nat
        BY <3>1, FS_CardinalityType
      <3>3. ~(Cardinality(Busy') > 1)
        BY <1>2, Zenon
      <3>4. Cardinality(Busy') <= 1
        BY <3>2, <3>3
      <3> QED
        BY <3>1, <3>2, <3>4, FS_EmptySet, FS_Singleton DEF OneRequest
    <2>3. ASSUME NEW r \in Requests, Serve(r)
          PROVE  SInv'
      BY <2>1, <2>2, <2>3, EnableSInv, DisableSInv, ConfigureSInv, LoadedSInv, UnloadedSInv
         DEF Serve
    <2>4. ASSUME NEW c \in Cameras, Frames(c)
          PROVE  SInv'
      BY <2>1, <2>4, SInvKept
         DEF Frames, DispatchFrame, CallOnFrame, EndOnFrame, instVars
    <2> QED
      BY <1>2, <2>1, <2>2, <2>3, <2>4, LoadSInv DEF Step
  <1>3. ASSUME NEW r \in Requests, LoadRaises(r), troubled' = TRUE
        PROVE  SInv'
    BY <1>3 DEF LoadRaises, SInv, SType, instVars, Steps
  <1> QED
    BY <1>1, <1>2, <1>3 DEF Next

(* Requests that follow each other leave the plugin as its row says,       *)
(* running or not, and subscribed to the cameras that its configuration    *)
(* names and to no other, however long the sequence of them is             *)
(* (enable_plugin, disable_plugin, update_plugin_config, PluginRegistry).  *)
THEOREM RequestsAreStored == Spec => []AsStored
  <1>1. SInv => AsStored
    BY DEF SInv, OneByOne, Runs, Subscribes, AsStored, RunsAsStored, SubscribedAsStored
  <1> QED
    BY <1>1, InitSInv, NextSInv, PTL DEF Spec

-----------------------------------------------------------------------------
LEMMA LeastNat ==
  ASSUME NEW T, T \subseteq Nat, T # {}
  PROVE  \E x \in T : \A y \in T : x <= y
  <1>1. PICK x \in T : \A y \in T : ~(<<y, x>> \in OpToRel(<, Nat))
    BY NatLessThanWellFounded, WFMin
  <1>2. \A y \in T : x <= y
    <2> SUFFICES ASSUME NEW y \in T, ~(x <= y) PROVE FALSE
      OBVIOUS
    <2>1. y < x /\ <<y, x>> \in Nat \X Nat
      OBVIOUS
    <2> QED
      BY <1>1, <2>1 DEF OpToRel
  <1> QED
    BY <1>2

\* What every look at an object preserves, Shown preserves: its recursion has
\* a solution for any number of detections, and each follows from the last.
LEMMA ShownSteps ==
  ASSUME NEW o, NEW place, NEW attended, NEW times \in Nat \ {0}, NEW G,
         \A x \in G \cup {o} : Analytic!Advance(Analytic!Upsert(x, place), attended) \in G
  PROVE  /\ Analytic!Shown(o, place, attended, times) \in G
         /\ times = 1 => Analytic!Shown(o, place, attended, times)
                           = Analytic!Advance(Analytic!Upsert(o, place), attended)
  <1> DEFINE Look(x) == Analytic!Advance(Analytic!Upsert(x, place), attended)
             S == {k \in Nat : ~\E f : f = [n \in 0..k |-> IF n = 0 THEN o ELSE Look(f[n - 1])]}
             h == CHOOSE f : f = [n \in 0..times |-> IF n = 0 THEN o ELSE Look(f[n - 1])]
             T == {n \in 1..times : h[n] \notin G}
  <1>91. Analytic!Shown(o, place, attended, times) = h[times]
    BY Zenon DEF Analytic!Shown
  <1>92. \A x \in G \cup {o} : Look(x) \in G
    OBVIOUS
  <1> HIDE DEF Look, h, T
  <1>1. S = {}
    <2> SUFFICES ASSUME S # {} PROVE FALSE
      OBVIOUS
    <2>1. PICK k \in S : \A y \in S : k <= y
      BY LeastNat
    <2>2. CASE k = 0
      <3> DEFINE f == [n \in 0..0 |-> o]
      <3>1. f = [n \in 0..0 |-> IF n = 0 THEN o ELSE Look(f[n - 1])]
        OBVIOUS
      <3> QED
        BY <2>1, <2>2, <3>1
    <2>3. CASE k # 0
      <3>1. k - 1 \in Nat /\ k - 1 \notin S
        <4>1. k \in Nat
          OBVIOUS
        <4> HIDE DEF S
        <4> QED
          BY <2>1, <2>3, <4>1
      <3>2. PICK f : f = [n \in 0..(k - 1) |-> IF n = 0 THEN o ELSE Look(f[n - 1])]
        BY <3>1
      <3> DEFINE g == [n \in 0..k |-> IF n = k THEN Look(f[k - 1]) ELSE f[n]]
      <3>3. ASSUME NEW n \in 0..k
            PROVE  g[n] = IF n = 0 THEN o ELSE Look(g[n - 1])
        <4>1. CASE n = k
          BY <2>1, <2>3, <4>1
        <4>2. CASE n # k
          <5>1. n \in 0..(k - 1) /\ (n # 0 => n - 1 \in 0..(k - 1) /\ n - 1 # k /\ n - 1 \in 0..k)
            BY <2>1, <4>2
          <5>2. f[n] = IF n = 0 THEN o ELSE Look(f[n - 1])
            BY <3>2, <5>1
          <5> QED
            BY <4>2, <5>1, <5>2
        <4> QED
          BY <4>1, <4>2
      <3>4. g = [n \in 0..k |-> IF n = 0 THEN o ELSE Look(g[n - 1])]
        BY <3>3
      <3> QED
        BY <2>1, <3>4
    <2> QED
      BY <2>2, <2>3
  <1>2. h = [n \in 0..times |-> IF n = 0 THEN o ELSE Look(h[n - 1])]
    <2>1. \E f : f = [n \in 0..times |-> IF n = 0 THEN o ELSE Look(f[n - 1])]
      BY <1>1
    <2> QED
      BY <2>1, Zenon DEF h
  <1>4. \A n \in 1..times : n - 1 \in 0..times /\ h[n] = Look(h[n - 1])
    BY <1>2
  <1>5. h[0] = o
    BY <1>2
  <1>6. T = {}
    <2> SUFFICES ASSUME T # {} PROVE FALSE
      OBVIOUS
    <2>1. PICK k \in T : \A y \in T : k <= y
      <3>1. T \subseteq Nat
        BY DEF T
      <3> QED
        BY <3>1, LeastNat
    <2>2. k - 1 = 0 \/ (k - 1 \in 1..times /\ k - 1 \notin T)
      <3>1. k \in 1..times
        BY DEF T
      <3> QED
        BY <2>1, <3>1
    <2>3. h[k - 1] \in G \cup {o}
      BY <1>5, <2>2 DEF T
    <2> QED
      BY <1>92, <1>4, <2>3 DEF T
  <1>7. times = 1 => h[times] = Look(o)
    BY <1>4, <1>5
  <1>8. h[times] \in G
    BY <1>6 DEF T
  <1> QED
    BY <1>91, <1>7, <1>8 DEF Look

\* The same of the detections of a frame.
LEMMA UpdateSteps ==
  ASSUME NEW ts, NEW spots, Len(spots) \in Nat, NEW G,
         [tracks |-> ts, seen |-> <<>>] \in G[0],
         \A n \in 1..Len(spots) : \A x \in G[n - 1] : Analytic!Detect(x, spots[n]) \in G[n]
  PROVE  \E r \in G[Len(spots)] :
           Analytic!Update(ts, spots) = [tracks |-> Analytic!Kept(r.tracks, r.seen), seen |-> r.seen]
  <1> DEFINE o == [tracks |-> ts, seen |-> <<>>]
             times == Len(spots)
             Look(x, n) == Analytic!Detect(x, spots[n])
             S == {k \in Nat : ~\E f : f = [n \in 0..k |-> IF n = 0 THEN o ELSE Look(f[n - 1], n)]}
             h == CHOOSE f : f = [n \in 0..times |-> IF n = 0 THEN o ELSE Look(f[n - 1], n)]
             T == {n \in 0..times : h[n] \notin G[n]}
  <1>1. Analytic!Update(ts, spots) =
          [tracks |-> Analytic!Kept(h[times].tracks, h[times].seen), seen |-> h[times].seen]
    BY Zenon DEF Analytic!Update
  <1>2. o \in G[0] /\ \A n \in 1..times : \A x \in G[n - 1] : Look(x, n) \in G[n]
    OBVIOUS
  <1>3. times \in Nat
    OBVIOUS
  <1> HIDE DEF o, times, Look, h, T
  <1>4. S = {}
    <2> SUFFICES ASSUME S # {} PROVE FALSE
      OBVIOUS
    <2>1. PICK k \in S : \A y \in S : k <= y
      BY LeastNat
    <2>2. CASE k = 0
      <3> DEFINE f == [n \in 0..0 |-> o]
      <3>1. f = [n \in 0..0 |-> IF n = 0 THEN o ELSE Look(f[n - 1], n)]
        OBVIOUS
      <3> QED
        BY <2>1, <2>2, <3>1
    <2>3. CASE k # 0
      <3>1. k - 1 \in Nat /\ k - 1 \notin S
        <4>1. k \in Nat
          OBVIOUS
        <4> HIDE DEF S
        <4> QED
          BY <2>1, <2>3, <4>1
      <3>2. PICK f : f = [n \in 0..(k - 1) |-> IF n = 0 THEN o ELSE Look(f[n - 1], n)]
        BY <3>1
      <3> DEFINE g == [n \in 0..k |-> IF n = k THEN Look(f[k - 1], k) ELSE f[n]]
      <3>3. ASSUME NEW n \in 0..k
            PROVE  g[n] = IF n = 0 THEN o ELSE Look(g[n - 1], n)
        <4>1. CASE n = k
          BY <2>1, <2>3, <4>1
        <4>2. CASE n # k
          <5>1. n \in 0..(k - 1) /\ (n # 0 => n - 1 \in 0..(k - 1) /\ n - 1 # k /\ n - 1 \in 0..k)
            BY <2>1, <4>2
          <5>2. f[n] = IF n = 0 THEN o ELSE Look(f[n - 1], n)
            BY <3>2, <5>1
          <5> QED
            BY <4>2, <5>1, <5>2
        <4> QED
          BY <4>1, <4>2
      <3>4. g = [n \in 0..k |-> IF n = 0 THEN o ELSE Look(g[n - 1], n)]
        BY <3>3
      <3> QED
        BY <2>1, <3>4
    <2> QED
      BY <2>2, <2>3
  <1>5. h = [n \in 0..times |-> IF n = 0 THEN o ELSE Look(h[n - 1], n)]
    <2>1. \E f : f = [n \in 0..times |-> IF n = 0 THEN o ELSE Look(f[n - 1], n)]
      BY <1>3, <1>4
    <2> QED
      BY <2>1, Zenon DEF h
  <1>6. h[0] = o /\ \A n \in 1..times : n - 1 \in 0..times /\ h[n] = Look(h[n - 1], n)
    BY <1>3, <1>5
  <1>7. T = {}
    <2> SUFFICES ASSUME T # {} PROVE FALSE
      OBVIOUS
    <2>1. PICK k \in T : \A y \in T : k <= y
      <3>1. T \subseteq Nat
        BY DEF T
      <3> QED
        BY <3>1, LeastNat
    <2>2. k \in 0..times /\ h[k] \notin G[k]
      BY DEF T
    <2>3. k # 0
      BY <1>2, <1>6, <2>2
    <2>4. k \in 1..times /\ k - 1 \in 0..times /\ k - 1 \notin T
      BY <1>3, <2>1, <2>2, <2>3
    <2>5. h[k - 1] \in G[k - 1]
      BY <2>4 DEF T
    <2> QED
      BY <1>2, <1>6, <2>2, <2>4, <2>5
  <1>8. h[times] \in G[times]
    BY <1>3, <1>7 DEF T
  <1> QED
    BY <1>1, <1>8 DEF times

Keep(ts, seen) == {i \in DOMAIN ts : Analytic!Contains(seen, ts[i].id)}

\* What Kept returns: the tracks of Keep, each once; all of them in their order.
Enumerates(f, ts, seen) ==
  /\ Cardinality(Keep(ts, seen)) \in Nat
  /\ f \in Bijection(1..Cardinality(Keep(ts, seen)), Keep(ts, seen))
  /\ Analytic!Kept(ts, seen) = [n \in 1..Cardinality(Keep(ts, seen)) |-> ts[f[n]]]
  /\ Keep(ts, seen) = DOMAIN ts =>
       Cardinality(Keep(ts, seen)) = Len(ts) /\ \A i \in DOMAIN ts : f[i] = i

LEMMA KeptTracks ==
  ASSUME NEW R, NEW ts \in Seq(R), NEW seen
  PROVE  \E f : Enumerates(f, ts, seen)
  <1> DEFINE keep == Keep(ts, seen)
             upTo(i) == Cardinality({j \in keep : j <= i})
             f == [n \in 1..Cardinality(keep) |-> CHOOSE i \in keep : upTo(i) = n]
             u == [i \in keep |-> upTo(i)]
  <1>1. \A S : Analytic!Cardinality(S) = Cardinality(S)
    BY Zenon DEF Analytic!Cardinality, Cardinality
  <1>2. keep \subseteq 1..Len(ts) /\ keep \subseteq Nat /\ Len(ts) \in Nat
    BY DEF Keep
  <1> HIDE DEF keep
  <1>3. IsFiniteSet(keep) /\ Cardinality(keep) \in Nat
    <2>1. IsFiniteSet(1..Len(ts))
      BY <1>2, FS_Interval
    <2>2. IsFiniteSet(keep)
      BY <1>2, <2>1, FS_Subset
    <2> QED
      BY <2>2, FS_CardinalityType
  <1>4. ASSUME NEW i \in keep
        PROVE  upTo(i) \in 1..Cardinality(keep)
    <2> DEFINE below == {j \in keep : j <= i}
    <2>1. IsFiniteSet(below) /\ Cardinality(below) <= Cardinality(keep)
      BY <1>3, FS_Subset
    <2>2. i \in below
      BY <1>2
    <2>3. Cardinality(below) # 0 /\ Cardinality(below) \in Nat
      BY <2>1, <2>2, FS_EmptySet, FS_CardinalityType
    <2> QED
      BY <1>3, <2>1, <2>3
  <1>5. ASSUME NEW i \in keep, NEW j \in keep, i < j
        PROVE  upTo(i) < upTo(j)
    <2> DEFINE bi == {l \in keep : l <= i}
               bj == {l \in keep : l <= j}
    <2>1. IsFiniteSet(bj) /\ bi \in SUBSET bj
      <3>1. bj \in SUBSET keep
        OBVIOUS
      <3>2. IsFiniteSet(bj)
        BY <1>3, <3>1, FS_Subset
      <3>3. \A l \in keep : l <= i => l <= j
        BY <1>2, <1>5
      <3> QED
        BY <3>2, <3>3
    <2>2. j \in bj /\ j \notin bi
      BY <1>2, <1>5
    <2>3. bi # bj /\ Cardinality(bi) <= Cardinality(bj) /\ (Cardinality(bj) = Cardinality(bi) => bi = bj)
      BY <2>1, <2>2, FS_Subset
    <2>4. upTo(i) \in Nat /\ upTo(j) \in Nat
      BY <1>4
    <2> QED
      BY <2>3, <2>4
  <1>6. u \in Injection(keep, 1..Cardinality(keep))
    <2>1. u \in [keep -> 1..Cardinality(keep)]
      BY <1>4
    <2>2. \A i, j \in keep : u[i] = u[j] => i = j
      <3> SUFFICES ASSUME NEW i \in keep, NEW j \in keep, u[i] = u[j], i # j
                   PROVE  FALSE
        OBVIOUS
      <3>1. upTo(i) \in Nat /\ upTo(j) \in Nat /\ upTo(i) = upTo(j)
        BY <1>4
      <3>2. i < j \/ j < i
        BY <1>2
      <3> QED
        <4>1. i < j => upTo(i) < upTo(j)
          BY <1>5
        <4>2. j < i => upTo(j) < upTo(i)
          BY <1>5
        <4> HIDE DEF upTo
        <4> QED
          BY <3>1, <3>2, <4>1, <4>2
    <2> HIDE DEF u
    <2> QED
      BY <2>1, <2>2, Zenon DEF Injection, IsInjective
  <1>7. u \in Surjection(keep, 1..Cardinality(keep))
    <2>1. IsFiniteSet(1..Cardinality(keep)) /\ Cardinality(1..Cardinality(keep)) = Cardinality(keep)
      BY <1>3, FS_Interval
    <2> QED
      BY <1>6, <2>1, FS_Injection
  <1>8. \A n \in 1..Cardinality(keep) : \E i \in keep : upTo(i) = n
    BY <1>7 DEF Surjection
  <1>9. \A n \in 1..Cardinality(keep) : f[n] \in keep /\ upTo(f[n]) = n
    <2> HIDE DEF upTo
    <2> QED
      BY <1>8
  <1>10. f \in Injection(1..Cardinality(keep), keep)
    <2>1. f \in [1..Cardinality(keep) -> keep]
      BY <1>9
    <2>2. \A m, n \in 1..Cardinality(keep) : f[m] = f[n] => m = n
      <3> SUFFICES ASSUME NEW m \in 1..Cardinality(keep), NEW n \in 1..Cardinality(keep), f[m] = f[n]
                   PROVE  m = n
        OBVIOUS
      <3>1. upTo(f[m]) = m /\ upTo(f[n]) = n
        BY <1>9
      <3> HIDE DEF f, upTo
      <3> QED
        BY <3>1
    <2> HIDE DEF f
    <2> QED
      BY <2>1, <2>2, Zenon DEF Injection, IsInjective
  <1>11. \A i, j \in keep : upTo(i) = upTo(j) => i = j
    <2>1. \A i, j \in keep : u[i] = u[j] => i = j
      BY <1>6 DEF Injection, IsInjective
    <2> HIDE DEF upTo
    <2> QED
      BY <2>1
  <1>12. f \in Surjection(1..Cardinality(keep), keep)
    <2>1. \A i \in keep : upTo(i) \in 1..Cardinality(keep) /\ f[upTo(i)] = i
      <3> HIDE DEF upTo
      <3>1. \A i \in keep : upTo(i) \in 1..Cardinality(keep)
        BY <1>4
      <3>2. \A i \in keep : f[upTo(i)] \in keep /\ upTo(f[upTo(i)]) = upTo(i)
        BY <1>9, <3>1
      <3> HIDE DEF f
      <3> QED
        BY <1>11, <3>1, <3>2
    <2>2. f \in [1..Cardinality(keep) -> keep]
      BY <1>9
    <2> HIDE DEF f, upTo
    <2> QED
      BY <2>1, <2>2 DEF Surjection
  <1>90. keep = DOMAIN ts => Cardinality(keep) = Len(ts)
    <2> SUFFICES ASSUME keep = 1..Len(ts) PROVE Cardinality(keep) = Len(ts)
      OBVIOUS
    <2>1. 1 \in Int /\ Len(ts) \in Int
      BY <1>2
    <2>2. Cardinality(1..Len(ts)) = IF 1 > Len(ts) THEN 0 ELSE Len(ts) - 1 + 1
      BY <2>1, FS_Interval
    <2> QED
      BY <1>2, <2>2
  <1>13. keep = DOMAIN ts => \A i \in DOMAIN ts : f[i] = i
    <2> SUFFICES ASSUME keep = DOMAIN ts, NEW i \in DOMAIN ts
                 PROVE  f[i] = i
      OBVIOUS
    <2>1. \A j \in 1..Len(ts) : {l \in keep : l <= j} = 1..j
      BY <1>2
    <2>2. \A j \in 1..Len(ts) : Cardinality(1..j) = j
      BY <1>2, FS_Interval
    <2>3. \A j \in 1..Len(ts) : upTo(j) = j
      BY <2>1, <2>2
    <2>4. i \in keep /\ i \in 1..Cardinality(keep)
      <3>1. keep = 1..Len(ts)
        OBVIOUS
      <3>2. Cardinality(keep) = Len(ts)
        BY <1>90
      <3> QED
        BY <1>2, <3>1, <3>2
    <2>5. f[i] \in 1..Len(ts) /\ upTo(f[i]) = i
      BY <1>9, <2>4, <1>2
    <2> HIDE DEF f, upTo
    <2> QED
      BY <2>3, <2>5
  <1>14. Analytic!Kept(ts, seen) = [n \in 1..Cardinality(keep) |-> ts[f[n]]]
    <2> DEFINE old(i) == Analytic!Cardinality({j \in keep : j <= i})
    <2>1. Analytic!Kept(ts, seen) =
            [n \in 1..Analytic!Cardinality(keep) |-> ts[CHOOSE i \in keep : old(i) = n]]
      BY Zenon DEF Analytic!Kept, keep, Keep
    <2>2. Analytic!Cardinality(keep) = Cardinality(keep) /\ \A i : old(i) = upTo(i)
      BY <1>1
    <2> HIDE DEF old, upTo
    <2>3. ASSUME NEW n \in 1..Cardinality(keep)
          PROVE  (CHOOSE i \in keep : old(i) = n) = f[n]
      <3>1. f[n] \in keep /\ upTo(f[n]) = n
        BY <1>9
      <3> HIDE DEF f
      <3>2. PICK i : i = CHOOSE j \in keep : old(j) = n
        OBVIOUS
      <3>3. i \in keep /\ old(i) = n
        BY <2>2, <3>1, <3>2, Zenon
      <3> QED
        BY <1>11, <2>2, <3>1, <3>2, <3>3
    <2> HIDE DEF f
    <2> QED
      BY <2>1, <2>2, <2>3
  <1>15. f \in Bijection(1..Cardinality(keep), keep)
    BY <1>10, <1>12 DEF Bijection
  <1> HIDE DEF f
  <1> QED
    BY <1>90, <1>3, <1>13, <1>14, <1>15 DEF keep, Enumerates

-----------------------------------------------------------------------------
Track == [id : Nat \ {0}, place : Places]

Distinct(ts) == \A i, j \in DOMAIN ts : ts[i].id = ts[j].id => i = j

Tracks == {ts \in Seq(Track) : Distinct(ts)}

LEMMA ElementOf ==
  ASSUME NEW R, NEW s \in Seq(R), NEW i \in DOMAIN s
  PROVE  s[i] \in R
  OBVIOUS

LEMMA TrackFields ==
  ASSUME NEW ts \in Tracks, NEW i \in DOMAIN ts
  PROVE  /\ ts[i] \in Track /\ ts[i].id \in Nat \ {0}
         /\ ts[i].place \in Places /\ ts[i].place \in Int
  <1>1. ts[i] \in Track
    BY ElementOf DEF Tracks
  <1>2. Places \subseteq Int
    BY AnalyticParameters DEF Analytic!Parameters
  <1> QED
    BY <1>1, <1>2 DEF Track

\* One of the nearest tracks is the first of them.
LEMMA NearestIsClose ==
  ASSUME NEW ts \in Tracks, NEW p \in Places, Analytic!Close(ts, p) # {}
  PROVE  Analytic!Nearest(ts, p) \in Analytic!Close(ts, p)
  <1> DEFINE close == Analytic!Close(ts, p)
             away(i) == Analytic!Distance(ts[i].place, p)
             D == {away(i) : i \in close}
  <1>1. p \in Int
    BY AnalyticParameters DEF Analytic!Parameters
  <1>2. \A i \in close : i \in DOMAIN ts /\ i \in Nat /\ away(i) \in Nat
    BY <1>1, TrackFields DEF Analytic!Close, Analytic!Distance, Tracks
  <1> HIDE DEF away, close
  <1>3. D # {} /\ D \subseteq Nat
    BY <1>2 DEF close
  <1>4. PICK d \in D : \A e \in D : d <= e
    BY <1>3, LeastNat
  <1> DEFINE I == {i \in close : away(i) = d}
  <1>5. I # {} /\ I \subseteq Nat
    BY <1>2
  <1>6. PICK i \in I : \A j \in I : i <= j
    BY <1>5, LeastNat
  <1>7. i \in close /\ \A j \in close : away(i) < away(j) \/ (away(i) = away(j) /\ i <= j)
    BY <1>2, <1>4, <1>6
  <1>8. \E k \in close : \A j \in close : away(k) < away(j) \/ (away(k) = away(j) /\ k <= j)
    BY <1>7
  <1> QED
    BY <1>8, Zenon DEF Analytic!Nearest, close, away

\* What a detection does: the track of its id moves, or there is a new one.
Detects(ts, seen, p, id, new) ==
  /\ id = Analytic!IdOf(ts, p)
  /\ Analytic!Detect([tracks |-> ts, seen |-> seen], p) =
       [tracks |-> new, seen |-> Append(seen, id)]
  /\ \/ \E k \in DOMAIN ts :
          ts[k].id = id /\ new = [ts EXCEPT ![k] = [id |-> id, place |-> p]]
     \/ /\ id = Len(ts) + 1 /\ Analytic!Close(ts, p) = {}
        /\ \A k \in DOMAIN ts : ts[k].id # id
        /\ new = Append(ts, [id |-> id, place |-> p])

LEMMA Detected ==
  ASSUME NEW ts \in Tracks, NEW seen, NEW p \in Places
  PROVE  \E id \in Nat \ {0}, new \in Tracks : Detects(ts, seen, p, id, new)
  <1> DEFINE id == Analytic!IdOf(ts, p)
             new == Analytic!Detect([tracks |-> ts, seen |-> seen], p).tracks
             at == [id |-> id, place |-> p]
  <1>1. id = Analytic!IdOf(ts, p)
    OBVIOUS
  <1>2. at = [id |-> id, place |-> p]
    OBVIOUS
  <1>3. id \in Nat \ {0} /\ ((id = Len(ts) + 1 /\ Analytic!Close(ts, p) = {}) \/ \E k \in DOMAIN ts : ts[k].id = id)
    <2>1. CASE Analytic!Close(ts, p) # {}
      <3>1. Analytic!Nearest(ts, p) \in DOMAIN ts /\ id = ts[Analytic!Nearest(ts, p)].id
        BY <2>1, NearestIsClose DEF Analytic!IdOf, Analytic!Close
      <3> QED
        BY <3>1, TrackFields
    <2>2. CASE Analytic!Close(ts, p) = {}
      BY <2>2 DEF Analytic!IdOf, Tracks
    <2> QED
      BY <2>1, <2>2
  <1>4. Analytic!Detect([tracks |-> ts, seen |-> seen], p) = [tracks |-> new, seen |-> Append(seen, id)]
    BY DEF Analytic!Detect
  <1>5. new = IF \E k \in DOMAIN ts : ts[k].id = id
              THEN [i \in DOMAIN ts |-> IF ts[i].id = id THEN at ELSE ts[i]] ELSE Append(ts, at)
    BY DEF Analytic!Detect, Analytic!Has
  <1> HIDE DEF id, new
  <1>6. at \in Track /\ ts \in Seq(Track) /\ at.id = id
    BY <1>3 DEF Track, Tracks
  <1> DEFINE Goal ==
        /\ new \in Tracks
        /\ \/ \E k \in DOMAIN ts : ts[k].id = id /\ new = [ts EXCEPT ![k] = at]
           \/ /\ id = Len(ts) + 1 /\ Analytic!Close(ts, p) = {}
              /\ \A k \in DOMAIN ts : ts[k].id # id
              /\ new = Append(ts, at)
  <1>7. ASSUME \E k \in DOMAIN ts : ts[k].id = id
        PROVE  Goal
    <2>1. PICK k \in DOMAIN ts : ts[k].id = id
      BY <1>7
    <2>2. \A i \in DOMAIN ts : ts[i].id = id <=> i = k
      BY <2>1 DEF Tracks, Distinct
    <2>3. new = [i \in DOMAIN ts |-> IF ts[i].id = id THEN at ELSE ts[i]]
      BY <1>5, <1>7
    <2>4. new = [i \in DOMAIN ts |-> IF i = k THEN at ELSE ts[i]]
      BY <2>2, <2>3
    <2>5. new = [ts EXCEPT ![k] = at]
      BY <1>6, <2>4
    <2>6. new \in Seq(Track)
      BY <1>6, <2>5
    <2>7. Distinct(new)
      <3>1. DOMAIN new = DOMAIN ts /\ \A i \in DOMAIN ts : new[i].id = ts[i].id
        BY <1>6, <2>1, <2>4
      <3> QED
        BY <3>1 DEF Distinct, Tracks
    <2> QED
      BY <2>1, <2>5, <2>6, <2>7 DEF Tracks
  <1>8. ASSUME ~\E k \in DOMAIN ts : ts[k].id = id
        PROVE  Goal
    <2>1. new = Append(ts, at)
      BY <1>5, <1>8
    <2>2. new \in Seq(Track)
      BY <1>6, <2>1
    <2>3. DOMAIN ts = 1..Len(ts) /\ DOMAIN new = 1..(Len(ts) + 1) /\ Len(ts) \in Nat
      BY <1>6, <2>1
    <2>4. \A i \in DOMAIN new : IF i = Len(ts) + 1 THEN new[i] = at
                                ELSE i \in DOMAIN ts /\ new[i] = ts[i]
      BY <1>6, <2>1, <2>3
    <2>5. \A i \in DOMAIN new : new[i].id = IF i = Len(ts) + 1 THEN id ELSE ts[i].id
      BY <1>6, <2>4
    <2>6. Distinct(new)
      BY <1>8, <2>3, <2>4, <2>5 DEF Distinct, Tracks
    <2> QED
      BY <1>3, <1>8, <2>1, <2>2, <2>6 DEF Tracks
  <1>9. Goal
    BY <1>7, <1>8
  <1>10. /\ id \in Nat \ {0} /\ new \in Tracks
         /\ \/ \E k \in DOMAIN ts :
                 ts[k].id = id /\ new = [ts EXCEPT ![k] = [id |-> id, place |-> p]]
            \/ /\ id = Len(ts) + 1 /\ Analytic!Close(ts, p) = {}
               /\ \A k \in DOMAIN ts : ts[k].id # id
               /\ new = Append(ts, [id |-> id, place |-> p])
    BY <1>2, <1>3, <1>9, Zenon
  <1> QED
    BY <1>1, <1>4, <1>10, Zenon DEF Detects

\* The tracks and ids after n detections: every id has a track, which is at
\* the last detection of that id, and no id is above the bound.
After(ts, spots, bound, n, now, seen) ==
  /\ Len(seen) = n /\ Len(now) <= Len(ts) + n
  /\ \A i \in DOMAIN now : now[i].id <= bound
  /\ \A m \in 1..n :
       /\ \E i \in DOMAIN now : now[i].id = seen[m]
       /\ (\A l \in (m + 1)..n : seen[l] # seen[m]) =>
            \E i \in DOMAIN now : now[i] = [id |-> seen[m], place |-> spots[m]]

Reached(ts, spots, bound, n) ==
  {r \in [tracks : Tracks, seen : Seq(Nat \ {0})] : After(ts, spots, bound, n, r.tracks, r.seen)}

LEMMA ReachedStep ==
  ASSUME NEW ts \in Tracks, NEW spots \in Seq(Places), NEW bound \in Nat,
         Len(ts) + Len(spots) <= bound,
         NEW n \in 1..Len(spots), NEW x \in Reached(ts, spots, bound, n - 1)
  PROVE  Analytic!Detect(x, spots[n]) \in Reached(ts, spots, bound, n)
  <1> DEFINE p == spots[n]
  <1> USE DEF After
  <1>1. /\ x \in [tracks : Tracks, seen : Seq(Nat \ {0})]
        /\ Len(x.seen) = n - 1 /\ Len(x.tracks) <= Len(ts) + n - 1
        /\ \A i \in DOMAIN x.tracks : x.tracks[i].id <= bound
    BY DEF Reached, Tracks
  <1>2. \A m \in 1..(n - 1) :
          /\ \E i \in DOMAIN x.tracks : x.tracks[i].id = x.seen[m]
          /\ (\A l \in (m + 1)..(n - 1) : x.seen[l] # x.seen[m]) =>
               \E i \in DOMAIN x.tracks : x.tracks[i] = [id |-> x.seen[m], place |-> spots[m]]
    BY DEF Reached
  <1>3. p \in Places /\ n \in Nat /\ n >= 1 /\ n <= Len(spots) /\ Len(spots) \in Nat /\ Len(ts) \in Nat
    BY DEF Tracks
  <1>4. x = [tracks |-> x.tracks, seen |-> x.seen] /\ x.tracks \in Tracks /\ x.seen \in Seq(Nat \ {0})
    BY <1>1
  <1> HIDE DEF After, p
  <1>5. PICK id \in Nat \ {0}, new \in Tracks : Detects(x.tracks, x.seen, p, id, new)
    BY <1>3, <1>4, Detected
  <1> DEFINE seen == Append(x.seen, id)
             r == [tracks |-> new, seen |-> seen]
  <1>6. /\ seen \in Seq(Nat \ {0}) /\ Len(seen) = n /\ seen[n] = id
        /\ \A m \in 1..(n - 1) : seen[m] = x.seen[m]
    BY <1>1, <1>3, <1>4
  <1>7. /\ Len(new) \in Nat /\ Len(new) <= Len(ts) + n
        /\ \A i \in DOMAIN new : new[i].id <= bound
        /\ \E i \in DOMAIN new : new[i] = [id |-> id, place |-> p]
        /\ \A i \in DOMAIN x.tracks :
             /\ i \in DOMAIN new /\ new[i].id = x.tracks[i].id
             /\ x.tracks[i].id # id => new[i] = x.tracks[i]
    <2>1. x.tracks \in Seq(Track) /\ Len(x.tracks) \in Nat
      BY <1>4 DEF Tracks
    <2>2. CASE \E k \in DOMAIN x.tracks :
                  x.tracks[k].id = id /\ new = [x.tracks EXCEPT ![k] = [id |-> id, place |-> p]]
      <3>1. PICK k \in DOMAIN x.tracks :
                  x.tracks[k].id = id /\ new = [x.tracks EXCEPT ![k] = [id |-> id, place |-> p]]
        BY <2>2
      <3>2. /\ DOMAIN new = DOMAIN x.tracks /\ Len(new) = Len(x.tracks)
            /\ new[k] = [id |-> id, place |-> p] /\ new[k].id = id
            /\ \A i \in DOMAIN x.tracks : i # k => new[i] = x.tracks[i]
        BY <2>1, <3>1
      <3>3. \A i \in DOMAIN x.tracks : new[i].id = x.tracks[i].id
        BY <3>1, <3>2
      <3> QED
        BY <1>1, <1>3, <2>1, <3>1, <3>2, <3>3
    <2>3. CASE /\ id = Len(x.tracks) + 1
               /\ \A k \in DOMAIN x.tracks : x.tracks[k].id # id
               /\ new = Append(x.tracks, [id |-> id, place |-> p])
      <3>1. /\ DOMAIN new = 1..(Len(x.tracks) + 1) /\ Len(new) = Len(x.tracks) + 1
            /\ DOMAIN x.tracks = 1..Len(x.tracks)
            /\ new[Len(x.tracks) + 1] = [id |-> id, place |-> p]
            /\ \A i \in DOMAIN x.tracks : new[i] = x.tracks[i]
        BY <2>1, <2>3
      <3>2. id <= bound
        BY <1>1, <1>3, <2>1, <2>3
      <3>3. \A i \in DOMAIN new : i = Len(x.tracks) + 1 \/ i \in DOMAIN x.tracks
        BY <2>1, <3>1
      <3>4. \A i \in DOMAIN new : new[i].id <= bound
        BY <1>1, <2>3, <3>1, <3>2, <3>3
      <3>5. Len(x.tracks) + 1 \in DOMAIN new /\ \A i \in DOMAIN x.tracks : i \in DOMAIN new
        BY <2>1, <3>1
      <3>6. Len(new) \in Nat /\ Len(new) <= Len(ts) + n
        BY <1>1, <1>3, <2>1, <3>1
      <3> QED
        BY <3>1, <3>4, <3>5, <3>6
    <2> QED
      BY <1>5, <2>2, <2>3 DEF Detects
  <1> HIDE DEF seen
  <1>8. ASSUME NEW m \in 1..n
        PROVE  \E i \in DOMAIN new : new[i].id = seen[m]
    <2>1. CASE m = n
      BY <1>6, <1>7, <2>1
    <2>2. CASE m # n
      <3>1. m \in 1..(n - 1)
        BY <1>3, <2>2
      <3>2. PICK i \in DOMAIN x.tracks : x.tracks[i].id = x.seen[m]
        BY <1>2, <3>1
      <3> QED
        BY <1>6, <1>7, <3>1, <3>2
    <2> QED
      BY <2>1, <2>2
  <1>9. ASSUME NEW m \in 1..n, \A l \in (m + 1)..n : seen[l] # seen[m]
        PROVE  \E i \in DOMAIN new : new[i] = [id |-> seen[m], place |-> spots[m]]
    <2>1. CASE m = n
      BY <1>6, <1>7, <2>1 DEF p
    <2>2. CASE m # n
      <3>1. m \in 1..(n - 1) /\ n \in (m + 1)..n
        BY <1>3, <2>2
      <3>2. \A l \in (m + 1)..(n - 1) : l \in (m + 1)..n /\ l \in 1..(n - 1)
        BY <1>3, <3>1
      <3>3. \A l \in (m + 1)..(n - 1) : x.seen[l] # x.seen[m]
        BY <1>6, <1>9, <3>1, <3>2
      <3>4. PICK i \in DOMAIN x.tracks : x.tracks[i] = [id |-> x.seen[m], place |-> spots[m]]
        BY <1>2, <3>1, <3>3
      <3>5. x.tracks[i].id # id
        BY <1>6, <1>9, <3>1, <3>4
      <3> QED
        BY <1>6, <1>7, <3>1, <3>4, <3>5
    <2> QED
      BY <2>1, <2>2
  <1>10. r \in [tracks : Tracks, seen : Seq(Nat \ {0})] /\ r.tracks = new /\ r.seen = seen
    BY <1>6
  <1> HIDE DEF r
  <1>11. r \in Reached(ts, spots, bound, n)
    <2>1. After(ts, spots, bound, n, new, seen)
      BY <1>6, <1>7, <1>8, <1>9 DEF After
    <2> QED
      BY <1>10, <2>1 DEF Reached
  <1>12. Analytic!Detect(x, p) = r
    BY <1>4, <1>5 DEF r, seen, Detects
  <1> QED
    BY <1>11, <1>12 DEF p

\* The tracks that were seen are as many as the detections, at most.
LEMMA KeptIs ==
  ASSUME NEW ts \in Tracks, NEW seen \in Seq(Nat \ {0})
  PROVE  LET kept == Analytic!Kept(ts, seen)
         IN /\ kept \in Tracks /\ Len(kept) <= Len(seen)
            /\ \A i \in DOMAIN kept : \E j \in Keep(ts, seen) : kept[i] = ts[j]
            /\ \A j \in Keep(ts, seen) : \E i \in DOMAIN kept : kept[i] = ts[j]
            /\ Keep(ts, seen) = DOMAIN ts => kept = ts
            /\ Keep(ts, seen) = {} => kept = <<>>
  <1> DEFINE keep == Keep(ts, seen)
             kept == Analytic!Kept(ts, seen)
             m == Cardinality(keep)
  <1>1. ts \in Seq(Track) /\ keep \subseteq DOMAIN ts /\ DOMAIN ts = 1..Len(ts) /\ Len(ts) \in Nat
    BY DEF Tracks, Keep
  <1>2. \A j \in keep : \E n \in 1..Len(seen) : seen[n] = ts[j].id
    BY DEF Keep, Analytic!Contains
  <1>3. PICK f : Enumerates(f, ts, seen)
    BY <1>1, KeptTracks
  <1>91. /\ m \in Nat /\ f \in Bijection(1..m, keep)
         /\ kept = [n \in 1..m |-> ts[f[n]]]
         /\ keep = DOMAIN ts => m = Len(ts) /\ \A i \in DOMAIN ts : f[i] = i
    BY <1>3 DEF Enumerates
  <1> HIDE DEF keep, kept
  <1>4. m <= Len(seen)
    <2> DEFINE g == [j \in keep |-> CHOOSE n \in 1..Len(seen) : seen[n] = ts[j].id]
    <2>1. \A j \in keep : g[j] \in 1..Len(seen) /\ seen[g[j]] = ts[j].id
      BY <1>2
    <2>2. g \in [keep -> 1..Len(seen)]
      BY <2>1
    <2> HIDE DEF g
    <2>3. \A i, j \in keep : g[i] = g[j] => i = j
      BY <1>1, <2>1 DEF Tracks, Distinct
    <2>4. g \in Injection(keep, 1..Len(seen))
      BY <2>2, <2>3, Zenon DEF Injection, IsInjective
    <2>5. IsFiniteSet(1..Len(seen)) /\ Cardinality(1..Len(seen)) = Len(seen)
      <3>1. 1 \in Int /\ Len(seen) \in Int /\ Len(seen) \in Nat
        OBVIOUS
      <3>2. /\ IsFiniteSet(1..Len(seen))
            /\ Cardinality(1..Len(seen)) = IF 1 > Len(seen) THEN 0 ELSE Len(seen) - 1 + 1
        BY <3>1, FS_Interval
      <3> QED
        BY <3>1, <3>2
    <2> QED
      BY <2>4, <2>5, FS_Injection
  <1> HIDE DEF m
  <1>5. /\ f \in [1..m -> keep] /\ \A a, b \in 1..m : f[a] = f[b] => a = b
        /\ \A j \in keep : \E n \in 1..m : f[n] = j
    BY <1>91 DEF Bijection, Injection, Surjection, IsInjective
  <1>6. \A n \in 1..m : f[n] \in keep /\ f[n] \in DOMAIN ts /\ ts[f[n]] \in Track /\ kept[n] = ts[f[n]]
    BY <1>1, <1>91, <1>5, ElementOf
  <1>7. kept \in Seq(Track) /\ Len(kept) = m /\ DOMAIN kept = 1..m
    BY <1>91, <1>6
  <1>8. Distinct(kept)
    <2> SUFFICES ASSUME NEW a \in 1..m, NEW b \in 1..m, kept[a].id = kept[b].id
                 PROVE  a = b
      BY <1>7 DEF Distinct
    <2>1. f[a] = f[b]
      BY <1>6 DEF Tracks, Distinct
    <2> QED
      BY <1>5, <2>1
  <1>9. keep = DOMAIN ts => kept = ts
    <2> SUFFICES ASSUME keep = DOMAIN ts PROVE kept = ts
      OBVIOUS
    <2>1. m = Len(ts) /\ \A i \in DOMAIN ts : f[i] = i
      BY <1>91
    <2>2. \A i \in DOMAIN ts : kept[i] = ts[i]
      BY <1>1, <1>6, <2>1
    <2> QED
      BY <1>1, <1>7, <2>1, <2>2
  <1>10. keep = {} => kept = <<>>
    <2> SUFFICES ASSUME keep = {} PROVE kept = <<>>
      OBVIOUS
    <2>1. 1 \notin 1..m
      BY <1>6
    <2>2. Len(kept) = 0
      BY <1>91, <1>7, <2>1
    <2> QED
      BY <1>7, <2>2
  <1>11. \A i \in 1..m : \E j \in keep : kept[i] = ts[j]
    BY <1>6
  <1>12. \A j \in keep : \E i \in 1..m : kept[i] = ts[j]
    BY <1>5, <1>6
  <1>13. kept \in Tracks
    BY <1>7, <1>8 DEF Tracks
  <1> QED
    BY <1>4, <1>7, <1>9, <1>10, <1>11, <1>12, <1>13 DEF keep, kept

\* What a frame makes of the detections of a class.
Tracked(spots, bound, now, seen) ==
  /\ now \in Tracks /\ Len(now) <= Len(spots)
  /\ seen \in Seq(Nat \ {0}) /\ Len(seen) = Len(spots)
  /\ \A i \in DOMAIN now : now[i].id <= bound /\ \E n \in 1..Len(spots) : seen[n] = now[i].id
  /\ \A n \in 1..Len(spots) :
       /\ seen[n] <= bound
       /\ \E i \in DOMAIN now : now[i].id = seen[n]
       /\ (\A l \in (n + 1)..Len(spots) : seen[l] # seen[n]) =>
            \E i \in DOMAIN now : now[i] = [id |-> seen[n], place |-> spots[n]]

LEMMA Updated ==
  ASSUME NEW ts \in Tracks, NEW spots \in Seq(Places), NEW bound \in Nat,
         Len(ts) + Len(spots) <= bound, \A i \in DOMAIN ts : ts[i].id <= bound
  PROVE  LET u == Analytic!Update(ts, spots) IN Tracked(spots, bound, u.tracks, u.seen)
  <1> DEFINE G == [n \in 0..Len(spots) |-> Reached(ts, spots, bound, n)]
             u == Analytic!Update(ts, spots)
  <1>1. Len(spots) \in Nat
    OBVIOUS
  <1>2. [tracks |-> ts, seen |-> <<>>] \in G[0]
    <2>1. After(ts, spots, bound, 0, ts, <<>>)
      BY DEF After, Tracks
    <2> QED
      BY <1>1, <2>1 DEF Reached
  <1>3. ASSUME NEW n \in 1..Len(spots), NEW x \in G[n - 1]
        PROVE  Analytic!Detect(x, spots[n]) \in G[n]
    <2>1. n - 1 \in 0..Len(spots) /\ n \in 0..Len(spots)
      BY <1>1
    <2>2. x \in Reached(ts, spots, bound, n - 1)
      BY <1>3, <2>1
    <2> QED
      BY <2>1, <2>2, ReachedStep
  <1>4. \E r \in G[Len(spots)] :
          u = [tracks |-> Analytic!Kept(r.tracks, r.seen), seen |-> r.seen]
    <2> HIDE DEF G
    <2> QED
      BY <1>1, <1>2, <1>3, UpdateSteps
  <1>5. PICK r \in Reached(ts, spots, bound, Len(spots)) :
          u = [tracks |-> Analytic!Kept(r.tracks, r.seen), seen |-> r.seen]
    BY <1>1, <1>4
  <1> HIDE DEF G
  <1>6. /\ r.tracks \in Tracks /\ r.seen \in Seq(Nat \ {0})
        /\ After(ts, spots, bound, Len(spots), r.tracks, r.seen)
    BY DEF Reached
  <1> DEFINE kept == Analytic!Kept(r.tracks, r.seen)
  <1>7. /\ kept \in Tracks /\ Len(kept) <= Len(r.seen)
        /\ \A i \in DOMAIN kept : \E j \in Keep(r.tracks, r.seen) : kept[i] = r.tracks[j]
        /\ \A j \in Keep(r.tracks, r.seen) : \E i \in DOMAIN kept : kept[i] = r.tracks[j]
    BY <1>6, KeptIs
  <1>8. u.tracks = kept /\ u.seen = r.seen
    BY <1>5
  <1> HIDE DEF u, kept
  <1>9. /\ DOMAIN r.seen = 1..Len(spots) /\ Len(r.seen) = Len(spots)
        /\ Keep(r.tracks, r.seen) =
             {i \in DOMAIN r.tracks : \E n \in 1..Len(spots) : r.seen[n] = r.tracks[i].id}
    <2>1. Len(r.seen) = Len(spots) /\ DOMAIN r.seen = 1..Len(r.seen)
      BY <1>6 DEF After
    <2> QED
      BY <2>1 DEF Keep, Analytic!Contains
  <1>10. ASSUME NEW i \in DOMAIN kept
         PROVE  kept[i].id <= bound /\ \E n \in DOMAIN r.seen : r.seen[n] = kept[i].id
    <2>1. PICK j \in Keep(r.tracks, r.seen) : kept[i] = r.tracks[j]
      BY <1>7
    <2> QED
      BY <1>6, <1>9, <2>1 DEF After
  <1>11. ASSUME NEW n \in 1..Len(spots), NEW j \in DOMAIN r.tracks, r.tracks[j].id = r.seen[n]
         PROVE  \E i \in DOMAIN kept : kept[i] = r.tracks[j]
    BY <1>7, <1>9, <1>11
  <1>12. ASSUME NEW n \in 1..Len(spots)
         PROVE  /\ r.seen[n] <= bound
                /\ \E i \in DOMAIN kept : kept[i].id = r.seen[n]
                /\ (\A l \in (n + 1)..Len(spots) : r.seen[l] # r.seen[n]) =>
                     \E i \in DOMAIN kept : kept[i] = [id |-> r.seen[n], place |-> spots[n]]
    <2>1. PICK j \in DOMAIN r.tracks : r.tracks[j].id = r.seen[n]
      BY <1>6 DEF After
    <2>2. r.seen[n] <= bound
      BY <1>6, <2>1 DEF After
    <2>3. ASSUME \A l \in (n + 1)..Len(spots) : r.seen[l] # r.seen[n]
          PROVE  \E i \in DOMAIN kept : kept[i] = [id |-> r.seen[n], place |-> spots[n]]
      <3>1. PICK k \in DOMAIN r.tracks : r.tracks[k] = [id |-> r.seen[n], place |-> spots[n]]
        BY <1>6, <2>3 DEF After
      <3>2. r.tracks[k].id = r.seen[n]
        BY <3>1
      <3> QED
        BY <1>11, <3>1, <3>2
    <2>4. \E i \in DOMAIN kept : kept[i].id = r.seen[n]
      BY <1>11, <2>1
    <2> QED
      BY <2>2, <2>3, <2>4
  <1>13. Len(kept) <= Len(spots)
    BY <1>7, <1>9
  <1> QED
    <2>1. Tracked(spots, bound, kept, r.seen)
      BY <1>6, <1>7, <1>9, <1>10, <1>12, <1>13 DEF Tracked
    <2> QED
      BY <1>8, <2>1 DEF u

-----------------------------------------------------------------------------
(* What a frame does to one object.                                        *)

\* The seconds an object has been alone, and those it has been missing.
Ages == (0..Abandoned) \cup {None}

Gone == 0..Analytic!Largest(Stale, Removed)

Record ==
  [places : Seq(Places), state : Analytic!States, unattended : Ages,
   missing : Gone, emitted : SUBSET Analytic!Alerts]

\* What is known of an object: at least its last place, and that it was
\* reported as removed if it is called so.
Object ==
  {o \in Record : /\ Len(o.places) \in 1..Persistence
                  /\ o.state = "REMOVED" => "removed_object" \in o.emitted}

\* One that the last frame has not cleared.
Live == {o \in Object : o.state # "CLEARED"}

Still(o) == \A i, j \in DOMAIN o.places : o.places[i] = o.places[j]

LEMMA Numbers ==
  /\ Places \subseteq Int /\ Gaps \subseteq Nat \ {0} /\ None \notin Int
  /\ Persistence \in Nat \ {0} /\ Suspicious \in Nat /\ Pending \in Nat /\ Abandoned \in Nat
  /\ Stale \in Nat /\ Removed \in Nat /\ MaxObjects \in Nat /\ MaxPeople \in Nat
  BY AnalyticParameters DEF Analytic!Parameters

LEMMA AgesAre ==
  /\ Ages \subseteq Nat \cup {None} /\ None \in Ages /\ 0 \in Ages
  /\ Gone \subseteq Nat /\ 0 \in Gone
  /\ \A n \in Nat : /\ Analytic!AtMost(Abandoned, n) \in Ages
                    /\ Analytic!AtMost(Analytic!Largest(Stale, Removed), n) \in Gone
  BY Numbers DEF Ages, Gone, Analytic!AtMost, Analytic!Largest

\* The positions after another one.
Moved(places, place) ==
  IF Len(places) < Persistence THEN Append(places, place) ELSE Append(Tail(places), place)

LEMMA MovedIs ==
  ASSUME NEW ps \in Seq(Places), Len(ps) \in 1..Persistence, NEW place \in Places
  PROVE  LET after == Moved(ps, place)
         IN /\ after \in Seq(Places) /\ Len(after) \in 1..Persistence
            /\ Len(after) = IF Len(ps) < Persistence THEN Len(ps) + 1 ELSE Persistence
            /\ after[Len(after)] = place
            /\ \A i \in 1..(Len(after) - 1) :
                 after[i] = ps[i + Len(ps) + 1 - Len(after)]
                 /\ i + Len(ps) + 1 - Len(after) \in DOMAIN ps
  <1>1. CASE Len(ps) < Persistence
    BY <1>1, Numbers DEF Moved
  <1>2. CASE ~(Len(ps) < Persistence)
    <2>1. Len(ps) = Persistence /\ Len(ps) >= 1 /\ ps # <<>>
      BY <1>2, Numbers
    <2>2. Tail(ps) \in Seq(Places) /\ Len(Tail(ps)) = Len(ps) - 1
          /\ \A i \in 1..(Len(ps) - 1) : Tail(ps)[i] = ps[i + 1]
      BY <2>1
    <2> QED
      BY <1>2, <2>1, <2>2, Numbers DEF Moved
  <1> QED
    BY <1>1, <1>2

LEMMA UpsertIs ==
  ASSUME NEW o \in Live \cup {None}, NEW place \in Places
  PROVE  LET v == Analytic!Upsert(o, place)
         IN /\ v \in Live /\ v.missing = 0 /\ v.places[Len(v.places)] = place
            /\ o = None => v.places = <<place>> /\ v.state = "NEW" /\ v.unattended = None
            /\ o # None => /\ v.places = Moved(o.places, place) /\ v.state = o.state
                           /\ v.unattended = o.unattended /\ v.emitted = o.emitted
  <1>1. CASE o = None
    <2> DEFINE v == [places |-> <<place>>, state |-> "NEW", unattended |-> None, missing |-> 0,
                     emitted |-> {}]
    <2>1. v = Analytic!Upsert(o, place)
      BY <1>1 DEF Analytic!Upsert
    <2>2. v \in Record /\ Len(v.places) \in 1..Persistence
      BY Numbers, AgesAre DEF Record, Analytic!States, Analytic!Alerts
    <2>3. /\ v.places = <<place>> /\ v.state = "NEW" /\ v.unattended = None /\ v.missing = 0
          /\ v.places[Len(v.places)] = place
      OBVIOUS
    <2> HIDE DEF v
    <2>4. v \in Live
      BY <2>2, <2>3 DEF Live, Object
    <2> QED
      BY <1>1, <2>1, <2>3, <2>4
  <1>2. CASE o # None
    <2>1. o \in Live /\ o \in Object /\ o \in Record
      BY <1>2 DEF Live, Object
    <2>2. /\ o.places \in Seq(Places) /\ Len(o.places) \in 1..Persistence
          /\ o.state \in Analytic!States /\ o.unattended \in Ages
          /\ o.missing \in Gone /\ o.emitted \in SUBSET Analytic!Alerts
      BY <2>1 DEF Record, Object
    <2> DEFINE now == Moved(o.places, place)
               v == [places |-> now, state |-> o.state, unattended |-> o.unattended,
                     missing |-> 0, emitted |-> o.emitted]
    <2>3. now \in Seq(Places) /\ Len(now) \in 1..Persistence /\ now[Len(now)] = place
      BY <2>2, MovedIs
    <2>4. v = Analytic!Upsert(o, place)
      BY <1>2, <2>1 DEF Analytic!Upsert, Moved, Record
    <2> HIDE DEF now
    <2>5. v \in Record
      BY <2>2, <2>3, AgesAre DEF Record
    <2> QED
      BY <1>2, <2>1, <2>3, <2>4, <2>5 DEF Live, Object, now
  <1> QED
    BY <1>1, <1>2

Rec(p, s, u, m, e) == [places |-> p, state |-> s, unattended |-> u, missing |-> m, emitted |-> e]

LEMMA Fields ==
  ASSUME NEW p, NEW s, NEW u, NEW m, NEW e
  PROVE  LET o == Rec(p, s, u, m, e)
         IN o.places = p /\ o.state = s /\ o.unattended = u /\ o.missing = m /\ o.emitted = e
  BY DEF Rec

LEMMA IsRec ==
  ASSUME NEW o \in Record
  PROVE  o = Rec(o.places, o.state, o.unattended, o.missing, o.emitted)
  BY DEF Record, Rec

LEMMA EmitIs ==
  ASSUME NEW o \in Record, NEW alert
  PROVE  Analytic!Emit(o, alert) =
           Rec(o.places, o.state, o.unattended, o.missing,
               o.emitted \cup ({alert} \cap Analytic!Alerts))
  <1>1. PICK e : e = o.emitted \cup ({alert} \cap Analytic!Alerts)
    OBVIOUS
  <1>2. [o EXCEPT !.emitted = e] = Rec(o.places, o.state, o.unattended, o.missing, e)
    BY DEF Record, Rec
  <1> QED
    BY <1>1, <1>2 DEF Analytic!Emit

LEMMA StateIs ==
  ASSUME NEW o \in Record, NEW t
  PROVE  [o EXCEPT !.state = t] = Rec(o.places, t, o.unattended, o.missing, o.emitted)
  BY DEF Record, Rec

LEMMA UnattendedIs ==
  ASSUME NEW o \in Record, NEW w
  PROVE  [o EXCEPT !.unattended = w] = Rec(o.places, o.state, w, o.missing, o.emitted)
  BY DEF Record, Rec

LEMMA AttendedIs ==
  ASSUME NEW o \in Record, NEW t
  PROVE  [o EXCEPT !.state = t, !.unattended = None] = Rec(o.places, t, None, o.missing, o.emitted)
  <1> DEFINE r == [o EXCEPT !.state = t, !.unattended = None]
  <1>1. r \in [places : {o.places}, state : {t}, unattended : {None}, missing : {o.missing},
               emitted : {o.emitted}]
    BY DEF Record
  <1> HIDE DEF r
  <1>2. r = Rec(o.places, t, None, o.missing, o.emitted)
    BY <1>1 DEF Rec
  <1> QED
    BY <1>2 DEF r

LEMMA AgedIs ==
  ASSUME NEW o \in Record, NEW n, NEW w
  PROVE  [o EXCEPT !.missing = n, !.unattended = w] = Rec(o.places, o.state, w, n, o.emitted)
  <1> DEFINE r == [o EXCEPT !.missing = n, !.unattended = w]
  <1>1. r \in [places : {o.places}, state : {o.state}, unattended : {w}, missing : {n},
               emitted : {o.emitted}]
    BY DEF Record
  <1> HIDE DEF r
  <1>2. r = Rec(o.places, o.state, w, n, o.emitted)
    BY <1>1 DEF Rec
  <1> QED
    BY <1>2 DEF r

\* A change keeps an object alive unless it clears it, or calls it removed.
LEMMA ChangedLive ==
  ASSUME NEW v \in Live, NEW s \in Analytic!States, NEW u \in Ages, NEW m \in Gone,
         NEW e \in SUBSET Analytic!Alerts, v.emitted \subseteq e,
         s # "CLEARED", s = "REMOVED" => v.state = "REMOVED" \/ "removed_object" \in e
  PROVE  Rec(v.places, s, u, m, e) \in Live
  <1> DEFINE r == Rec(v.places, s, u, m, e)
  <1>1. v \in Record /\ Len(v.places) \in 1..Persistence
        /\ (v.state = "REMOVED" => "removed_object" \in v.emitted)
    BY DEF Live, Object
  <1>2. v.places \in Seq(Places)
    BY <1>1 DEF Record
  <1>3. r \in Record
    BY <1>2 DEF Record, Rec
  <1>4. r.places = v.places /\ r.state = s /\ r.emitted = e
    BY Fields
  <1> HIDE DEF r
  <1>5. r.state = "REMOVED" => "removed_object" \in r.emitted
    BY <1>1, <1>4
  <1> QED
    BY <1>1, <1>3, <1>4, <1>5 DEF Live, Object, r

\* What a look at an object says of it, by where it was and who is near.
Looked(v, attended, r) ==
  LET w == IF v.unattended = None THEN 0 ELSE v.unattended
  IN /\ r \in Live /\ r.places = v.places /\ r.missing = v.missing
     /\ Len(v.places) < Persistence => r.state = v.state /\ r.unattended = v.unattended
     /\ Len(v.places) = Persistence /\ ~Still(v) => r.state = "MOVING" /\ r.unattended = None
     /\ Len(v.places) = Persistence /\ Still(v) /\ attended =>
          r.state = "STATIC_CANDIDATE" /\ r.unattended = None
     /\ Len(v.places) = Persistence /\ Still(v) /\ ~attended =>
          /\ r.unattended = w
          /\ w >= Abandoned => r.state = "ABANDONED_CONFIRMED" /\ "abandoned_object" \in r.emitted
          /\ w < Abandoned /\ w >= Pending => r.state = "ABANDONED_PENDING"
          /\ w < Abandoned /\ w < Pending => r.state \in {"STATIC_CANDIDATE", v.state}

LEMMA LiveFields ==
  ASSUME NEW v \in Object
  PROVE  /\ v \in Record /\ Len(v.places) \in 1..Persistence
         /\ v.places \in Seq(Places) /\ v.state \in Analytic!States
         /\ v.unattended \in Ages /\ v.missing \in Gone
         /\ v.emitted \in SUBSET Analytic!Alerts
         /\ v.state = "REMOVED" => "removed_object" \in v.emitted
  BY DEF Object, Record

LEMMA AdvanceIs ==
  ASSUME NEW v \in Live, NEW attended \in BOOLEAN
  PROVE  Looked(v, attended, Analytic!Advance(v, attended))
  <1>1. /\ v \in Record /\ Len(v.places) \in 1..Persistence
        /\ v.places \in Seq(Places) /\ v.state \in Analytic!States
        /\ v.unattended \in Ages /\ v.missing \in Gone
        /\ v.emitted \in SUBSET Analytic!Alerts
        /\ v \in Object /\ v.state # "CLEARED"
    BY LiveFields DEF Live
  <1>2. PICK w : w = IF v.unattended = None THEN 0 ELSE v.unattended
    OBVIOUS
  <1>3. PICK r : r = Analytic!Advance(v, attended)
    OBVIOUS
  <1> DEFINE More(alert) == v.emitted \cup ({alert} \cap Analytic!Alerts)
  <1>4. w \in Nat /\ w \in Ages
    BY <1>1, <1>2, AgesAre
  <1>5. \A alert : More(alert) \in SUBSET Analytic!Alerts /\ v.emitted \subseteq More(alert)
    BY <1>1
  <1>6. "abandoned_object" \in More("abandoned_object")
    BY DEF Analytic!Alerts
  <1> HIDE DEF More
  <1>7. CASE Len(v.places) < Persistence
    <2>1. r = Analytic!Emit(v, "object_appeared")
      BY <1>3, <1>7 DEF Analytic!Advance
    <2>2. r = Rec(v.places, v.state, v.unattended, v.missing, More("object_appeared"))
      BY <1>1, <2>1, EmitIs DEF More
    <2>3. r \in Live
      BY <1>1, <1>5, <2>2, ChangedLive
    <2>4. r.places = v.places /\ r.state = v.state /\ r.unattended = v.unattended /\ r.missing = v.missing
      BY <2>2, Fields
    <2> QED
      BY <1>3, <1>7, <2>3, <2>4, Numbers DEF Looked
  <1>8. CASE Len(v.places) = Persistence /\ ~Still(v)
    <2>1. r = [v EXCEPT !.state = "MOVING", !.unattended = None]
      BY <1>3, <1>8, Numbers DEF Analytic!Advance, Still
    <2>2. r = Rec(v.places, "MOVING", None, v.missing, v.emitted)
      BY <1>1, <2>1, AttendedIs
    <2>3. r \in Live
      <3>1. "MOVING" \in Analytic!States
        BY DEF Analytic!States
      <3> QED
        BY <1>1, <2>2, <3>1, AgesAre, ChangedLive
    <2>4. r.places = v.places /\ r.state = "MOVING" /\ r.unattended = None /\ r.missing = v.missing
      BY <2>2, Fields
    <2> QED
      BY <1>3, <1>8, <2>3, <2>4, Numbers DEF Looked
  <1>9. CASE Len(v.places) = Persistence /\ Still(v) /\ attended
    <2>1. r = Analytic!Attended(v)
      BY <1>3, <1>9, Numbers DEF Analytic!Advance, Still
    <2>2. PICK o : o = IF v.state \in {"ABANDONED_PENDING", "ABANDONED_CONFIRMED"}
                       THEN Analytic!Emit(v, "owner_returned") ELSE v
      OBVIOUS
    <2>3. PICK e : e = IF v.state \in {"ABANDONED_PENDING", "ABANDONED_CONFIRMED"}
                       THEN More("owner_returned") ELSE v.emitted
      OBVIOUS
    <2>4. e \in SUBSET Analytic!Alerts /\ v.emitted \subseteq e
      BY <1>1, <1>5, <2>3
    <2>5. o = Rec(v.places, v.state, v.unattended, v.missing, e)
      <3>1. Analytic!Emit(v, "owner_returned")
              = Rec(v.places, v.state, v.unattended, v.missing, More("owner_returned"))
        BY <1>1, EmitIs DEF More
      <3>2. v = Rec(v.places, v.state, v.unattended, v.missing, v.emitted)
        BY <1>1, IsRec
      <3> QED
        BY <2>2, <2>3, <3>1, <3>2
    <2>6. o \in Record
      BY <1>1, <2>4, <2>5 DEF Record, Rec
    <2>7. r = [o EXCEPT !.state = "STATIC_CANDIDATE", !.unattended = None]
      BY <2>1, <2>2 DEF Analytic!Attended
    <2>8. r = Rec(v.places, "STATIC_CANDIDATE", None, v.missing, e)
      <3>1. o.places = v.places /\ o.missing = v.missing /\ o.emitted = e
        BY <2>5, Fields
      <3>2. r = Rec(o.places, "STATIC_CANDIDATE", None, o.missing, o.emitted)
        BY <2>6, <2>7, AttendedIs
      <3> QED
        BY <3>1, <3>2
    <2>9. r \in Live
      <3>1. "STATIC_CANDIDATE" \in Analytic!States
        BY DEF Analytic!States
      <3> QED
        BY <1>1, <2>4, <2>8, <3>1, AgesAre, ChangedLive
    <2>10. r.places = v.places /\ r.state = "STATIC_CANDIDATE" /\ r.unattended = None
           /\ r.missing = v.missing
      BY <2>8, Fields
    <2> QED
      <3>1. ~(Len(v.places) < Persistence)
        BY <1>9, Numbers
      <3> QED
        BY <1>3, <1>9, <2>9, <2>10, <3>1, Zenon DEF Looked
  <1>10. CASE Len(v.places) = Persistence /\ Still(v) /\ ~attended
    <2>1. PICK x : x = [v EXCEPT !.unattended = w]
      OBVIOUS
    <2>2. r = Analytic!Unattended(x)
      <3>1. r = Analytic!Unattended([v EXCEPT !.unattended = IF @ = None THEN 0 ELSE @])
        BY <1>3, <1>10, Numbers DEF Analytic!Advance, Still
      <3> QED
        BY <1>2, <2>1, <3>1, Zenon
    <2>3. x = Rec(v.places, v.state, w, v.missing, v.emitted)
      BY <1>1, <2>1, UnattendedIs
    <2>4. /\ x.places = v.places /\ x.state = v.state /\ x.unattended = w
          /\ x.missing = v.missing /\ x.emitted = v.emitted
      BY <2>3, Fields
    <2>5. x \in Record
      BY <1>1, <1>4, <2>3 DEF Record, Rec
    <2>6. ASSUME NEW t \in Analytic!States, NEW alert, t # "CLEARED", t # "REMOVED",
                 r = Analytic!Emit([x EXCEPT !.state = t], alert)
          PROVE  /\ r \in Live /\ r.places = v.places /\ r.state = t /\ r.unattended = w
                 /\ r.missing = v.missing /\ r.emitted = More(alert)
      <3>1. PICK y : y = [x EXCEPT !.state = t]
        OBVIOUS
      <3>2. y = Rec(v.places, t, w, v.missing, v.emitted)
        BY <2>4, <2>5, <3>1, StateIs
      <3>3. /\ y.places = v.places /\ y.state = t /\ y.unattended = w /\ y.missing = v.missing
            /\ y.emitted = v.emitted
        BY <3>2, Fields
      <3>4. y \in Record
        BY <1>1, <1>4, <3>2 DEF Record, Rec
      <3>5. r = Rec(v.places, t, w, v.missing, More(alert))
        BY <2>6, <3>1, <3>3, <3>4, EmitIs DEF More
      <3>6. r \in Live
        BY <1>1, <1>4, <1>5, <2>6, <3>5, ChangedLive
      <3> QED
        BY <3>5, <3>6, Fields
    <2>7. CASE w >= Abandoned
      <3>1. r = Analytic!Emit([x EXCEPT !.state = "ABANDONED_CONFIRMED"], "abandoned_object")
        BY <1>4, <2>2, <2>4, <2>7, Numbers DEF Analytic!Unattended
      <3>2. "ABANDONED_CONFIRMED" \in Analytic!States
        BY DEF Analytic!States
      <3>3. /\ r \in Live /\ r.places = v.places /\ r.state = "ABANDONED_CONFIRMED"
            /\ r.unattended = w /\ r.missing = v.missing /\ r.emitted = More("abandoned_object")
        BY <2>6, <3>1, <3>2
      <3> QED
        BY <1>2, <1>3, <1>4, <1>6, <1>10, <2>7, <3>3, Numbers DEF Looked
    <2>8. CASE w < Abandoned /\ w >= Pending
      <3>1. r = Analytic!Emit([x EXCEPT !.state = "ABANDONED_PENDING"], "abandoned_pending")
        BY <1>4, <2>2, <2>4, <2>8, Numbers DEF Analytic!Unattended
      <3>2. "ABANDONED_PENDING" \in Analytic!States
        BY DEF Analytic!States
      <3>3. /\ r \in Live /\ r.places = v.places /\ r.state = "ABANDONED_PENDING"
            /\ r.unattended = w /\ r.missing = v.missing
        BY <2>6, <3>1, <3>2
      <3> QED
        BY <1>2, <1>3, <1>4, <1>10, <2>8, <3>3, Numbers DEF Looked
    <2>9. CASE w < Abandoned /\ w < Pending /\ w >= Suspicious
      <3>1. r = Analytic!Emit([x EXCEPT !.state = "STATIC_CANDIDATE"], "suspicious_static_object")
        BY <1>4, <2>2, <2>4, <2>9, Numbers DEF Analytic!Unattended
      <3>2. "STATIC_CANDIDATE" \in Analytic!States
        BY DEF Analytic!States
      <3>3. /\ r \in Live /\ r.places = v.places /\ r.state = "STATIC_CANDIDATE"
            /\ r.unattended = w /\ r.missing = v.missing
        BY <2>6, <3>1, <3>2
      <3> QED
        BY <1>2, <1>3, <1>4, <1>10, <2>9, <3>3, Numbers DEF Looked
    <2>10. CASE w < Abandoned /\ w < Pending /\ ~(w >= Suspicious)
      <3>1. r = x
        BY <1>4, <2>2, <2>4, <2>10, Numbers DEF Analytic!Unattended
      <3>2. r \in Live
        BY <1>1, <1>4, <2>3, <3>1, ChangedLive
      <3> QED
        BY <1>2, <1>3, <1>4, <1>10, <2>4, <2>10, <3>1, <3>2, Numbers DEF Looked
    <2> QED
      BY <1>4, <2>7, <2>8, <2>9, <2>10, Numbers
  <1> QED
    BY <1>1, <1>7, <1>8, <1>9, <1>10, Numbers

\* A change keeps what is known of an object, if it is not called removed by it.
LEMMA ChangedObject ==
  ASSUME NEW v \in Object, NEW s \in Analytic!States, NEW u \in Ages, NEW m \in Gone,
         NEW e \in SUBSET Analytic!Alerts, v.emitted \subseteq e,
         s = "REMOVED" => v.state = "REMOVED" \/ "removed_object" \in e
  PROVE  Rec(v.places, s, u, m, e) \in Object
  <1>1. PICK r : r = Rec(v.places, s, u, m, e)
    OBVIOUS
  <1>2. /\ Len(v.places) \in 1..Persistence /\ v.places \in Seq(Places)
        /\ v.state = "REMOVED" => "removed_object" \in v.emitted
    BY LiveFields
  <1>3. r \in Record
    BY <1>1, <1>2 DEF Record, Rec
  <1>4. r.places = v.places /\ r.state = s /\ r.emitted = e
    BY <1>1, Fields
  <1>5. r.state = "REMOVED" => "removed_object" \in r.emitted
    BY <1>2, <1>4
  <1> QED
    BY <1>1, <1>2, <1>3, <1>4, <1>5 DEF Object

LEMMA OlderIs ==
  ASSUME NEW o \in Object \cup {None}, NEW gap \in Gaps
  PROVE  LET r == Analytic!Older(o, gap)
         IN /\ r \in Live \cup {None}
            /\ o = None => r = None
            /\ o # None /\ o.state = "CLEARED" => r = None
            /\ o # None /\ o.state # "CLEARED" =>
                 /\ r \in Live /\ r.places = o.places /\ r.state = o.state /\ r.emitted = o.emitted
                 /\ r.unattended = IF o.unattended = None THEN None
                                   ELSE Analytic!AtMost(Abandoned, o.unattended + gap)
  <1>1. CASE o = None
    BY <1>1 DEF Analytic!Older
  <1>2. CASE o # None /\ o.state = "CLEARED"
    BY <1>2 DEF Analytic!Older
  <1>3. CASE o # None /\ o.state # "CLEARED"
    <2>1. o \in Object /\ o \in Live /\ o \in Record
      BY <1>3 DEF Live, Object
    <2>2. PICK m : m = Analytic!AtMost(Analytic!Largest(Stale, Removed), o.missing + gap)
      OBVIOUS
    <2>3. PICK u : u = IF o.unattended = None THEN None
                       ELSE Analytic!AtMost(Abandoned, o.unattended + gap)
      OBVIOUS
    <2>4. o.missing \in Gone /\ o.unattended \in Ages /\ gap \in Nat
      BY <2>1, LiveFields, Numbers
    <2>5. m \in Gone
      <3>1. o.missing \in Nat
        BY <2>4, AgesAre
      <3>2. o.missing + gap \in Nat
        BY <2>4, <3>1
      <3>3. \A n \in Nat : Analytic!AtMost(Analytic!Largest(Stale, Removed), n) \in Gone
        BY AgesAre
      <3> QED
        BY <2>2, <3>2, <3>3
    <2>6. u \in Ages
      <3>1. CASE o.unattended = None
        BY <2>3, <3>1, AgesAre
      <3>2. CASE o.unattended # None
        <4>1. o.unattended \in Nat
          BY <2>4, <3>2, AgesAre
        <4>2. o.unattended + gap \in Nat
          BY <2>4, <4>1
        <4>3. \A n \in Nat : Analytic!AtMost(Abandoned, n) \in Ages
          BY AgesAre
        <4> QED
          BY <2>3, <3>2, <4>2, <4>3
      <3> QED
        BY <3>1, <3>2
    <2>7. PICK r : r = [o EXCEPT !.missing = m, !.unattended = u]
      OBVIOUS
    <2>8. r = Analytic!Older(o, gap)
      <3>1. Analytic!Older(o, gap) =
              [o EXCEPT !.missing = Analytic!AtMost(Analytic!Largest(Stale, Removed), @ + gap),
                        !.unattended = IF @ = None THEN None ELSE Analytic!AtMost(Abandoned, @ + gap)]
        BY <1>3 DEF Analytic!Older
      <3> QED
        BY <2>2, <2>3, <2>7, <3>1, Zenon
    <2>9. r = Rec(o.places, o.state, u, m, o.emitted)
      BY <2>1, <2>7, AgedIs
    <2>10. r \in Live
      <3>1. /\ o.state \in Analytic!States /\ o.emitted \in SUBSET Analytic!Alerts
        BY <2>1, LiveFields
      <3> QED
        BY <1>3, <2>1, <2>5, <2>6, <2>9, <3>1, ChangedLive
    <2>11. r.places = o.places /\ r.state = o.state /\ r.emitted = o.emitted /\ r.unattended = u
      BY <2>9, Fields
    <2> QED
      BY <1>3, <2>3, <2>8, <2>10, <2>11
  <1> QED
    BY <1>1, <1>2, <1>3

LEMMA MissingIs ==
  ASSUME NEW o \in Live
  PROVE  LET r == Analytic!Missing(o)
         IN /\ r \in Object /\ r.places = o.places /\ r.unattended = o.unattended
            /\ r.state \in {o.state, "REMOVED", "CLEARED"}
            /\ Removed <= Stale /\ r.state = "CLEARED"
                 /\ o.state \in {"ABANDONED_CONFIRMED", "REMOVED"} => "removed_object" \in r.emitted
  <1> DEFINE due == o.state = "ABANDONED_CONFIRMED" /\ o.missing >= Removed
  <1>1. /\ o \in Object /\ o \in Record /\ o.state # "CLEARED" /\ o.missing \in Gone
        /\ o.state \in Analytic!States /\ o.emitted \in SUBSET Analytic!Alerts
        /\ o.unattended \in Ages
        /\ o.state = "REMOVED" => "removed_object" \in o.emitted
    BY LiveFields DEF Live
  <1>2. {"REMOVED", "CLEARED"} \subseteq Analytic!States /\ "removed_object" \in Analytic!Alerts
    BY DEF Analytic!States, Analytic!Alerts
  <1>3. PICK gone : gone = IF due THEN Analytic!Emit([o EXCEPT !.state = "REMOVED"], "removed_object")
                           ELSE o
    OBVIOUS
  <1>4. /\ gone \in Object /\ gone.places = o.places /\ gone.unattended = o.unattended
        /\ gone.missing = o.missing /\ o.emitted \subseteq gone.emitted
        /\ due => gone.state = "REMOVED" /\ "removed_object" \in gone.emitted
        /\ ~due => gone = o
    <2>1. CASE due
      <3>1. PICK y : y = [o EXCEPT !.state = "REMOVED"]
        OBVIOUS
      <3>2. y = Rec(o.places, "REMOVED", o.unattended, o.missing, o.emitted)
        BY <1>1, <3>1, StateIs
      <3>3. /\ y.places = o.places /\ y.state = "REMOVED" /\ y.unattended = o.unattended
            /\ y.missing = o.missing /\ y.emitted = o.emitted
        BY <3>2, Fields
      <3>4. y \in Record
        <4>1. o.places \in Seq(Places)
          BY <1>1, LiveFields
        <4> QED
          BY <1>1, <1>2, <3>2, <4>1 DEF Record, Rec
      <3>5. PICK e : e = o.emitted \cup ({"removed_object"} \cap Analytic!Alerts)
        OBVIOUS
      <3>6. e \in SUBSET Analytic!Alerts /\ o.emitted \subseteq e /\ "removed_object" \in e
        BY <1>1, <1>2, <3>5
      <3>7. gone = Rec(o.places, "REMOVED", o.unattended, o.missing, e)
        <4>1. gone = Analytic!Emit(y, "removed_object")
          BY <1>3, <2>1, <3>1, Zenon
        <4> QED
          BY <3>3, <3>4, <3>5, <4>1, EmitIs
      <3>8. gone \in Object
        BY <1>1, <1>2, <3>6, <3>7, ChangedObject
      <3> QED
        BY <2>1, <3>6, <3>7, <3>8, Fields
    <2>2. CASE ~due
      BY <1>1, <1>3, <2>2
    <2> QED
      BY <2>1, <2>2
  <1>5. PICK r : r = Analytic!Missing(o)
    OBVIOUS
  <1>6. r = IF o.missing >= Stale
            THEN Analytic!Emit([gone EXCEPT !.state = "CLEARED"], "object_cleared") ELSE gone
    <2>1. r = IF o.missing >= Stale
              THEN Analytic!Emit([(IF due THEN Analytic!Emit([o EXCEPT !.state = "REMOVED"], "removed_object") ELSE o) EXCEPT !.state = "CLEARED"], "object_cleared")
              ELSE IF due THEN Analytic!Emit([o EXCEPT !.state = "REMOVED"], "removed_object") ELSE o
      BY <1>5, Zenon DEF Analytic!Missing
    <2> QED
      BY <1>3, <2>1, Zenon
  <1>7. CASE o.missing >= Stale
    <2>1. PICK y : y = [gone EXCEPT !.state = "CLEARED"]
      OBVIOUS
    <2>2. /\ gone \in Record /\ gone.emitted \in SUBSET Analytic!Alerts /\ gone.places \in Seq(Places)
          /\ gone.missing \in Gone /\ gone.unattended \in Ages
      BY <1>4, LiveFields
    <2>3. y = Rec(gone.places, "CLEARED", gone.unattended, gone.missing, gone.emitted)
      BY <2>1, <2>2, StateIs
    <2>4. /\ y.places = gone.places /\ y.state = "CLEARED" /\ y.unattended = gone.unattended
          /\ y.missing = gone.missing /\ y.emitted = gone.emitted
      BY <2>3, Fields
    <2>5. y \in Record
      BY <1>2, <2>2, <2>3 DEF Record, Rec
    <2>6. PICK e : e = gone.emitted \cup ({"object_cleared"} \cap Analytic!Alerts)
      OBVIOUS
    <2>7. e \in SUBSET Analytic!Alerts /\ gone.emitted \subseteq e
      BY <2>2, <2>6
    <2>8. r = Rec(gone.places, "CLEARED", gone.unattended, gone.missing, e)
      <3>1. r = Analytic!Emit(y, "object_cleared")
        BY <1>6, <1>7, <2>1, Zenon
      <3> QED
        BY <2>4, <2>5, <2>6, <3>1, EmitIs
    <2>9. r \in Object
      BY <1>2, <1>4, <2>2, <2>7, <2>8, ChangedObject
    <2>10. r.places = o.places /\ r.unattended = o.unattended /\ r.state = "CLEARED" /\ r.emitted = e
      BY <1>4, <2>8, Fields
    <2>11. Removed <= Stale /\ o.state \in {"ABANDONED_CONFIRMED", "REMOVED"} =>
             "removed_object" \in e
      <3>1. Removed <= Stale => o.missing >= Removed
        <4>1. o.missing \in Nat
          BY <1>1, AgesAre, LiveFields
        <4>2. \A m \in Nat : m >= Stale /\ Removed <= Stale => m >= Removed
          BY Numbers
        <4> QED
          BY <1>7, <4>1, <4>2
      <3> QED
        BY <1>1, <1>4, <2>7, <3>1
    <2> QED
      BY <1>5, <2>9, <2>10, <2>11
  <1>8. CASE ~(o.missing >= Stale)
    <2>1. r = gone
      BY <1>6, <1>8
    <2> QED
      BY <1>1, <1>4, <1>5, <2>1
  <1> QED
    BY <1>7, <1>8

LEMMA ShownIs ==
  ASSUME NEW o \in Live \cup {None}, NEW place \in Places, NEW attended \in BOOLEAN,
         NEW times \in Nat \ {0}
  PROVE  /\ Analytic!Shown(o, place, attended, times) \in Live
         /\ times = 1 => Analytic!Shown(o, place, attended, times)
                           = Analytic!Advance(Analytic!Upsert(o, place), attended)
  <1>1. ASSUME NEW x \in Live \cup {o}
        PROVE  Analytic!Advance(Analytic!Upsert(x, place), attended) \in Live
    <2>1. Analytic!Upsert(x, place) \in Live
      BY UpsertIs
    <2> QED
      BY <2>1, AdvanceIs DEF Looked
  <1> QED
    BY <1>1, ShownSteps

LEMMA PlaceIs ==
  ASSUME NEW ts \in Tracks, NEW i \in DOMAIN ts
  PROVE  Analytic!PlaceOf(ts, ts[i].id) = ts[i].place
  <1>1. ts[i] \in Analytic!Range(ts)
    BY DEF Analytic!Range
  <1>2. \A k \in Analytic!Range(ts) : k.id = ts[i].id => k = ts[i]
    BY DEF Analytic!Range, Tracks, Distinct
  <1>3. PICK k : k = CHOOSE x \in Analytic!Range(ts) : x.id = ts[i].id
    OBVIOUS
  <1>4. k \in Analytic!Range(ts) /\ k.id = ts[i].id
    BY <1>1, <1>3, Zenon
  <1> QED
    BY <1>2, <1>3, <1>4 DEF Analytic!PlaceOf

\* Somebody of the tracker of the people is near.
By(who, place) == \E k \in Analytic!Range(who) : Analytic!Near(k.place, place)

\* By the detections of a frame: one that was not seen may be missing, one that
\* was seen is there, and one that was seen once has been looked at once.
KnownAs(o, id, spots, now, who, r) ==
  /\ (\A n \in 1..Len(spots) : now.seen[n] # id) =>
       r = IF o = None THEN None ELSE Analytic!Missing(o)
  /\ \A n \in 1..Len(spots) : now.seen[n] = id => r \in Live
  /\ \A n \in 1..Len(spots), i \in DOMAIN now.tracks :
       /\ now.seen[n] = id /\ now.tracks[i].id = id
       /\ \A l \in 1..Len(spots) : now.seen[l] = id => l = n
       => r = Analytic!Advance(Analytic!Upsert(o, now.tracks[i].place),
                               By(who, now.tracks[i].place))

LEMMA KnownIs ==
  ASSUME NEW o \in Live \cup {None}, NEW id, NEW spots \in Seq(Places), NEW bound, NEW now,
         Tracked(spots, bound, now.tracks, now.seen), NEW who
  PROVE  KnownAs(o, id, spots, now, who, Analytic!Known(o, id, now, who))
  <1> DEFINE ns == {n \in DOMAIN now.seen : now.seen[n] = id}
             times == Analytic!Cardinality(ns)
             place == Analytic!PlaceOf(now.tracks, id)
             attended == \E k \in Analytic!Range(who) : Analytic!Near(k.place, place)
             r == Analytic!Known(o, id, now, who)
  <1>1. times = Cardinality(ns)
    BY Zenon DEF Analytic!Cardinality, Cardinality
  <1>2. /\ now.tracks \in Tracks /\ DOMAIN now.seen = 1..Len(spots) /\ Len(spots) \in Nat
        /\ \A n \in 1..Len(spots) : \E i \in DOMAIN now.tracks : now.tracks[i].id = now.seen[n]
    <2>1. now.seen \in Seq(Nat \ {0}) /\ Len(now.seen) = Len(spots)
      BY DEF Tracked
    <2>2. DOMAIN now.seen = 1..Len(spots) /\ Len(spots) \in Nat
      BY <2>1
    <2>3. now.tracks \in Tracks
      BY DEF Tracked
    <2>4. \A n \in 1..Len(spots) : \E i \in DOMAIN now.tracks : now.tracks[i].id = now.seen[n]
      BY DEF Tracked
    <2> QED
      BY <2>2, <2>3, <2>4
  <1>3. r = IF times > 0 THEN Analytic!Shown(o, place, attended, times)
            ELSE IF o = None THEN None ELSE Analytic!Missing(o)
    BY Zenon DEF Analytic!Known
  <1>4. IsFiniteSet(ns) /\ Cardinality(ns) \in Nat
    <2>1. IsFiniteSet(1..Len(spots)) /\ ns \in SUBSET (1..Len(spots))
      <3>1. 1 \in Int /\ Len(spots) \in Int
        BY <1>2
      <3>2. IsFiniteSet(1..Len(spots))
        BY <3>1, FS_Interval
      <3> QED
        BY <1>2, <3>2
    <2>2. IsFiniteSet(ns)
      BY <2>1, FS_Subset
    <2> QED
      BY <2>2, FS_CardinalityType
  <1> HIDE DEF times, r
  <1>5. ASSUME \A n \in 1..Len(spots) : now.seen[n] # id
        PROVE  r = IF o = None THEN None ELSE Analytic!Missing(o)
    <2>1. ns = {}
      BY <1>2, <1>5
    <2>2. times = 0
      BY <1>1, <2>1, FS_EmptySet
    <2> QED
      BY <1>3, <2>2
  <1>6. ASSUME NEW n \in 1..Len(spots), now.seen[n] = id
        PROVE  times \in Nat \ {0} /\ place \in Places
    <2>1. n \in ns
      BY <1>2, <1>6
    <2>2. times # 0
      BY <1>1, <1>4, <2>1, FS_EmptySet
    <2>3. PICK i \in DOMAIN now.tracks : now.tracks[i].id = id
      BY <1>2, <1>6
    <2>4. place = now.tracks[i].place
      BY <1>2, <2>3, PlaceIs
    <2> QED
      BY <1>1, <1>2, <1>4, <2>2, <2>4, TrackFields
  <1>7. attended \in BOOLEAN
    OBVIOUS
  <1>8. ASSUME NEW n \in 1..Len(spots), now.seen[n] = id
        PROVE  r \in Live
    <2> HIDE DEF attended, place
    <2>1. r = Analytic!Shown(o, place, attended, times)
      BY <1>3, <1>6, <1>8
    <2> QED
      BY <1>6, <1>7, <1>8, <2>1, ShownIs
  <1>9. ASSUME NEW n \in 1..Len(spots), NEW i \in DOMAIN now.tracks,
               now.seen[n] = id, now.tracks[i].id = id,
               \A l \in 1..Len(spots) : now.seen[l] = id => l = n
        PROVE  r = Analytic!Advance(Analytic!Upsert(o, now.tracks[i].place),
                                    By(who, now.tracks[i].place))
    <2>1. place = now.tracks[i].place
      BY <1>2, <1>9, PlaceIs
    <2>2. ns = {n}
      BY <1>2, <1>9
    <2>3. times = 1
      BY <1>1, <2>2, FS_Singleton
    <2>4. r = Analytic!Shown(o, place, attended, times)
      BY <1>3, <2>3
    <2>5. attended = By(who, place)
      BY DEF By
    <2> HIDE DEF attended, place
    <2>6. r = Analytic!Advance(Analytic!Upsert(o, place), attended)
      BY <1>6, <1>7, <1>9, <2>3, <2>4, ShownIs
    <2> QED
      BY <2>1, <2>5, <2>6
  <1> QED
    BY <1>5, <1>8, <1>9 DEF r, KnownAs

-----------------------------------------------------------------------------
(* The analytic, frame after frame.                                        *)

\* The tracks, and what is known of the objects.
TInv ==
  /\ tracks \in Tracks /\ Len(tracks) <= MaxObjects
  /\ \A i \in DOMAIN tracks : tracks[i].id <= 2 * MaxObjects
  /\ people \in Tracks /\ Len(people) <= MaxPeople
  /\ \A i \in DOMAIN people : people[i].id <= 2 * MaxPeople
  /\ object \in [Analytic!Ids -> Object \cup {None}]

LEMMA InitTInv == Analytic!Init => TInv
  <1> SUFFICES ASSUME Analytic!Init PROVE TInv
    OBVIOUS
  <1>1. <<>> \in Tracks /\ Len(<<>>) = 0 /\ DOMAIN <<>> = {}
    BY DEF Tracks, Distinct
  <1> QED
    BY <1>1, Numbers DEF Analytic!Init, TInv

LEMMA SceneIs ==
  ASSUME NEW bound \in Nat, NEW spots \in Analytic!Scenes(bound)
  PROVE  spots \in Seq(Places) /\ Len(spots) \in Nat /\ Len(spots) <= bound
  BY DEF Analytic!Scenes

\* A frame by what it shows, and what the trackers make of it.
Shows(gap, objects, persons, now, who) ==
  /\ now = Analytic!Update(tracks, objects) /\ who = Analytic!Update(people, persons)
  /\ Len(objects) <= MaxObjects /\ Len(persons) <= MaxPeople
  /\ Tracked(objects, 2 * MaxObjects, now.tracks, now.seen)
  /\ Tracked(persons, 2 * MaxPeople, who.tracks, who.seen)
  /\ Analytic!Frame(gap, objects, persons, now, who)

LEMMA FrameIs ==
  ASSUME TInv, Analytic!AnyFrame
  PROVE  \E objects, persons \in Seq(Places) : \E gap \in Gaps : \E now, who :
           Shows(gap, objects, persons, now, who)
  <1>1. PICK objects \in Analytic!Scenes(MaxObjects), persons \in Analytic!Scenes(MaxPeople),
             gap \in Gaps :
          Analytic!Frame(gap, objects, persons, Analytic!Update(tracks, objects),
                         Analytic!Update(people, persons))
    BY Zenon DEF Analytic!AnyFrame
  <1>2. /\ objects \in Seq(Places) /\ Len(objects) \in Nat /\ Len(objects) <= MaxObjects
        /\ persons \in Seq(Places) /\ Len(persons) \in Nat /\ Len(persons) <= MaxPeople
    BY SceneIs, Numbers
  <1>3. /\ tracks \in Tracks /\ Len(tracks) \in Nat /\ Len(tracks) <= MaxObjects
        /\ people \in Tracks /\ Len(people) \in Nat /\ Len(people) <= MaxPeople
    BY DEF TInv, Tracks
  <1>4. /\ Len(tracks) + Len(objects) <= 2 * MaxObjects /\ 2 * MaxObjects \in Nat
        /\ Len(people) + Len(persons) <= 2 * MaxPeople /\ 2 * MaxPeople \in Nat
    BY <1>2, <1>3, Numbers
  <1>5. PICK now : now = Analytic!Update(tracks, objects)
    OBVIOUS
  <1>6. PICK who : who = Analytic!Update(people, persons)
    OBVIOUS
  <1>7. Tracked(objects, 2 * MaxObjects, now.tracks, now.seen)
    <2>1. \A i \in DOMAIN tracks : tracks[i].id <= 2 * MaxObjects
      BY DEF TInv
    <2> QED
      BY <1>2, <1>3, <1>4, <1>5, <2>1, Updated
  <1>8. Tracked(persons, 2 * MaxPeople, who.tracks, who.seen)
    <2>1. \A i \in DOMAIN people : people[i].id <= 2 * MaxPeople
      BY DEF TInv
    <2> QED
      BY <1>2, <1>3, <1>4, <1>6, <2>1, Updated
  <1>9. Shows(gap, objects, persons, now, who)
    BY <1>1, <1>2, <1>5, <1>6, <1>7, <1>8 DEF Shows
  <1> QED
    BY <1>2, <1>9

\* What is known of an object after a frame.
LEMMA KnownAfter ==
  ASSUME TInv, NEW objects \in Seq(Places), NEW persons \in Seq(Places), NEW gap \in Gaps,
         NEW now, NEW who, Shows(gap, objects, persons, now, who), NEW id \in Analytic!Ids
  PROVE  LET o == Analytic!Older(object[id], gap)
         IN /\ o \in Live \cup {None}
            /\ object'[id] = Analytic!Known(o, id, now, who.tracks)
            /\ object'[id] \in Object \cup {None}
            /\ (\E n \in 1..Len(objects) : now.seen[n] = id) => object'[id] \in Live
            /\ (\A n \in 1..Len(objects) : now.seen[n] # id) =>
                 object'[id] = IF o = None THEN None ELSE Analytic!Missing(o)
  <1>1. PICK o : o = Analytic!Older(object[id], gap)
    OBVIOUS
  <1>2. o \in Live \cup {None}
    <2>1. object[id] \in Object \cup {None}
      BY DEF TInv
    <2> QED
      BY <1>1, <2>1, OlderIs
  <1>3. object'[id] = Analytic!Known(o, id, now, who.tracks)
    BY <1>1 DEF Shows, Analytic!Frame
  <1>4. Tracked(objects, 2 * MaxObjects, now.tracks, now.seen)
    BY DEF Shows
  <1>5. /\ (\A n \in 1..Len(objects) : now.seen[n] # id) =>
             object'[id] = IF o = None THEN None ELSE Analytic!Missing(o)
        /\ \A n \in 1..Len(objects) : now.seen[n] = id => object'[id] \in Live
    <2>1. PICK k : k = Analytic!Known(o, id, now, who.tracks)
      OBVIOUS
    <2>2. KnownAs(o, id, objects, now, who.tracks, k)
      BY <1>2, <1>4, <2>1, KnownIs
    <2> QED
      BY <1>3, <2>1, <2>2 DEF KnownAs
  <1>6. object'[id] \in Object \cup {None}
    <2>1. o # None => Analytic!Missing(o) \in Object
      BY <1>2, MissingIs
    <2>2. Live \subseteq Object
      BY DEF Live
    <2> QED
      BY <1>5, <2>1, <2>2
  <1> QED
    BY <1>1, <1>2, <1>3, <1>5, <1>6

LEMMA NextTInv == TInv /\ [Analytic!Next]_analytic => TInv'
  <1> SUFFICES ASSUME TInv, [Analytic!Next]_analytic PROVE TInv'
    OBVIOUS
  <1>1. CASE UNCHANGED analytic
    BY <1>1 DEF analytic, TInv
  <1>2. CASE Analytic!AnyFrame
    <2>1. PICK objects, persons, gap, now, who :
            /\ objects \in Seq(Places) /\ persons \in Seq(Places) /\ gap \in Gaps
            /\ Shows(gap, objects, persons, now, who)
      BY <1>2, FrameIs
    <2>2. tracks' = now.tracks /\ people' = who.tracks
      BY <2>1 DEF Shows, Analytic!Frame
    <2>3. /\ tracks' \in Tracks /\ Len(tracks') <= MaxObjects
          /\ \A i \in DOMAIN tracks' : tracks'[i].id <= 2 * MaxObjects
      <3>1. /\ now.tracks \in Tracks /\ Len(now.tracks) <= Len(objects) /\ Len(objects) <= MaxObjects
            /\ \A i \in DOMAIN now.tracks : now.tracks[i].id <= 2 * MaxObjects
        BY <2>1 DEF Shows, Tracked
      <3>2. Len(now.tracks) \in Nat
        BY <3>1 DEF Tracks
      <3> QED
        BY <2>2, <3>1, <3>2, Numbers
    <2>4. /\ people' \in Tracks /\ Len(people') <= MaxPeople
          /\ \A i \in DOMAIN people' : people'[i].id <= 2 * MaxPeople
      <3>1. /\ who.tracks \in Tracks /\ Len(who.tracks) <= Len(persons) /\ Len(persons) <= MaxPeople
            /\ \A i \in DOMAIN who.tracks : who.tracks[i].id <= 2 * MaxPeople
        BY <2>1 DEF Shows, Tracked
      <3>2. Len(who.tracks) \in Nat
        BY <3>1 DEF Tracks
      <3> QED
        BY <2>2, <3>1, <3>2, Numbers
    <2>5. object' \in [Analytic!Ids -> Object \cup {None}]
      <3>1. \A id \in Analytic!Ids : object'[id] \in Object \cup {None}
        BY <2>1, KnownAfter
      <3>2. object' = [id \in Analytic!Ids |-> object'[id]]
        BY <2>1 DEF Shows, Analytic!Frame
      <3> QED
        BY <3>1, <3>2
    <2> QED
      BY <2>3, <2>4, <2>5 DEF TInv
  <1>3. CASE Analytic!Clear
    <2>1. <<>> \in Tracks /\ Len(<<>>) = 0 /\ DOMAIN <<>> = {}
      BY DEF Tracks, Distinct
    <2>2. CASE Analytic!Unload
      BY <2>1, <2>2, Numbers DEF Analytic!Unload, TInv
    <2>3. ASSUME NEW id \in Analytic!Ids, Analytic!ClearObject(id)
          PROVE  TInv'
      BY <2>1, <2>3, Numbers DEF Analytic!ClearObject, TInv
    <2> QED
      BY <1>3, <2>2, <2>3 DEF Analytic!Clear
  <1> QED
    BY <1>1, <1>2, <1>3 DEF Analytic!Next

\* An object that a frame clears after it was called abandoned.
LEMMA ClearedTold ==
  ASSUME TInv, [Analytic!Next]_analytic, Removed <= Stale, NEW id \in Analytic!Ids,
         object[id] # None, object'[id] # None,
         object[id].state \in {"ABANDONED_CONFIRMED", "REMOVED"}, object'[id].state = "CLEARED"
  PROVE  "removed_object" \in object'[id].emitted
  <1>1. CASE UNCHANGED analytic
    BY <1>1 DEF analytic
  <1>2. CASE Analytic!AnyFrame
    <2>1. PICK objects, persons, gap, now, who :
            /\ objects \in Seq(Places) /\ persons \in Seq(Places) /\ gap \in Gaps
            /\ Shows(gap, objects, persons, now, who)
      BY <1>2, FrameIs
    <2>2. PICK o : o = Analytic!Older(object[id], gap)
      OBVIOUS
    <2>3. object[id] \in Object
      BY DEF TInv
    <2>4. o \in Live /\ o.state = object[id].state
      BY <2>1, <2>2, <2>3, OlderIs
    <2>5. \A n \in 1..Len(objects) : now.seen[n] # id
      <3>1. object'[id] \notin Live
        BY DEF Live
      <3>2. (\E n \in 1..Len(objects) : now.seen[n] = id) => object'[id] \in Live
        BY <2>1, KnownAfter
      <3> QED
        BY <3>1, <3>2
    <2>6. object'[id] = IF o = None THEN None ELSE Analytic!Missing(o)
      BY <2>1, <2>2, <2>5, KnownAfter
    <2>7. object'[id] = Analytic!Missing(o)
      BY <2>6
    <2> QED
      BY <2>4, <2>7, MissingIs
  <1>3. CASE Analytic!Clear
    <2>1. CASE Analytic!Unload
      BY <2>1 DEF Analytic!Unload
    <2>2. ASSUME NEW other \in Analytic!Ids, Analytic!ClearObject(other)
          PROVE  FALSE
      BY <2>2 DEF Analytic!ClearObject, TInv
    <2> QED
      BY <1>3, <2>1, <2>2 DEF Analytic!Clear
  <1> QED
    BY <1>1, <1>2, <1>3 DEF Analytic!Next

LEMMA HostSteps ==
  ASSUME [HostNext]_<<subject, vars, analytic>>
  PROVE  [Analytic!Next]_analytic
  BY DEF HostNext, analytic

(* When removed_seconds is no more than stale_seconds, an abandoned object *)
(* that then goes has been reported as removed before it is forgotten, by  *)
(* any detections of any objects and people (_handle_missing_objects,      *)
(* plugins/enterprise/abandoned_object/plugin.py).                         *)
THEOREM RemovedIsTold == Removed <= Stale => (HostSpec => RemovedTold)
  <1> SUFFICES ASSUME Removed <= Stale PROVE HostSpec => RemovedTold
    OBVIOUS
  <1> DEFINE Told ==
        \A id \in Analytic!Ids :
          object[id] # None /\ object'[id] # None =>
            (object[id].state \in {"ABANDONED_CONFIRMED", "REMOVED"}
               /\ object'[id].state = "CLEARED" => "removed_object" \in object'[id].emitted)
  <1>1. HostInit => TInv
    BY InitTInv DEF HostInit
  <1>2. TInv /\ [HostNext]_<<subject, vars, analytic>> => TInv'
    BY HostSteps, NextTInv
  <1>3. TInv /\ [HostNext]_<<subject, vars, analytic>> => [Told]_Analytic!vars
    <2> SUFFICES ASSUME TInv, [HostNext]_<<subject, vars, analytic>> PROVE Told
      OBVIOUS
    <2> QED
      BY HostSteps, ClearedTold
  <1> QED
    BY <1>1, <1>2, <1>3, PTL DEF HostSpec, RemovedTold, Analytic!RemovedTold

-----------------------------------------------------------------------------
(* Detections that are apart.                                              *)

Ordered(ts) == \A i \in DOMAIN ts : ts[i].id = i

Apart(spots) == \A i, j \in DOMAIN spots : i # j => ~Analytic!Near(spots[i], spots[j])

\* What n of them make of tracks that are numbered in their order: each has a
\* track of its own, and only a detection adds a track.
Placed(ts, spots, n, now, seen) ==
  /\ Ordered(now) /\ Len(seen) = n
  /\ \A m \in 1..n : seen[m] \in DOMAIN now /\ now[seen[m]].place = spots[m]
  /\ \A i \in DOMAIN now : i \in DOMAIN ts \/ \E m \in 1..n : seen[m] = i
  /\ DOMAIN ts \subseteq DOMAIN now

PlacedAt(ts, spots, n) ==
  {r \in [tracks : Tracks, seen : Seq(Nat \ {0})] : Placed(ts, spots, n, r.tracks, r.seen)}

LEMMA PlacedStep ==
  ASSUME NEW ts \in Tracks, NEW spots \in Seq(Places), Apart(spots),
         NEW n \in 1..Len(spots), NEW x \in PlacedAt(ts, spots, n - 1)
  PROVE  Analytic!Detect(x, spots[n]) \in PlacedAt(ts, spots, n)
  <1> DEFINE p == spots[n]
  <1>1. /\ x \in [tracks : Tracks, seen : Seq(Nat \ {0})]
        /\ Placed(ts, spots, n - 1, x.tracks, x.seen)
    BY DEF PlacedAt
  <1>2. /\ Ordered(x.tracks) /\ Len(x.seen) = n - 1
        /\ \A m \in 1..(n - 1) : x.seen[m] \in DOMAIN x.tracks
                                 /\ x.tracks[x.seen[m]].place = spots[m]
        /\ \A i \in DOMAIN x.tracks : i \in DOMAIN ts \/ \E m \in 1..(n - 1) : x.seen[m] = i
        /\ DOMAIN ts \subseteq DOMAIN x.tracks
    BY <1>1 DEF Placed
  <1>3. p \in Places /\ n \in Nat /\ n >= 1 /\ n <= Len(spots) /\ Len(spots) \in Nat
    OBVIOUS
  <1>4. x = [tracks |-> x.tracks, seen |-> x.seen] /\ x.tracks \in Tracks /\ x.seen \in Seq(Nat \ {0})
    BY <1>1
  <1>5. x.tracks \in Seq(Track) /\ Len(x.tracks) \in Nat /\ DOMAIN x.tracks = 1..Len(x.tracks)
    BY <1>4 DEF Tracks
  <1> HIDE DEF p
  <1>6. PICK id \in Nat \ {0}, new \in Tracks : Detects(x.tracks, x.seen, p, id, new)
    BY <1>3, <1>4, Detected
  <1> DEFINE seen == Append(x.seen, id)
             r == [tracks |-> new, seen |-> seen]
  <1>7. /\ seen \in Seq(Nat \ {0}) /\ Len(seen) = n /\ seen[n] = id
        /\ \A m \in 1..(n - 1) : seen[m] = x.seen[m]
    BY <1>2, <1>3, <1>4
  <1> HIDE DEF seen
  <1>8. ASSUME NEW m \in 1..(n - 1)
        PROVE  m \in DOMAIN spots /\ n \in DOMAIN spots /\ m # n /\ ~Analytic!Near(spots[m], p)
    BY <1>3 DEF Apart, p
  <1>9. Placed(ts, spots, n, new, seen)
    <2>1. CASE Analytic!Close(x.tracks, p) # {}
      <3>1. id \in Analytic!Close(x.tracks, p)
        <4>1. Analytic!Nearest(x.tracks, p) \in Analytic!Close(x.tracks, p)
          BY <1>3, <1>4, <2>1, NearestIsClose
        <4>2. id = x.tracks[Analytic!Nearest(x.tracks, p)].id
          BY <1>6, <2>1 DEF Detects, Analytic!IdOf
        <4>3. Analytic!Nearest(x.tracks, p) \in DOMAIN x.tracks
          BY <4>1 DEF Analytic!Close
        <4>4. id = Analytic!Nearest(x.tracks, p)
          BY <1>2, <4>2, <4>3 DEF Ordered
        <4> QED
          BY <4>1, <4>4
      <3>2. id \in DOMAIN x.tracks /\ x.tracks[id].id = id /\ Analytic!Near(x.tracks[id].place, p)
        BY <1>2, <3>1 DEF Analytic!Close, Ordered
      <3>3. new = [x.tracks EXCEPT ![id] = [id |-> id, place |-> p]]
        <4>1. PICK k \in DOMAIN x.tracks :
                x.tracks[k].id = id /\ new = [x.tracks EXCEPT ![k] = [id |-> id, place |-> p]]
          BY <1>6, <2>1, <3>2 DEF Detects
        <4>2. k = id
          BY <1>2, <4>1 DEF Ordered
        <4> QED
          BY <4>1, <4>2
      <3>4. /\ DOMAIN new = DOMAIN x.tracks /\ new[id].id = id /\ new[id].place = p
            /\ \A i \in DOMAIN x.tracks : i # id => new[i] = x.tracks[i]
        BY <1>5, <3>2, <3>3
      <3>5. Ordered(new)
        BY <1>2, <3>4 DEF Ordered
      <3>6. ASSUME NEW m \in 1..n PROVE seen[m] \in DOMAIN new /\ new[seen[m]].place = spots[m]
        <4>1. CASE m = n
          BY <1>7, <3>2, <3>4, <4>1 DEF p
        <4>2. CASE m # n
          <5>1. m \in 1..(n - 1)
            BY <1>3, <4>2
          <5>2. seen[m] = x.seen[m] /\ seen[m] \in DOMAIN x.tracks
                /\ x.tracks[seen[m]].place = spots[m]
            BY <1>2, <1>7, <5>1
          <5>3. seen[m] # id
            BY <1>8, <3>2, <5>1, <5>2
          <5> QED
            BY <3>4, <5>2, <5>3
        <4> QED
          BY <4>1, <4>2
      <3>7. \A i \in DOMAIN new : i \in DOMAIN ts \/ \E m \in 1..n : seen[m] = i
        BY <1>2, <1>3, <1>7, <3>4
      <3> QED
        BY <1>2, <1>7, <3>4, <3>5, <3>6, <3>7 DEF Placed
    <2>2. CASE Analytic!Close(x.tracks, p) = {}
      <3>1. id = Len(x.tracks) + 1
        BY <1>6, <2>2 DEF Detects, Analytic!IdOf
      <3>2. \A k \in DOMAIN x.tracks : x.tracks[k].id # id
        BY <1>2, <1>5, <3>1 DEF Ordered
      <3>3. new = Append(x.tracks, [id |-> id, place |-> p])
        BY <1>6, <3>2 DEF Detects
      <3>4. /\ DOMAIN new = 1..(Len(x.tracks) + 1) /\ new[id].id = id /\ new[id].place = p
            /\ \A i \in DOMAIN x.tracks : new[i] = x.tracks[i]
        BY <1>5, <3>1, <3>3
      <3>5. \A i \in DOMAIN new : i = id \/ i \in DOMAIN x.tracks
        BY <1>5, <3>1, <3>4
      <3>6. id \in DOMAIN new /\ DOMAIN x.tracks \subseteq DOMAIN new
        BY <1>5, <3>1, <3>4
      <3>7. Ordered(new)
        BY <1>2, <3>4, <3>5 DEF Ordered
      <3>8. ASSUME NEW m \in 1..n PROVE seen[m] \in DOMAIN new /\ new[seen[m]].place = spots[m]
        <4>1. CASE m = n
          BY <1>7, <3>4, <3>6, <4>1 DEF p
        <4>2. CASE m # n
          <5>1. m \in 1..(n - 1)
            BY <1>3, <4>2
          <5>2. seen[m] = x.seen[m] /\ seen[m] \in DOMAIN x.tracks
                /\ x.tracks[seen[m]].place = spots[m]
            BY <1>2, <1>7, <5>1
          <5> QED
            BY <3>4, <3>6, <5>2
        <4> QED
          BY <4>1, <4>2
      <3>9. \A i \in DOMAIN new : i \in DOMAIN ts \/ \E m \in 1..n : seen[m] = i
        BY <1>2, <1>3, <1>7, <3>5
      <3> QED
        BY <1>2, <1>7, <3>6, <3>7, <3>8, <3>9 DEF Placed
    <2> QED
      BY <2>1, <2>2
  <1>10. r \in [tracks : Tracks, seen : Seq(Nat \ {0})] /\ r.tracks = new /\ r.seen = seen
    BY <1>7
  <1> HIDE DEF r
  <1>11. r \in PlacedAt(ts, spots, n)
    BY <1>9, <1>10 DEF PlacedAt
  <1>12. Analytic!Detect(x, p) = r
    BY <1>4, <1>6 DEF r, seen, Detects
  <1> QED
    BY <1>11, <1>12 DEF p

\* Every track is seen.
AllSeen(ts, seen) == \A i \in DOMAIN ts : \E n \in 1..Len(seen) : seen[n] = ts[i].id

\* The same of a whole frame: no two detections have one track, the first of a
\* picture that was empty is object 1, and no track is out of order if all go on.
Together(ts, spots, now, seen) ==
  /\ \A m, n \in 1..Len(spots) : seen[m] = seen[n] => m = n
  /\ ts = <<>> /\ spots # <<>> => \E n \in 1..Len(spots) : seen[n] = 1
  /\ spots = <<>> => now = <<>>
  /\ spots = <<>> \/ AllSeen(ts, seen) => Ordered(now)

LEMMA PlacedIs ==
  ASSUME NEW ts \in Tracks, Ordered(ts), NEW spots \in Seq(Places), Apart(spots)
  PROVE  LET u == Analytic!Update(ts, spots) IN Together(ts, spots, u.tracks, u.seen)
  <1> DEFINE G == [n \in 0..Len(spots) |-> PlacedAt(ts, spots, n)]
             u == Analytic!Update(ts, spots)
  <1>1. Len(spots) \in Nat
    OBVIOUS
  <1>2. [tracks |-> ts, seen |-> <<>>] \in G[0]
    <2>1. Placed(ts, spots, 0, ts, <<>>)
      BY DEF Placed
    <2> QED
      BY <1>1, <2>1 DEF PlacedAt
  <1>3. ASSUME NEW n \in 1..Len(spots), NEW x \in G[n - 1]
        PROVE  Analytic!Detect(x, spots[n]) \in G[n]
    <2>1. n - 1 \in 0..Len(spots) /\ n \in 0..Len(spots)
      BY <1>1
    <2>2. x \in PlacedAt(ts, spots, n - 1)
      BY <1>3, <2>1
    <2> QED
      BY <2>1, <2>2, PlacedStep
  <1>4. \E r \in G[Len(spots)] :
          u = [tracks |-> Analytic!Kept(r.tracks, r.seen), seen |-> r.seen]
    <2> HIDE DEF G
    <2> QED
      BY <1>1, <1>2, <1>3, UpdateSteps
  <1>5. PICK r \in PlacedAt(ts, spots, Len(spots)) :
          u = [tracks |-> Analytic!Kept(r.tracks, r.seen), seen |-> r.seen]
    BY <1>1, <1>4
  <1> HIDE DEF G
  <1>6. PICK now, seen : now = r.tracks /\ seen = r.seen
    OBVIOUS
  <1>7. /\ now \in Tracks /\ seen \in Seq(Nat \ {0})
        /\ Placed(ts, spots, Len(spots), now, seen)
    BY <1>6 DEF PlacedAt
  <1>8. /\ Ordered(now) /\ Len(seen) = Len(spots)
        /\ \A m \in 1..Len(spots) : seen[m] \in DOMAIN now /\ now[seen[m]].place = spots[m]
        /\ \A i \in DOMAIN now : i \in DOMAIN ts \/ \E m \in 1..Len(spots) : seen[m] = i
    BY <1>7 DEF Placed
  <1>9. u.tracks = Analytic!Kept(now, seen) /\ u.seen = seen
    BY <1>5, <1>6
  <1> HIDE DEF u
  <1>10. /\ Keep(now, seen) = DOMAIN now => u.tracks = now
         /\ Keep(now, seen) = {} => u.tracks = <<>>
    BY <1>7, <1>9, KeptIs
  <1>11. now \in Seq(Track) /\ Len(now) \in Nat /\ DOMAIN now = 1..Len(now)
    BY <1>7 DEF Tracks
  <1>12. ASSUME NEW m \in 1..Len(spots), NEW n \in 1..Len(spots), seen[m] = seen[n]
         PROVE  m = n
    <2>1. spots[m] = spots[n] /\ spots[m] \in Int
      <3>1. spots[m] = spots[n]
        BY <1>8, <1>12
      <3>2. spots[m] \in Places
        OBVIOUS
      <3> QED
        BY <3>1, <3>2, Numbers
    <2>2. Analytic!Near(spots[m], spots[n])
      BY <2>1 DEF Analytic!Near, Analytic!Distance
    <2> QED
      BY <2>2 DEF Apart
  <1>13. ASSUME ts = <<>>, spots # <<>> PROVE \E n \in 1..Len(spots) : seen[n] = 1
    <2>1. 1 \in 1..Len(spots)
      BY <1>13
    <2>2. seen[1] \in DOMAIN now
      BY <1>8, <2>1
    <2>3. 1 \in DOMAIN now
      BY <1>11, <2>2
    <2>4. 1 \notin DOMAIN ts
      BY <1>13
    <2> QED
      BY <1>8, <2>3, <2>4
  <1>14. ASSUME spots = <<>> PROVE u.tracks = <<>>
    <2>1. 1..Len(seen) = {}
      BY <1>8, <1>14
    <2>2. Keep(now, seen) = {}
      BY <2>1 DEF Keep, Analytic!Contains
    <2> QED
      BY <1>10, <2>2
  <1>15. ASSUME AllSeen(ts, seen) PROVE Ordered(u.tracks)
    <2>1. \A i \in DOMAIN ts : \E n \in 1..Len(seen) : seen[n] = i
      BY <1>15 DEF AllSeen, Ordered
    <2>2. \A i \in DOMAIN now : \E n \in 1..Len(seen) : seen[n] = now[i].id
      BY <1>8, <2>1 DEF Ordered
    <2>3. Keep(now, seen) = DOMAIN now
      BY <2>2 DEF Keep, Analytic!Contains
    <2> QED
      BY <1>8, <1>10, <2>3
  <1>16. Ordered(<<>>)
    BY DEF Ordered
  <1>17. Together(ts, spots, u.tracks, u.seen)
    BY <1>9, <1>12, <1>13, <1>14, <1>15, <1>16 DEF Together
  <1> QED
    BY <1>17 DEF u

-----------------------------------------------------------------------------
(* The seconds an object has been alone.                                   *)

\* It has been counted as alone no longer than its place has been, and it is
\* called abandoned, or nearly so, by that count.
Watched(o, times) ==
  /\ o.unattended # None =>
       /\ Len(o.places) = Persistence /\ Still(o)
       /\ times[o.places[Persistence]] >= o.unattended
  /\ o.state = "ABANDONED_PENDING" =>
       o.unattended # None /\ o.unattended >= Analytic!AtMost(Abandoned, Pending)
  /\ o.state = "ABANDONED_CONFIRMED" => o.unattended # None /\ o.unattended >= Abandoned

LEMMA OlderWatched ==
  ASSUME NEW o \in Object, o # None, o.state # "CLEARED", NEW gap \in Gaps,
         NEW times \in [Places -> Nat], Watched(o, times), NEW aged,
         aged = [p \in Places |-> Analytic!AtMost(Abandoned, times[p] + gap)]
  PROVE  Analytic!Older(o, gap) \in Live /\ Watched(Analytic!Older(o, gap), aged)
  <1>1. PICK r : r = Analytic!Older(o, gap)
    OBVIOUS
  <1>2. /\ r \in Live /\ r.places = o.places /\ r.state = o.state
        /\ r.unattended = IF o.unattended = None THEN None
                          ELSE Analytic!AtMost(Abandoned, o.unattended + gap)
    BY <1>1, OlderIs
  <1>3. o.unattended \in Ages /\ o.places \in Seq(Places) /\ gap \in Nat \ {0}
    BY LiveFields, Numbers
  <1>4. CASE o.unattended = None
    BY <1>1, <1>2, <1>4 DEF Watched
  <1>5. CASE o.unattended # None
    <2>1. PICK u, p : u = o.unattended /\ p = o.places[Persistence]
      OBVIOUS
    <2>2. u \in Nat /\ u <= Abandoned
      BY <1>3, <1>5, <2>1 DEF Ages
    <2>3. /\ Len(o.places) = Persistence /\ Still(o) /\ times[p] >= u
          /\ o.state = "ABANDONED_PENDING" => u >= Analytic!AtMost(Abandoned, Pending)
          /\ o.state = "ABANDONED_CONFIRMED" => u >= Abandoned
      BY <1>5, <2>1 DEF Watched
    <2>4. p \in Places
      BY <1>3, <2>1, <2>3, Numbers
    <2>5. times[p] \in Nat /\ aged[p] = Analytic!AtMost(Abandoned, times[p] + gap)
      BY <2>4
    <2>6. PICK w : w = r.unattended
      OBVIOUS
    <2>7. w = Analytic!AtMost(Abandoned, u + gap)
      BY <1>2, <1>5, <2>1, <2>6
    <2>8. w \in Nat /\ w # None /\ w >= u /\ aged[p] >= w
      BY <1>3, <2>2, <2>3, <2>5, <2>7, Numbers DEF Analytic!AtMost
    <2>9. /\ r.state = "ABANDONED_PENDING" => w >= Analytic!AtMost(Abandoned, Pending)
          /\ r.state = "ABANDONED_CONFIRMED" => w >= Abandoned
      BY <1>2, <2>2, <2>3, <2>8, Numbers DEF Analytic!AtMost
    <2>10. Still(r)
      BY <1>2, <2>3 DEF Still
    <2>11. Watched(r, aged)
      BY <1>2, <2>1, <2>3, <2>6, <2>8, <2>9, <2>10 DEF Watched
    <2> QED
      BY <1>1, <1>2, <2>11
  <1> QED
    BY <1>4, <1>5

LEMMA MissingWatched ==
  ASSUME NEW o \in Live, NEW times, Watched(o, times)
  PROVE  Watched(Analytic!Missing(o), times)
  <1>1. PICK r : r = Analytic!Missing(o)
    OBVIOUS
  <1>2. /\ r.places = o.places /\ r.unattended = o.unattended
        /\ r.state \in {o.state, "REMOVED", "CLEARED"}
    BY <1>1, MissingIs
  <1> QED
    BY <1>1, <1>2 DEF Watched, Still

LEMMA LookedWatched ==
  ASSUME Persistence >= 2, NEW o \in Live \cup {None}, NEW aged \in [Places -> Nat],
         o # None => Watched(o, aged), NEW place \in Places, NEW attended \in BOOLEAN,
         NEW times \in [Places -> Nat], ~attended => times[place] >= aged[place]
  PROVE  Watched(Analytic!Advance(Analytic!Upsert(o, place), attended), times)
  <1>1. PICK v : v = Analytic!Upsert(o, place)
    OBVIOUS
  <1>2. PICK r : r = Analytic!Advance(v, attended)
    OBVIOUS
  <1>3. /\ v \in Live /\ v.places[Len(v.places)] = place
        /\ o = None => v.places = <<place>> /\ v.state = "NEW" /\ v.unattended = None
        /\ o # None => /\ v.places = Moved(o.places, place) /\ v.state = o.state
                       /\ v.unattended = o.unattended
    BY <1>1, UpsertIs
  <1>4. Looked(v, attended, r)
    BY <1>2, <1>3, AdvanceIs
  <1>5. /\ Persistence \in Nat /\ Len(v.places) \in 1..Persistence
        /\ v \in Object /\ v.unattended \in Ages
    BY <1>3, LiveFields, Numbers DEF Live
  <1>6. r.places = v.places
    BY <1>4 DEF Looked
  <1>7. ASSUME o # None, o.unattended # None
        PROVE  /\ Len(o.places) = Persistence /\ Len(v.places) = Persistence
               /\ Still(v) => o.places[Persistence] = place
    <2>1. o \in Live /\ Len(o.places) = Persistence
      BY <1>7 DEF Watched
    <2>2. o.places \in Seq(Places)
      BY <2>1, LiveFields DEF Live
    <2>3. PICK ps, vs : ps = o.places /\ vs = v.places
      OBVIOUS
    <2>4. /\ vs = Moved(ps, place) /\ ps \in Seq(Places)
          /\ Len(ps) = Persistence /\ Len(ps) \in 1..Persistence
      BY <1>3, <1>5, <1>7, <2>1, <2>2, <2>3
    <2>5. /\ vs \in Seq(Places) /\ Len(vs) = IF Len(ps) < Persistence THEN Len(ps) + 1 ELSE Persistence
          /\ \A i \in 1..(Len(vs) - 1) : vs[i] = ps[i + Len(ps) + 1 - Len(vs)]
      BY <2>4, MovedIs
    <2>6. Len(vs) = Persistence /\ vs[Persistence - 1] = ps[Persistence]
      <3>1. Len(vs) = Persistence
        BY <1>5, <2>4, <2>5
      <3>2. Persistence - 1 \in 1..(Len(vs) - 1)
            /\ (Persistence - 1) + Len(ps) + 1 - Len(vs) = Persistence
        BY <1>5, <2>4, <3>1
      <3> QED
        BY <2>5, <3>1, <3>2
    <2>7. Persistence - 1 \in DOMAIN v.places /\ Persistence \in DOMAIN v.places
      BY <1>5, <2>3, <2>5, <2>6
    <2>8. v.places[Persistence] = place
      BY <1>3, <2>3, <2>6
    <2>9. Still(v) => v.places[Persistence - 1] = v.places[Persistence]
      BY <2>7, Zenon DEF Still
    <2> QED
      BY <2>1, <2>3, <2>6, <2>8, <2>9
  <1>8. /\ v.state = "ABANDONED_PENDING" => o # None /\ o.unattended # None
        /\ v.state = "ABANDONED_CONFIRMED" => o # None /\ o.unattended # None
    BY <1>3 DEF Watched
  <1>9. CASE Len(v.places) < Persistence
    <2>1. r.state = v.state /\ r.unattended = v.unattended
      BY <1>4, <1>9 DEF Looked
    <2>2. v.unattended = None
      BY <1>3, <1>7, <1>9
    <2>3. ~(o # None /\ o.unattended # None)
      BY <1>3, <2>2
    <2> QED
      BY <1>1, <1>2, <1>8, <2>1, <2>2, <2>3 DEF Watched
  <1>10. CASE Len(v.places) = Persistence /\ ~(Still(v) /\ ~attended)
    <2>1. r.unattended = None /\ r.state \in {"MOVING", "STATIC_CANDIDATE"}
      BY <1>4, <1>10, Zenon DEF Looked
    <2> QED
      BY <1>1, <1>2, <2>1 DEF Watched
  <1>11. CASE Len(v.places) = Persistence /\ Still(v) /\ ~attended
    <2>1. PICK w : w = IF v.unattended = None THEN 0 ELSE v.unattended
      OBVIOUS
    <2>2. w \in Nat /\ w # None
      BY <1>5, <2>1, AgesAre, Numbers
    <2>3. /\ r.unattended = w
          /\ w >= Abandoned => r.state = "ABANDONED_CONFIRMED"
          /\ w < Abandoned /\ w >= Pending => r.state = "ABANDONED_PENDING"
          /\ w < Abandoned /\ w < Pending => r.state \in {"STATIC_CANDIDATE", v.state}
      BY <1>4, <1>11, <2>1, Zenon DEF Looked
    <2>4. times[place] \in Nat /\ aged[place] \in Nat /\ times[place] >= aged[place]
      BY <1>11
    <2>5. v.unattended # None =>
            /\ w = o.unattended /\ o.places[Persistence] = place /\ aged[place] >= w
            /\ v.state = "ABANDONED_PENDING" => w >= Analytic!AtMost(Abandoned, Pending)
            /\ v.state = "ABANDONED_CONFIRMED" => w >= Abandoned
      <3> SUFFICES ASSUME v.unattended # None
                   PROVE  /\ w = o.unattended /\ o.places[Persistence] = place /\ aged[place] >= w
                          /\ v.state = "ABANDONED_PENDING" => w >= Analytic!AtMost(Abandoned, Pending)
                          /\ v.state = "ABANDONED_CONFIRMED" => w >= Abandoned
        OBVIOUS
      <3>1. o # None /\ o.unattended = w /\ o.unattended # None
        BY <1>3, <2>1
      <3>2. o.places[Persistence] = place
        BY <1>7, <1>11, <3>1
      <3>3. v.state = o.state
        BY <1>3, <3>1
      <3> QED
        BY <3>1, <3>2, <3>3 DEF Watched
    <2>6. times[place] >= w
      <3>1. CASE v.unattended = None
        BY <2>1, <2>4, <3>1
      <3>2. CASE v.unattended # None
        BY <2>2, <2>4, <2>5, <3>2
      <3> QED
        BY <3>1, <3>2
    <2>7. r.state = "ABANDONED_PENDING" => w >= Analytic!AtMost(Abandoned, Pending)
      <3> SUFFICES ASSUME r.state = "ABANDONED_PENDING", ~(w >= Analytic!AtMost(Abandoned, Pending))
                   PROVE  FALSE
        OBVIOUS
      <3>1. w < Abandoned /\ w < Pending
        BY <2>2, Numbers DEF Analytic!AtMost
      <3>2. v.state = "ABANDONED_PENDING"
        BY <2>3, <3>1
      <3>3. v.unattended # None
        BY <1>3, <1>8, <3>2
      <3> QED
        BY <2>5, <3>2, <3>3
    <2>8. r.state = "ABANDONED_CONFIRMED" => w >= Abandoned
      <3> SUFFICES ASSUME r.state = "ABANDONED_CONFIRMED", ~(w >= Abandoned) PROVE FALSE
        OBVIOUS
      <3>1. w < Abandoned /\ w < Pending
        BY <2>2, <2>3, Numbers
      <3>2. v.state = "ABANDONED_CONFIRMED"
        BY <2>3, <3>1
      <3>3. v.unattended # None
        BY <1>3, <1>8, <3>2
      <3> QED
        BY <2>5, <3>2, <3>3
    <2>9. Still(r) /\ r.places[Persistence] = place
      BY <1>3, <1>6, <1>11 DEF Still
    <2> QED
      BY <1>1, <1>2, <1>6, <1>11, <2>2, <2>3, <2>6, <2>7, <2>8, <2>9 DEF Watched
  <1> QED
    BY <1>5, <1>9, <1>10, <1>11

-----------------------------------------------------------------------------
(* Frames, while nothing is blurred.                                       *)

\* Objects are numbered in their order and, but for the only one, known no
\* longer than they are seen; what is known of each is true of its place.
AloneInv ==
  /\ alone \in [Places -> 0..Abandoned]
  /\ ~blurred =>
       /\ ~mixed /\ Ordered(tracks)
       /\ \A id \in Analytic!Ids : object[id] # None =>
            Watched(object[id], alone) /\ (id \in DOMAIN tracks \/ (tracks = <<>> /\ id = 1))

Attends(persons, place) == \E q \in Analytic!Range(persons) : Analytic!Near(place, q)

\* What a frame shows, and what it does to the time a place has been alone.
Clearly(gap, objects, persons, now, who) ==
  /\ Ordered(tracks) /\ Together(tracks, objects, now.tracks, now.seen)
  /\ \A i \in DOMAIN tracks :
       \/ \E n \in 1..Len(objects) : now.seen[n] = tracks[i].id
       \/ objects = <<>> /\ \A id \in Analytic!Ids : id # tracks[i].id => object[id] = None
  /\ \A place \in Places : Attends(persons, place) => By(who.tracks, place)
  /\ \A place \in Places :
       alone'[place] = IF Analytic!Contains(objects, place) /\ Attends(persons, place) THEN 0
                       ELSE Analytic!AtMost(Abandoned, alone[place] + gap)

LEMMA ClearFrame ==
  ASSUME TInv, AloneInv, NEW objects \in Seq(Places), NEW persons \in Seq(Places),
         NEW gap \in Gaps, NEW now, NEW who, Shows(gap, objects, persons, now, who), ~blurred'
  PROVE  ~blurred /\ ~mixed' /\ Clearly(gap, objects, persons, now, who)
  <1>1. /\ now = Analytic!Update(tracks, objects)
        /\ Tracked(objects, 2 * MaxObjects, now.tracks, now.seen)
        /\ Tracked(persons, 2 * MaxPeople, who.tracks, who.seen)
        /\ Analytic!Frame(gap, objects, persons, now, who)
    BY DEF Shows
  <1>2. /\ ~blurred /\ ~Analytic!Lost(objects, now.seen) /\ Analytic!IsInjective(who.seen)
        /\ ~\E i, j \in DOMAIN objects : i # j /\ Analytic!Near(objects[i], objects[j])
    BY <1>1 DEF Analytic!Frame
  <1>3. Apart(objects) /\ Ordered(tracks) /\ tracks \in Tracks /\ ~mixed
    BY <1>2 DEF Apart, AloneInv, TInv
  <1>4. Together(tracks, objects, now.tracks, now.seen)
    BY <1>1, <1>3, PlacedIs
  <1>5. /\ Len(now.seen) = Len(objects) /\ DOMAIN now.seen = 1..Len(objects)
        /\ Len(who.seen) = Len(persons) /\ DOMAIN who.seen = 1..Len(persons)
    BY <1>1 DEF Tracked
  <1>6. ~mixed'
    <2>1. Analytic!IsInjective(now.seen)
      BY <1>4, <1>5 DEF Together, Analytic!IsInjective
    <2> QED
      BY <1>1, <1>3, <2>1 DEF Analytic!Frame
  <1>7. ASSUME NEW i \in DOMAIN tracks
        PROVE  \/ \E n \in 1..Len(objects) : now.seen[n] = tracks[i].id
               \/ objects = <<>> /\ \A id \in Analytic!Ids : id # tracks[i].id => object[id] = None
    <2>1. tracks[i] \in Analytic!Range(tracks)
      BY DEF Analytic!Range
    <2>2. PICK k \in Analytic!Range(tracks) : k = tracks[i]
      BY <2>1
    <2>3. \/ Analytic!Contains(now.seen, k.id)
          \/ objects = <<>> /\ \A id \in Analytic!Ids \ {k.id} : object[id] = None
      BY <1>2 DEF Analytic!Lost
    <2> QED
      BY <1>5, <2>2, <2>3 DEF Analytic!Contains
  <1>8. ASSUME NEW place \in Places, Attends(persons, place)
        PROVE  By(who.tracks, place)
    <2>1. PICK m \in DOMAIN persons : Analytic!Near(place, persons[m])
      BY <1>8 DEF Attends, Analytic!Range
    <2>2. m \in 1..Len(persons) /\ persons[m] \in Places
      OBVIOUS
    <2>3. \A l \in (m + 1)..Len(persons) : who.seen[l] # who.seen[m]
      BY <1>2, <1>5, <2>2 DEF Analytic!IsInjective
    <2>4. PICK i \in DOMAIN who.tracks : who.tracks[i] = [id |-> who.seen[m], place |-> persons[m]]
      BY <1>1, <2>2, <2>3 DEF Tracked
    <2>5. who.tracks[i].place = persons[m] /\ who.tracks[i] \in Analytic!Range(who.tracks)
      BY <2>4 DEF Analytic!Range
    <2>6. place \in Int /\ persons[m] \in Int
      BY <2>2, Numbers
    <2>7. Analytic!Near(persons[m], place)
      BY <2>1, <2>6 DEF Analytic!Near, Analytic!Distance
    <2> QED
      BY <2>5, <2>7 DEF By
  <1>9. ASSUME NEW place \in Places
        PROVE  alone'[place] = IF Analytic!Contains(objects, place) /\ Attends(persons, place) THEN 0
                               ELSE Analytic!AtMost(Abandoned, alone[place] + gap)
    BY <1>1 DEF Analytic!Frame, Attends
  <1> QED
    BY <1>2, <1>3, <1>4, <1>6, <1>7, <1>8, <1>9 DEF Clearly

LEMMA TimesAre ==
  ASSUME TInv, AloneInv, NEW objects \in Seq(Places), NEW persons \in Seq(Places),
         NEW gap \in Gaps, NEW now, NEW who, Analytic!Frame(gap, objects, persons, now, who)
  PROVE  /\ alone \in [Places -> Nat] /\ alone' \in [Places -> 0..Abandoned]
         /\ alone' \in [Places -> Nat] /\ gap \in Nat
         /\ [p \in Places |-> Analytic!AtMost(Abandoned, alone[p] + gap)] \in [Places -> Nat]
  <1>1. alone \in [Places -> Nat] /\ gap \in Nat /\ Abandoned \in Nat
    BY Numbers DEF AloneInv
  <1>2. ASSUME NEW p \in Places
        PROVE  /\ Analytic!AtMost(Abandoned, alone[p] + gap) \in 0..Abandoned
               /\ Abandoned \in 0..Abandoned /\ 0 \in 0..Abandoned
    <2>1. alone[p] \in Nat
      BY <1>1
    <2> QED
      BY <1>1, <2>1 DEF Analytic!AtMost
  <1>3. alone' \in [Places -> 0..Abandoned]
    BY <1>2 DEF Analytic!Frame
  <1> QED
    BY <1>1, <1>2, <1>3

LEMMA KnownWatched ==
  ASSUME Persistence >= 2, TInv, AloneInv, NEW objects \in Seq(Places),
         NEW persons \in Seq(Places), NEW gap \in Gaps, NEW now, NEW who,
         Shows(gap, objects, persons, now, who), ~blurred',
         NEW id \in Analytic!Ids, object'[id] # None
  PROVE  /\ Watched(object'[id], alone')
         /\ id \in DOMAIN now.tracks \/ (now.tracks = <<>> /\ id = 1)
  <1>1. PICK o, r, times : o = Analytic!Older(object[id], gap) /\ r = object'[id] /\ times = alone'
    OBVIOUS
  <1>2. /\ ~blurred /\ Clearly(gap, objects, persons, now, who)
        /\ Tracked(objects, 2 * MaxObjects, now.tracks, now.seen)
        /\ Analytic!Frame(gap, objects, persons, now, who)
    BY ClearFrame DEF Shows
  <1>3. /\ object[id] \in Object \cup {None} /\ o \in Live \cup {None}
        /\ r = Analytic!Known(o, id, now, who.tracks)
    <2>1. object[id] \in Object \cup {None}
      BY DEF TInv
    <2> QED
      BY <1>1, <2>1, KnownAfter
  <1>4. KnownAs(o, id, objects, now, who.tracks, r)
    BY <1>2, <1>3, KnownIs
  <1>5. PICK aged : aged = [p \in Places |-> Analytic!AtMost(Abandoned, alone[p] + gap)]
    OBVIOUS
  <1>6. /\ alone \in [Places -> Nat] /\ times \in [Places -> Nat] /\ aged \in [Places -> Nat]
    BY <1>1, <1>2, <1>5, TimesAre
  <1>7. \A place \in Places : 
          times[place] = IF Analytic!Contains(objects, place) /\ Attends(persons, place) THEN 0
                         ELSE aged[place]
    BY <1>1, <1>2, <1>5 DEF Clearly
  <1>8. o # None => /\ object[id] # None /\ Watched(o, aged)
                    /\ id \in DOMAIN tracks \/ (tracks = <<>> /\ id = 1)
    <2> SUFFICES ASSUME o # None
                 PROVE  /\ object[id] # None /\ Watched(o, aged)
                        /\ id \in DOMAIN tracks \/ (tracks = <<>> /\ id = 1)
      OBVIOUS
    <2>1. /\ object[id] = None => o = None
          /\ object[id] # None /\ object[id].state = "CLEARED" => o = None
      BY <1>1, <1>3, OlderIs
    <2>2. object[id] # None /\ object[id].state # "CLEARED" /\ object[id] \in Object
      BY <1>3, <2>1
    <2>3. Watched(object[id], alone) /\ (id \in DOMAIN tracks \/ (tracks = <<>> /\ id = 1))
      BY <1>2, <2>2 DEF AloneInv
    <2>4. Watched(o, aged)
      BY <1>1, <1>5, <1>6, <2>2, <2>3, OlderWatched
    <2> QED
      BY <2>2, <2>3, <2>4
  <1>9. /\ Ordered(tracks) /\ Together(tracks, objects, now.tracks, now.seen)
        /\ \A i \in DOMAIN tracks :
             \/ \E n \in 1..Len(objects) : now.seen[n] = tracks[i].id
             \/ objects = <<>> /\ \A x \in Analytic!Ids : x # tracks[i].id => object[x] = None
        /\ Len(now.seen) = Len(objects)
    BY <1>2 DEF Clearly, Tracked
  <1>10. CASE \E n \in 1..Len(objects) : now.seen[n] = id
    <2>1. PICK n \in 1..Len(objects) : now.seen[n] = id
      BY <1>10
    <2>2. \A l \in 1..Len(objects) : now.seen[l] = id => l = n
      BY <1>9, <2>1 DEF Together
    <2>3. \A l \in (n + 1)..Len(objects) : now.seen[l] # now.seen[n]
      BY <2>1, <2>2
    <2>4. PICK i \in DOMAIN now.tracks :
            now.tracks[i] = [id |-> now.seen[n], place |-> objects[n]]
      BY <1>2, <2>3 DEF Tracked
    <2>5. PICK place \in Places : place = objects[n]
      OBVIOUS
    <2>6. now.tracks[i].id = id /\ now.tracks[i].place = place
      BY <2>1, <2>4, <2>5
    <2>7. PICK attended \in BOOLEAN : attended = By(who.tracks, place)
      BY DEF By
    <2>8. r = Analytic!Advance(Analytic!Upsert(o, place), attended)
      <3>1. r = Analytic!Advance(Analytic!Upsert(o, now.tracks[i].place),
                                 By(who.tracks, now.tracks[i].place))
        BY <1>4, <2>1, <2>2, <2>6 DEF KnownAs
      <3> QED
        BY <2>6, <2>7, <3>1
    <2>9. ~attended => times[place] >= aged[place]
      <3> SUFFICES ASSUME ~attended PROVE times[place] >= aged[place]
        OBVIOUS
      <3>1. ~Attends(persons, place)
        BY <1>2, <2>7, Zenon DEF Clearly
      <3>2. times[place] = aged[place] /\ aged[place] \in Nat
        BY <1>6, <1>7, <3>1
      <3> QED
        BY <3>2
    <2>10. Watched(r, times)
      BY <1>3, <1>6, <1>8, <2>8, <2>9, LookedWatched
    <2>11. AllSeen(tracks, now.seen)
      <3>1. objects # <<>>
        BY <2>1
      <3> QED
        BY <1>9, <3>1 DEF AllSeen
    <2>12. now.tracks[i].id = i
      BY <1>9, <2>11 DEF Together, Ordered
    <2> QED
      BY <1>1, <2>6, <2>10, <2>12
  <1>11. CASE \A n \in 1..Len(objects) : now.seen[n] # id
    <2>1. r = IF o = None THEN None ELSE Analytic!Missing(o)
      BY <1>4, <1>11 DEF KnownAs
    <2>2. o # None /\ o \in Live /\ r = Analytic!Missing(o)
      BY <1>1, <1>3, <2>1
    <2>3. objects = <<>> /\ id = 1
      <3>1. CASE id \in DOMAIN tracks
        <4>1. tracks[id].id = id
          BY <1>9, <3>1 DEF Ordered
        <4>2. objects = <<>>
          BY <1>9, <1>11, <3>1, <4>1
        <4>3. tracks \in Seq(Track)
          BY DEF TInv, Tracks
        <4>4. 1 \in DOMAIN tracks
          BY <3>1, <4>3
        <4>5. tracks[1].id = 1
          BY <1>9, <4>4 DEF Ordered
        <4>6. id # 1 => object[id] = None
          BY <1>9, <4>2, <4>4, <4>5
        <4> QED
          BY <1>8, <2>2, <4>2, <4>6
      <3>2. CASE tracks = <<>> /\ id = 1
        BY <1>9, <1>11, <3>2 DEF Together
      <3> QED
        BY <1>8, <2>2, <3>1, <3>2
    <2>4. now.tracks = <<>>
      BY <1>9, <2>3 DEF Together
    <2>5. times = aged
      <3>1. \A place \in Places : times[place] = aged[place]
        BY <1>7, <2>3 DEF Analytic!Contains
      <3> QED
        BY <1>6, <3>1
    <2>6. Watched(r, times)
      BY <1>8, <2>2, <2>5, MissingWatched
    <2> QED
      BY <1>1, <2>3, <2>4, <2>6
  <1> QED
    BY <1>10, <1>11

LEMMA FrameAlone ==
  ASSUME Persistence >= 2, TInv, AloneInv, Analytic!AnyFrame
  PROVE  AloneInv'
  <1>1. PICK objects, persons, gap, now, who :
          /\ objects \in Seq(Places) /\ persons \in Seq(Places) /\ gap \in Gaps
          /\ Shows(gap, objects, persons, now, who)
    BY FrameIs
  <1>2. /\ tracks' = now.tracks /\ Analytic!Frame(gap, objects, persons, now, who)
        /\ now.tracks \in Tracks
    BY <1>1 DEF Shows, Analytic!Frame, Tracked
  <1>3. alone' \in [Places -> 0..Abandoned]
    BY <1>1, <1>2, TimesAre
  <1>4. ASSUME ~blurred'
        PROVE  /\ ~mixed' /\ Ordered(tracks')
               /\ \A id \in Analytic!Ids : object'[id] # None =>
                    /\ Watched(object'[id], alone')
                    /\ id \in DOMAIN tracks' \/ (tracks' = <<>> /\ id = 1)
    <2>1. ~mixed' /\ Clearly(gap, objects, persons, now, who) /\ Len(now.seen) = Len(objects)
      <3>1. ~mixed' /\ Clearly(gap, objects, persons, now, who)
        BY <1>1, <1>4, ClearFrame
      <3> QED
        BY <1>1, <3>1 DEF Shows, Tracked
    <2>2. Together(tracks, objects, now.tracks, now.seen)
          /\ (objects = <<>> \/ AllSeen(tracks, now.seen))
      BY <2>1 DEF Clearly, AllSeen
    <2>3. Ordered(now.tracks)
      BY <2>2 DEF Together
    <2>4. \A id \in Analytic!Ids : object'[id] # None =>
            /\ Watched(object'[id], alone')
            /\ id \in DOMAIN now.tracks \/ (now.tracks = <<>> /\ id = 1)
      BY <1>1, <1>4, KnownWatched
    <2> QED
      BY <1>2, <2>1, <2>3, <2>4
  <1> QED
    BY <1>3, <1>4 DEF AloneInv, Watched, Ordered

LEMMA NextAlone ==
  ASSUME Persistence >= 2, TInv, AloneInv, [Analytic!Next]_analytic
  PROVE  AloneInv'
  <1>1. CASE UNCHANGED analytic
    BY <1>1 DEF analytic, AloneInv, Watched, Ordered
  <1>2. CASE Analytic!AnyFrame
    BY <1>2, FrameAlone
  <1>3. CASE Analytic!Clear
    <2>1. /\ alone' = alone /\ mixed' = mixed /\ tracks' = <<>> /\ (~blurred' => ~blurred)
          /\ ~blurred' => \A id \in Analytic!Ids : object'[id] = None
      <3>1. CASE Analytic!Unload
        BY <3>1 DEF Analytic!Unload
      <3>2. ASSUME NEW id \in Analytic!Ids, Analytic!ClearObject(id)
            PROVE  /\ alone' = alone /\ mixed' = mixed /\ tracks' = <<>> /\ (~blurred' => ~blurred)
                   /\ ~blurred' => \A x \in Analytic!Ids : object'[x] = None
        BY <3>2 DEF Analytic!ClearObject, TInv
      <3> QED
        BY <1>3, <3>1, <3>2 DEF Analytic!Clear
    <2>2. Ordered(tracks')
      BY <2>1 DEF Ordered
    <2> QED
      BY <2>1, <2>2 DEF AloneInv, Ordered
  <1> QED
    BY <1>1, <1>2, <1>3 DEF Analytic!Next

LEMMA InitAlone == Analytic!Init => AloneInv
  <1> SUFFICES ASSUME Analytic!Init PROVE AloneInv
    OBVIOUS
  <1>1. Ordered(<<>>) /\ Abandoned \in 0..Abandoned
    BY Numbers DEF Ordered
  <1> QED
    BY <1>1 DEF Analytic!Init, AloneInv

LEMMA AloneSays ==
  ASSUME TInv, AloneInv
  PROVE  Analytic!Apart /\ Analytic!AloneWhenAbandoned
  <1>1. Analytic!Apart
    BY DEF AloneInv, Analytic!Apart
  <1>2. ASSUME ~blurred, NEW id \in Analytic!Ids, object[id] # None, NEW place,
               place = Analytic!Last(object[id].places)
        PROVE  /\ object[id].state = "ABANDONED_CONFIRMED" => alone[place] >= Abandoned
               /\ object[id].state = "ABANDONED_PENDING" =>
                    alone[place] >= Analytic!AtMost(Abandoned, Pending)
    <2>1. PICK o : o = object[id]
      OBVIOUS
    <2>2. Watched(o, alone) /\ o \in Object
      BY <1>2, <2>1 DEF AloneInv, TInv
    <2>3. o.places \in Seq(Places) /\ Len(o.places) \in 1..Persistence /\ o.unattended \in Ages
      BY <2>2, LiveFields
    <2>4. place = o.places[Len(o.places)]
      BY <1>2, <2>1 DEF Analytic!Last
    <2>5. PICK t : t = alone[place]
      OBVIOUS
    <2>6. t \in Nat
      <3>1. place \in Places
        BY <2>3, <2>4
      <3> QED
        BY <2>5, <3>1, Numbers DEF AloneInv
    <2>7. PICK u : u = o.unattended
      OBVIOUS
    <2>8. u # None => t >= u /\ u \in Nat
      BY <2>2, <2>3, <2>4, <2>5, <2>7 DEF Watched, Ages
    <2>9. /\ o.state = "ABANDONED_CONFIRMED" => u # None /\ u >= Abandoned
          /\ o.state = "ABANDONED_PENDING" => u # None /\ u >= Analytic!AtMost(Abandoned, Pending)
      BY <2>2, <2>7 DEF Watched
    <2>10. Abandoned \in Nat /\ Analytic!AtMost(Abandoned, Pending) \in Nat
      BY Numbers DEF Analytic!AtMost
    <2>11. /\ o.state = "ABANDONED_CONFIRMED" => t >= Abandoned
           /\ o.state = "ABANDONED_PENDING" => t >= Analytic!AtMost(Abandoned, Pending)
      BY <2>6, <2>8, <2>9, <2>10
    <2> QED
      BY <2>1, <2>5, <2>11
  <1> QED
    BY <1>1, <1>2 DEF Analytic!AloneWhenAbandoned

-----------------------------------------------------------------------------
(* An object that has been all there is to see.                            *)

LEMMA NoneIsNotLive == None \notin Live
  <1>1. Live \subseteq Analytic!Objects
    <2> SUFFICES ASSUME NEW o \in Live PROVE o \in Analytic!Objects
      OBVIOUS
    <2>1. /\ o \in Record /\ Len(o.places) \in 1..Persistence /\ o.places \in Seq(Places)
      BY LiveFields DEF Live, Object
    <2>2. o.places \in UNION {[1..n -> Places] : n \in 1..Persistence}
      <3>1. o.places \in [1..Len(o.places) -> Places]
        BY <2>1
      <3> QED
        BY <2>1, <3>1
    <2> QED
      BY <2>1, <2>2 DEF Record, Ages, Gone, Analytic!Objects
  <1> QED
    BY <1>1, AnalyticParameters DEF Analytic!Parameters

\* Its last n places are this one.
LastAt(ps, place, n) ==
  /\ \A i \in DOMAIN ps : i > Len(ps) - n => ps[i] = place
  /\ Len(ps) < Persistence => Len(ps) >= n

\* It has been there for the last n frames, alone once that made it static;
\* and as it is when a frame comes after those.
Lasts(o, place, n) ==
  /\ o \in Live /\ o.missing = 0 /\ LastAt(o.places, place, n)
  /\ n >= Persistence =>
       o.unattended # None /\ o.unattended >= Analytic!AtMost(Abandoned, n - Persistence)
  /\ n >= Persistence + Abandoned =>
       o.state = "ABANDONED_CONFIRMED" /\ "abandoned_object" \in o.emitted

Lasted(o, place, n) ==
  /\ LastAt(o.places, place, n)
  /\ n >= Persistence =>
       o.unattended # None /\ o.unattended >= Analytic!AtMost(Abandoned, n + 1 - Persistence)

LEMMA OlderLasted ==
  ASSUME NEW o \in Object, NEW place, NEW n \in Nat, Lasts(o, place, n), NEW gap \in Gaps
  PROVE  Analytic!Older(o, gap) \in Live /\ Lasted(Analytic!Older(o, gap), place, n)
  <1>1. PICK r : r = Analytic!Older(o, gap)
    OBVIOUS
  <1>2. o # None /\ o.state # "CLEARED" /\ o \in Live
    BY NoneIsNotLive DEF Lasts, Live
  <1>3. /\ r \in Live /\ r.places = o.places
        /\ r.unattended = IF o.unattended = None THEN None
                          ELSE Analytic!AtMost(Abandoned, o.unattended + gap)
    BY <1>1, <1>2, OlderIs
  <1>4. ASSUME n >= Persistence
        PROVE  /\ r.unattended # None
               /\ r.unattended >= Analytic!AtMost(Abandoned, n + 1 - Persistence)
    <2>1. PICK u, w : u = o.unattended /\ w = r.unattended
      OBVIOUS
    <2>2. u # None /\ u >= Analytic!AtMost(Abandoned, n - Persistence) /\ u \in Ages
      BY <1>4, <2>1, LiveFields DEF Lasts
    <2>3. u \in Nat /\ gap \in Nat \ {0} /\ Persistence \in Nat /\ Abandoned \in Nat
      BY <2>2, AgesAre, Numbers
    <2>4. w = Analytic!AtMost(Abandoned, u + gap)
      BY <1>3, <2>1, <2>2
    <2>5. w \in Nat /\ w >= Analytic!AtMost(Abandoned, n + 1 - Persistence)
      BY <1>4, <2>2, <2>3, <2>4 DEF Analytic!AtMost
    <2> QED
      BY <2>1, <2>5, Numbers
  <1> QED
    BY <1>1, <1>3, <1>4 DEF Lasts, Lasted

LEMMA MovedLast ==
  ASSUME NEW ps \in Seq(Places), Len(ps) \in 1..Persistence, NEW place \in Places,
         NEW n \in Nat, LastAt(ps, place, n)
  PROVE  LastAt(Moved(ps, place), place, n + 1)
  <1>1. PICK vs : vs = Moved(ps, place)
    OBVIOUS
  <1>2. /\ vs \in Seq(Places) /\ Len(vs) \in 1..Persistence
        /\ Len(vs) = IF Len(ps) < Persistence THEN Len(ps) + 1 ELSE Persistence
        /\ vs[Len(vs)] = place
        /\ \A i \in 1..(Len(vs) - 1) :
             vs[i] = ps[i + Len(ps) + 1 - Len(vs)] /\ i + Len(ps) + 1 - Len(vs) \in DOMAIN ps
    BY <1>1, MovedIs
  <1>3. Persistence \in Nat /\ Len(ps) \in Nat /\ Len(vs) \in Nat
    BY Numbers
  <1>4. ASSUME NEW i \in DOMAIN vs, i > Len(vs) - (n + 1) PROVE vs[i] = place
    <2>1. CASE i = Len(vs)
      BY <1>2, <2>1
    <2>2. CASE i # Len(vs)
      <3>1. i \in 1..(Len(vs) - 1)
        BY <1>2, <1>3, <2>2
      <3>2. PICK j : j = i + Len(ps) + 1 - Len(vs)
        OBVIOUS
      <3>3. vs[i] = ps[j] /\ j \in DOMAIN ps
        BY <1>2, <3>1, <3>2
      <3>4. j > Len(ps) - n
        BY <1>3, <1>4, <3>1, <3>2
      <3> QED
        BY <3>3, <3>4 DEF LastAt
    <2> QED
      BY <2>1, <2>2
  <1>5. Len(vs) < Persistence => Len(vs) >= n + 1
    BY <1>2, <1>3 DEF LastAt
  <1> QED
    BY <1>1, <1>4, <1>5 DEF LastAt

\* One frame more.
LEMMA LastsMore ==
  ASSUME NEW o \in Live \cup {None}, NEW place \in Places, NEW n \in Nat,
         n > 0 => o # None, o # None => Lasted(o, place, n)
  PROVE  Lasts(Analytic!Advance(Analytic!Upsert(o, place), FALSE), place, n + 1)
  <1>1. PICK v : v = Analytic!Upsert(o, place)
    OBVIOUS
  <1>2. PICK r : r = Analytic!Advance(v, FALSE)
    OBVIOUS
  <1>3. /\ v \in Live /\ v.missing = 0
        /\ o = None => v.places = <<place>> /\ v.unattended = None
        /\ o # None => v.places = Moved(o.places, place) /\ v.unattended = o.unattended
    BY <1>1, UpsertIs
  <1>4. Looked(v, FALSE, r)
    BY <1>2, <1>3, AdvanceIs
  <1>5. /\ Persistence \in Nat \ {0} /\ Abandoned \in Nat /\ Len(v.places) \in 1..Persistence
        /\ v.places \in Seq(Places) /\ v.unattended \in Ages
    BY <1>3, LiveFields, Numbers DEF Live
  <1>6. r \in Live /\ r.places = v.places /\ r.missing = 0
    BY <1>3, <1>4 DEF Looked
  <1>7. LastAt(v.places, place, n + 1)
    <2>1. CASE o = None
      <3>1. v.places = <<place>> /\ n = 0
        BY <1>3, <2>1
      <3> QED
        BY <3>1 DEF LastAt
    <2>2. CASE o # None
      <3>1. o.places \in Seq(Places) /\ Len(o.places) \in 1..Persistence
        BY <2>2, LiveFields DEF Live
      <3> QED
        BY <1>3, <2>2, <3>1, MovedLast DEF Lasted
    <2> QED
      BY <2>1, <2>2
  <1>8. PICK m \in Nat : m = n + 1
    OBVIOUS
  <1>9. ASSUME m >= Persistence
        PROVE  /\ r.unattended # None
               /\ r.unattended >= Analytic!AtMost(Abandoned, m - Persistence)
               /\ m >= Persistence + Abandoned =>
                    r.state = "ABANDONED_CONFIRMED" /\ "abandoned_object" \in r.emitted
    <2>1. Len(v.places) = Persistence
      BY <1>5, <1>7, <1>9, <1>8 DEF LastAt
    <2>2. Still(v)
      <3>1. \A i \in DOMAIN v.places : i > Len(v.places) - m
        BY <1>5, <1>9, <2>1
      <3> QED
        BY <1>7, <1>8, <3>1 DEF LastAt, Still
    <2>3. PICK w : w = IF v.unattended = None THEN 0 ELSE v.unattended
      OBVIOUS
    <2>4. w \in Nat /\ w # None
      BY <1>5, <2>3, AgesAre, Numbers
    <2>5. /\ r.unattended = w
          /\ w >= Abandoned => r.state = "ABANDONED_CONFIRMED" /\ "abandoned_object" \in r.emitted
      BY <1>4, <2>1, <2>2, <2>3, Zenon DEF Looked
    <2>6. w >= Analytic!AtMost(Abandoned, m - Persistence)
      <3>1. CASE n >= Persistence
        <4>1. o # None /\ Lasted(o, place, n)
          BY <1>5, <3>1
        <4>2. o.unattended # None /\ o.unattended >= Analytic!AtMost(Abandoned, m - Persistence)
          <5>1. n + 1 - Persistence = m - Persistence
            BY <1>5, <1>8
          <5> QED
            BY <3>1, <4>1, <5>1 DEF Lasted
        <4>3. w = o.unattended
          BY <1>3, <2>3, <4>1, <4>2
        <4> QED
          BY <4>2, <4>3
      <3>2. CASE ~(n >= Persistence)
        <4>1. m - Persistence = 0
          BY <1>5, <1>9, <1>8, <3>2
        <4> QED
          BY <1>5, <2>4, <4>1 DEF Analytic!AtMost
      <3> QED
        BY <3>1, <3>2
    <2>7. m >= Persistence + Abandoned => w >= Abandoned
      BY <1>5, <2>4, <2>6 DEF Analytic!AtMost
    <2> QED
      BY <2>4, <2>5, <2>6, <2>7
  <1>10. m >= Persistence + Abandoned => m >= Persistence
    BY <1>5
  <1>11. LastAt(r.places, place, m)
    BY <1>6, <1>7, <1>8
  <1>12. m >= Persistence =>
           r.unattended # None /\ r.unattended >= Analytic!AtMost(Abandoned, m - Persistence)
    BY <1>9
  <1>13. m >= Persistence + Abandoned =>
           r.state = "ABANDONED_CONFIRMED" /\ "abandoned_object" \in r.emitted
    BY <1>9, <1>10
  <1>14. Lasts(r, place, m)
    BY <1>6, <1>11, <1>12, <1>13, Zenon DEF Lasts
  <1> QED
    BY <1>1, <1>2, <1>8, <1>14

\* What has lasted for some frames has lasted for fewer.
LEMMA LastsLess ==
  ASSUME NEW o, NEW place, NEW m \in Nat, NEW n \in Nat, n <= m, Lasts(o, place, m)
  PROVE  Lasts(o, place, n)
  <1>1. /\ o \in Object /\ o.places \in Seq(Places) /\ Len(o.places) \in Nat
        /\ o.unattended \in Ages /\ Persistence \in Nat /\ Abandoned \in Nat
    BY LiveFields, Numbers DEF Lasts, Live
  <1>2. LastAt(o.places, place, n)
    BY <1>1 DEF Lasts, LastAt
  <1>3. ASSUME n >= Persistence
        PROVE  o.unattended # None /\ o.unattended >= Analytic!AtMost(Abandoned, n - Persistence)
    <2>1. PICK u : u = o.unattended
      OBVIOUS
    <2>2. u # None /\ u >= Analytic!AtMost(Abandoned, m - Persistence)
      BY <1>1, <1>3, <2>1 DEF Lasts
    <2>3. u \in Nat
      BY <1>1, <2>1, <2>2, AgesAre
    <2>4. u >= Analytic!AtMost(Abandoned, n - Persistence)
      BY <1>1, <1>3, <2>2, <2>3 DEF Analytic!AtMost
    <2> QED
      BY <2>1, <2>2, <2>4
  <1>4. n >= Persistence + Abandoned => m >= Persistence + Abandoned
    BY <1>1
  <1>5. o \in Live /\ o.missing = 0
    BY DEF Lasts
  <1>6. n >= Persistence + Abandoned =>
          o.state = "ABANDONED_CONFIRMED" /\ "abandoned_object" \in o.emitted
    BY <1>4, Zenon DEF Lasts
  <1> QED
    BY <1>2, <1>3, <1>5, <1>6 DEF Lasts

LEMMA OneDetection ==
  ASSUME NEW ts, NEW p
  PROVE  LET d == Analytic!Detect([tracks |-> ts, seen |-> <<>>], p)
         IN Analytic!Update(ts, <<p>>) = [tracks |-> Analytic!Kept(d.tracks, d.seen), seen |-> d.seen]
  <1> DEFINE d == Analytic!Detect([tracks |-> ts, seen |-> <<>>], p)
             G == [n \in 0..1 |-> IF n = 0 THEN {[tracks |-> ts, seen |-> <<>>]} ELSE {d}]
  <1>1. G[0] = {[tracks |-> ts, seen |-> <<>>]} /\ G[1] = {d}
    OBVIOUS
  <1>2. Len(<<p>>) = 1 /\ <<p>>[1] = p
    OBVIOUS
  <1> HIDE DEF G
  <1>3. \A n \in 1..Len(<<p>>) : \A x \in G[n - 1] : Analytic!Detect(x, <<p>>[n]) \in G[n]
    BY <1>1, <1>2
  <1>4. \E r \in G[Len(<<p>>)] :
          Analytic!Update(ts, <<p>>) =
            [tracks |-> Analytic!Kept(r.tracks, r.seen), seen |-> r.seen]
    BY <1>1, <1>2, <1>3, UpdateSteps
  <1> HIDE DEF d
  <1> QED
    BY <1>1, <1>2, <1>4 DEF d

\* The only track takes the only detection, when it is where the track is.
LEMMA SameTrack ==
  ASSUME NEW x \in Nat \ {0}, NEW p \in Places
  PROVE  Analytic!Update(<<[id |-> x, place |-> p]>>, <<p>>).seen = <<x>>
  <1> DEFINE ts == <<[id |-> x, place |-> p]>>
  <1>1. /\ DOMAIN ts = {1} /\ ts[1].id = x /\ ts[1].place = p /\ ts[1] \in Track
        /\ ts \in Seq(Track)
    BY DEF Track
  <1> HIDE DEF ts
  <1>2. ts \in Tracks
    BY <1>1 DEF Tracks, Distinct
  <1>3. Analytic!Near(p, p)
    BY Numbers DEF Analytic!Near, Analytic!Distance
  <1>4. Analytic!Close(ts, p) = {1}
    BY <1>1, <1>3 DEF Analytic!Close
  <1>5. Analytic!Nearest(ts, p) = 1
    BY <1>2, <1>4, NearestIsClose
  <1>6. Analytic!IdOf(ts, p) = x
    BY <1>1, <1>4, <1>5 DEF Analytic!IdOf
  <1>7. Analytic!Update(ts, <<p>>).seen = Analytic!Detect([tracks |-> ts, seen |-> <<>>], p).seen
    <2>1. PICK d : d = Analytic!Detect([tracks |-> ts, seen |-> <<>>], p)
      OBVIOUS
    <2>2. Analytic!Update(ts, <<p>>) = [tracks |-> Analytic!Kept(d.tracks, d.seen), seen |-> d.seen]
      BY <2>1, OneDetection
    <2> QED
      BY <2>1, <2>2
  <1>8. PICK id \in Nat \ {0}, new \in Tracks : Detects(ts, <<>>, p, id, new)
    BY <1>2, Detected
  <1>9. Analytic!Detect([tracks |-> ts, seen |-> <<>>], p) = [tracks |-> new, seen |-> <<x>>]
    BY <1>6, <1>8 DEF Detects
  <1>10. Analytic!Update(ts, <<p>>).seen = <<x>>
    BY <1>7, <1>9
  <1> QED
    BY <1>10 DEF ts

\* The object that is all there is has its track where it is, and has lasted
\* there for so many frames.
Lone(id, place, n) ==
  tracks = <<[id |-> id, place |-> place]>> /\ Lasts(object[id], place, n)

SteadyInv ==
  /\ steady \in [place : Places \cup {None}, frames : Nat]
  /\ steady.place = None => steady.frames = 0
  /\ steady.place # None => \E id \in Analytic!Ids : Lone(id, steady.place, steady.frames)

\* What a frame of one object and nobody else leaves.
OneKnown(id, place, gap, now) ==
  /\ id \in Analytic!Ids /\ now.seen = <<id>>
  /\ now.tracks = <<[id |-> id, place |-> place]>>
  /\ object'[id] =
       Analytic!Advance(Analytic!Upsert(Analytic!Older(object[id], gap), place), FALSE)

LEMMA OneObject ==
  ASSUME TInv, NEW objects \in Seq(Places), NEW persons \in Seq(Places), NEW gap \in Gaps,
         NEW now, NEW who, Shows(gap, objects, persons, now, who),
         NEW p \in Places, Len(objects) = 1, objects[1] = p, Len(persons) = 0
  PROVE  OneKnown(now.seen[1], p, gap, now)
  <1>1. /\ Tracked(objects, 2 * MaxObjects, now.tracks, now.seen)
        /\ Tracked(persons, 2 * MaxPeople, who.tracks, who.seen)
    BY DEF Shows
  <1>2. Len(objects) = 1 /\ objects[1] = p /\ 1..Len(objects) = {1} /\ Len(persons) = 0
    OBVIOUS
  <1>3. PICK id : id = now.seen[1]
    OBVIOUS
  <1>4. /\ now.seen \in Seq(Nat \ {0}) /\ Len(now.seen) = 1 /\ id <= 2 * MaxObjects
        /\ now.tracks \in Tracks /\ Len(now.tracks) <= 1
        /\ \E i \in DOMAIN now.tracks : now.tracks[i] = [id |-> id, place |-> p]
    <2>1. \A l \in (1 + 1)..Len(objects) : now.seen[l] # now.seen[1]
      BY <1>2
    <2> QED
      BY <1>1, <1>2, <1>3, <2>1 DEF Tracked
  <1>5. now.seen = <<id>> /\ id \in Nat \ {0}
    BY <1>3, <1>4
  <1>6. id \in Analytic!Ids
    BY <1>4, <1>5, Numbers DEF Analytic!Ids
  <1>7. now.tracks = <<[id |-> id, place |-> p]>>
    <2>1. now.tracks \in Seq(Track) /\ Len(now.tracks) \in Nat
      BY <1>4 DEF Tracks
    <2>2. Len(now.tracks) = 1 /\ now.tracks[1] = [id |-> id, place |-> p]
      BY <1>4, <2>1
    <2> QED
      BY <2>1, <2>2
  <1>8. ~By(who.tracks, p)
    <2>1. who.tracks \in Seq(Track) /\ Len(who.tracks) <= 0
      BY <1>1, <1>2 DEF Tracked, Tracks
    <2>2. DOMAIN who.tracks = {}
      BY <2>1
    <2> QED
      BY <2>2 DEF By, Analytic!Range
  <1>9. PICK o : o = Analytic!Older(object[id], gap)
    OBVIOUS
  <1>10. o \in Live \cup {None} /\ object'[id] = Analytic!Known(o, id, now, who.tracks)
    <2>1. Analytic!Older(object[id], gap) \in Live \cup {None}
      <3>1. object[id] \in Object \cup {None}
        BY <1>6 DEF TInv
      <3> QED
        BY <3>1, OlderIs
    <2>2. object'[id] = Analytic!Known(Analytic!Older(object[id], gap), id, now, who.tracks)
      BY <1>6 DEF Shows, Analytic!Frame
    <2> QED
      BY <1>9, <2>1, <2>2
  <1>11. KnownAs(o, id, objects, now, who.tracks, object'[id])
    BY <1>1, <1>10, KnownIs
  <1>12. object'[id] = Analytic!Advance(Analytic!Upsert(o, p), FALSE)
    <2>1. 1 \in DOMAIN now.tracks /\ now.tracks[1].id = id /\ now.tracks[1].place = p
      BY <1>7
    <2>2. object'[id] = Analytic!Advance(Analytic!Upsert(o, now.tracks[1].place),
                                         By(who.tracks, now.tracks[1].place))
      BY <1>2, <1>3, <1>11, <2>1 DEF KnownAs
    <2>3. By(who.tracks, p) = FALSE
      BY <1>8 DEF By
    <2> QED
      BY <2>1, <2>2, <2>3
  <1> QED
    BY <1>3, <1>5, <1>6, <1>7, <1>9, <1>12 DEF OneKnown

LEMMA FrameSteady ==
  ASSUME TInv, SteadyInv, Analytic!AnyFrame
  PROVE  SteadyInv'
  <1>1. PICK objects, persons, gap, now, who :
          /\ objects \in Seq(Places) /\ persons \in Seq(Places) /\ gap \in Gaps
          /\ Shows(gap, objects, persons, now, who)
    BY FrameIs
  <1>2. /\ now = Analytic!Update(tracks, objects) /\ tracks' = now.tracks
        /\ Analytic!Frame(gap, objects, persons, now, who)
    BY <1>1 DEF Shows, Analytic!Frame
  <1>3. CASE Len(objects) # 1 \/ persons # <<>>
    <2>1. steady' = [place |-> None, frames |-> 0]
      BY <1>2, <1>3 DEF Analytic!Frame
    <2> QED
      BY <2>1 DEF SteadyInv
  <1>4. CASE Len(objects) = 1 /\ persons = <<>>
    <2>1. PICK p \in Places : objects = <<p>>
      <3>1. PICK p : p = objects[1]
        OBVIOUS
      <3>2. p \in Places
        BY <1>1, <1>4, <3>1
      <3>3. objects = <<p>>
        BY <1>1, <1>4, <3>1
      <3> QED
        BY <3>2, <3>3
    <2>2. PICK id : id = now.seen[1]
      OBVIOUS
    <2>3. PICK o : o = Analytic!Older(object[id], gap)
      OBVIOUS
    <2>4. /\ id \in Analytic!Ids /\ now.seen = <<id>>
          /\ now.tracks = <<[id |-> id, place |-> p]>>
          /\ object'[id] = Analytic!Advance(Analytic!Upsert(o, p), FALSE)
      <3>1. Len(objects) = 1 /\ objects[1] = p /\ Len(persons) = 0
        BY <1>4, <2>1
      <3>2. OneKnown(now.seen[1], p, gap, now)
        BY <1>1, <3>1, OneObject
      <3> QED
        BY <2>2, <2>3, <3>2 DEF OneKnown
    <2>5. o \in Live \cup {None}
      <3>1. object[id] \in Object \cup {None}
        BY <2>4 DEF TInv
      <3> QED
        BY <1>1, <2>3, <3>1, OlderIs
    <2>6. p # None /\ Persistence \in Nat \ {0} /\ Abandoned \in Nat
      BY Numbers
    <2>7. CASE steady.place = p
      <3>1. steady' = [steady EXCEPT !.frames = Analytic!AtMost(Persistence + Abandoned, @ + 1)]
        BY <1>2, <1>4, <2>1, <2>7 DEF Analytic!Frame
      <3>2. PICK n \in Nat : n = steady.frames
        BY DEF SteadyInv
      <3>3. PICK m \in Nat : m = Analytic!AtMost(Persistence + Abandoned, n + 1)
        BY <2>6 DEF Analytic!AtMost
      <3>4. /\ steady' \in [place : Places \cup {None}, frames : Nat]
            /\ steady'.place = p /\ steady'.frames = m
        BY <2>7, <3>1, <3>2, <3>3 DEF SteadyInv
      <3>5. PICK x \in Analytic!Ids : Lone(x, p, n)
        BY <2>6, <2>7, <3>2 DEF SteadyInv
      <3>6. tracks = <<[id |-> x, place |-> p]>> /\ Lasts(object[x], p, n)
        BY <3>5 DEF Lone
      <3>7. x = id
        <4>1. x \in Nat \ {0}
          BY Numbers DEF Analytic!Ids
        <4>2. Analytic!Update(<<[id |-> x, place |-> p]>>, <<p>>).seen = <<x>>
          BY <4>1, SameTrack
        <4>3. now.seen = <<x>>
          BY <1>2, <2>1, <3>6, <4>2
        <4> QED
          BY <2>2, <4>3
      <3>8. o \in Live /\ Lasted(o, p, n)
        <4>1. object[id] \in Object
          BY <3>6, <3>7 DEF Lasts, Live
        <4> QED
          BY <1>1, <2>3, <3>6, <3>7, <4>1, OlderLasted
      <3>9. Lasts(object'[id], p, n + 1)
        <4>1. o # None
          BY <3>8, NoneIsNotLive
        <4> QED
          BY <2>4, <3>8, <4>1, LastsMore
      <3>10. Lasts(object'[id], p, m)
        <4>1. m <= n + 1 /\ n + 1 \in Nat
          BY <2>6, <3>3 DEF Analytic!AtMost
        <4> QED
          BY <3>9, <4>1, LastsLess
      <3> QED
        BY <1>2, <2>4, <2>6, <3>4, <3>10 DEF SteadyInv, Lone, Lasts
    <2>8. CASE steady.place # p
      <3>1. steady' = [place |-> p, frames |-> 1]
        BY <1>2, <1>4, <2>1, <2>8 DEF Analytic!Frame
      <3>2. /\ steady' \in [place : Places \cup {None}, frames : Nat]
            /\ steady'.place = p /\ steady'.frames = 1
        BY <3>1
      <3>3. PICK n \in Nat : n = 0
        OBVIOUS
      <3>4. o # None => Lasted(o, p, n)
        <4> SUFFICES ASSUME o # None PROVE Lasted(o, p, n)
          OBVIOUS
        <4>1. o.places \in Seq(Places)
          BY <2>5, LiveFields DEF Live
        <4> QED
          BY <2>6, <3>3, <4>1 DEF Lasted, LastAt
      <3>5. Lasts(object'[id], p, n + 1)
        <4>1. n > 0 => o # None
          BY <3>3
        <4> QED
          BY <2>4, <2>5, <3>4, <4>1, LastsMore
      <3>6. Lasts(object'[id], p, 1)
        BY <3>3, <3>5
      <3> QED
        BY <1>2, <2>4, <2>6, <3>2, <3>6 DEF SteadyInv, Lone, Lasts
    <2> QED
      BY <2>7, <2>8
  <1> QED
    BY <1>3, <1>4

LEMMA NextSteady ==
  ASSUME TInv, SteadyInv, [Analytic!Next]_analytic
  PROVE  SteadyInv'
  <1>1. CASE UNCHANGED analytic
    BY <1>1 DEF analytic, SteadyInv, Lone, Lasts
  <1>2. CASE Analytic!AnyFrame
    BY <1>2, FrameSteady
  <1>3. CASE Analytic!Clear
    <2>1. steady' = [place |-> None, frames |-> 0]
      BY <1>3 DEF Analytic!Clear, Analytic!Unload, Analytic!ClearObject
    <2> QED
      BY <2>1 DEF SteadyInv
  <1> QED
    BY <1>1, <1>2, <1>3 DEF Analytic!Next

LEMMA InitSteady == Analytic!Init => SteadyInv
  BY DEF Analytic!Init, SteadyInv

LEMMA SteadySays ==
  ASSUME SteadyInv
  PROVE  Analytic!InTime
  <1> SUFFICES ASSUME steady.frames >= Persistence + Abandoned
               PROVE  \E id \in Analytic!Ids :
                        /\ object[id] # None /\ object[id].missing = 0
                        /\ object[id].state = "ABANDONED_CONFIRMED"
                        /\ "abandoned_object" \in object[id].emitted
    BY DEF Analytic!InTime
  <1>1. steady.frames \in Nat /\ steady.frames # 0
    BY Numbers DEF SteadyInv
  <1>2. PICK id \in Analytic!Ids : Lone(id, steady.place, steady.frames)
    BY <1>1 DEF SteadyInv
  <1>3. Lasts(object[id], steady.place, steady.frames)
    BY <1>2 DEF Lone
  <1> QED
    BY <1>3, NoneIsNotLive DEF Lasts

(* With at least two frames to take an object for static, and whatever the *)
(* places, detections, gaps and thresholds: two detections are taken for   *)
(* one object only when the picture is blurred; an object is called        *)
(* abandoned, while it is not, only when it was alone for long enough; and *)
(* one that stays alone is reported in time (on_frame and                  *)
(* _process_detections, plugins/enterprise/abandoned_object/plugin.py).    *)
THEOREM AbandonedIsToldRight == Persistence >= 2 => (HostSpec => []ToldRight)
  <1> SUFFICES ASSUME Persistence >= 2 PROVE HostSpec => []ToldRight
    OBVIOUS
  <1> DEFINE Inv == TInv /\ AloneInv /\ SteadyInv
  <1>1. HostInit => Inv
    BY InitTInv, InitAlone, InitSteady DEF HostInit
  <1>2. Inv /\ [HostNext]_<<subject, vars, analytic>> => Inv'
    <2> SUFFICES ASSUME Inv, [HostNext]_<<subject, vars, analytic>> PROVE Inv'
      OBVIOUS
    <2>1. [Analytic!Next]_analytic
      BY HostSteps
    <2>2. TInv'
      BY <2>1, NextTInv
    <2>3. AloneInv'
      BY <2>1, NextAlone
    <2>4. SteadyInv'
      BY <2>1, NextSteady
    <2> QED
      BY <2>2, <2>3, <2>4
  <1>3. Inv => ToldRight
    BY AloneSays, SteadySays DEF ToldRight
  <1> QED
    BY <1>1, <1>2, <1>3, PTL DEF HostSpec
=============================================================================
