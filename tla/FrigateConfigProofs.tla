------------------------- MODULE FrigateConfigProofs -------------------------
(***************************************************************************)
(* Theorems about FrigateConfig, for any cameras, requests and readers.    *)
(***************************************************************************)
EXTENDS FrigateConfig, TLAPS

Steps == Running \cup Finished \cup {"idle"}

LEMMA StreamsType == \A kind \in AllKinds : StreamsOf(kind) \subseteq SUBSET Roles
  BY DEF AllKinds, StreamsOf, Roles

LEMMA AtRestType == AtRest \in Reader
  BY DEF AtRest, Reader, Views, Config

LEMMA MutateType ==
  ASSUME NEW r \in Requests, NEW o \in Op, NEW cfg \in Config
  PROVE  Mutate(r, o, cfg) \in Config
  BY DEF Mutate, Op, Config, Authors

LEMMA ViewType ==
  ASSUME NEW v \in Views, NEW cfg \in Config
  PROVE  View(v, cfg) \in Config
  BY DEF View, Config

\* Registering or removing one stream keeps the table well formed.
LEMMA StreamTableType ==
  ASSUME NEW table \in [Cameras -> [Roles -> Authors \cup {None}]],
         NEW c, NEW role, NEW a \in Authors \cup {None}
  PROVE  [table EXCEPT ![c][role] = a] \in [Cameras -> [Roles -> Authors \cup {None}]]
  <1>1. CASE c \in Cameras
    <2>1. [table[c] EXCEPT ![role] = a] \in [Roles -> Authors \cup {None}]
      BY <1>1
    <2> QED
      BY <1>1, <2>1
  <1>2. CASE c \notin Cameras
    BY <1>2
  <1> QED
    BY <1>1, <1>2

LEMMA FirstStepType == \A kind \in AllKinds : FirstStep(kind) \in Steps
  BY DEF AllKinds, FirstStep, Steps, Running, HttpSteps

LEMMA InitTypeOK == Init => TypeOK
  <1> SUFFICES ASSUME Init PROVE TypeOK
    OBVIOUS
  <1>1. PICK present \in SUBSET Cameras :
          /\ mem = {<<k, Base>> : k \in present \cup {Global}}
          /\ go2rtc = [c \in Cameras |-> [role \in Roles |->
                        IF c \in present THEN Base ELSE None]]
    BY DEF Init
  <1>2. mem \in Config
    BY <1>1 DEF Config, Keys, Authors
  <1>3. go2rtc \in [Cameras -> [Roles -> Authors \cup {None}]]
    BY <1>1 DEF Authors
  <1>4. cache \in [Views -> Config \cup {None}]
    <2>1. \A v \in Views : View(v, mem) \in Config
      BY <1>2, ViewType
    <2>2. PICK warm \in BOOLEAN :
            cache = [v \in Views |-> IF warm THEN View(v, mem) ELSE None]
      BY DEF Init
    <2> QED
      BY <2>1, <2>2
  <1>5. NoOp \in Op
    BY DEF NoOp, Op, AllKinds, Keys
  <1>6. AtRest \in Reader
    BY AtRestType
  <1> QED
    BY <1>2, <1>3, <1>4, <1>5, <1>6 DEF Init, TypeOK, Config

LEMMA BeginTypeOK ==
  ASSUME TypeOK, NEW r \in Requests, Begin(r)
  PROVE  TypeOK'
  <1>1. PICK kind \in Kinds, save \in BOOLEAN :
        \E key \in (IF kind \in {"global", "revert"} THEN {Global} ELSE Cameras),
           streams \in StreamsOf(kind) :
          /\ op' = [op EXCEPT ![r] =
                    [kind |-> kind, key |-> key, streams |-> streams, save |-> save]]
          /\ todo' = [todo EXCEPT ![r] = streams]
          /\ Goto(r, FirstStep(kind))
    BY DEF Begin
  <1>2. PICK key \in Keys, streams \in StreamsOf(kind) :
          /\ op' = [op EXCEPT ![r] =
                    [kind |-> kind, key |-> key, streams |-> streams, save |-> save]]
          /\ todo' = [todo EXCEPT ![r] = streams]
    BY <1>1 DEF Keys
  <1>3. kind \in AllKinds
    BY ConfigAssumption
  <1>4. streams \in SUBSET Roles
    BY <1>2, <1>3, StreamsType
  <1>5. op' \in [Requests -> Op] /\ todo' \in [Requests -> SUBSET Roles]
    BY <1>2, <1>3, <1>4 DEF TypeOK, Op
  <1>6. pc' \in [Requests -> Steps]
    BY <1>1, <1>3, FirstStepType DEF TypeOK, Goto, Steps
  <1> QED
    BY <1>5, <1>6 DEF Begin, TypeOK, frigate, Steps

LEMMA EditTypeOK ==
  ASSUME TypeOK, NEW r \in Requests, EditStep(r)
  PROVE  TypeOK'
  <1> USE DEF TypeOK, Goto, Answered, frigate, Running, HttpSteps, StoreSteps, Finished
  <1>1. CASE Register(r)
    <2>1. op[r].key \in Keys
      BY DEF Op
    <2>2. todo' \in [Requests -> SUBSET Roles]
      BY <1>1 DEF Register
    <2>3. go2rtc' \in [Cameras -> [Roles -> Authors \cup {None}]]
      BY <1>1, StreamTableType DEF Register, Authors
    <2> QED
      BY <1>1, <2>2, <2>3 DEF Register
  <1>2. CASE ReadConfig(r)
    <2>1. Mutate(r, op[r], mem) \in Config
      BY MutateType
    <2> QED
      BY <1>2, <2>1 DEF ReadConfig
  <1>3. CASE ListStreams(r)
    <2>1. op[r].streams \in SUBSET Roles
      BY DEF Op
    <2>2. todo' \in [Requests -> SUBSET Roles]
      BY <1>3, <2>1 DEF ListStreams
    <2> QED
      BY <1>3, <2>2 DEF ListStreams
  <1>4. CASE Unregister(r)
    <2>1. PICK role \in todo[r] :
            /\ go2rtc' = [go2rtc EXCEPT ![op[r].key][role] = None]
            /\ todo' = [todo EXCEPT ![r] = @ \ {role}]
            /\ Answered(r, IF todo[r] # {role} THEN "unregister"
                           ELSE IF op[r].kind = "delstream" THEN "done" ELSE "set")
      BY <1>4 DEF Unregister
    <2>2. go2rtc' \in [Cameras -> [Roles -> Authors \cup {None}]]
      BY <2>1, StreamTableType
    <2>3. todo' \in [Requests -> SUBSET Roles] /\ pc' \in [Requests -> Steps]
      BY <2>1 DEF Steps
    <2> QED
      BY <1>4, <2>2, <2>3 DEF Unregister, Steps
  <1>5. CASE SetConfig(r)
    BY <1>5 DEF SetConfig, Config
  <1>6. CASE RejectConfig(r)
    BY <1>6 DEF RejectConfig, Config
  <1>7. CASE SaveConfig(r)
    BY <1>7 DEF SaveConfig
  <1>8. CASE UndoRejected(r)
    BY <1>8 DEF UndoRejected
  <1>9. CASE RecordFailure(r)
    BY <1>9 DEF RecordFailure
  <1>10. CASE RevertChange(r)
    BY <1>10 DEF RevertChange
  <1>11. CASE RecordSuccess(r)
    BY <1>11 DEF RecordSuccess
  <1>12. CASE InvalidateConfig(r)
    BY <1>12 DEF InvalidateConfig
  <1>13. CASE InvalidateCameras(r)
    BY <1>13 DEF InvalidateCameras
  <1>14. CASE CallFails(r)
    BY <1>14 DEF CallFails, Config
  <1> QED
    BY <1>1, <1>2, <1>3, <1>4, <1>5, <1>6, <1>7, <1>8, <1>9, <1>10, <1>11,
       <1>12, <1>13, <1>14 DEF EditStep

LEMMA ReaderTypeOK ==
  ASSUME TypeOK, NEW x \in Readers, CacheMiss(x) \/ ReaderStep(x)
  PROVE  TypeOK'
  <1> USE DEF TypeOK, frigate, edit
  <1>1. rd[x] \in Reader
    OBVIOUS
  <1>2. CASE CacheMiss(x)
    BY <1>2 DEF CacheMiss, Reader, Config
  <1>3. CASE Fetch(x)
    <2>1. View(rd[x].view, mem) \in Config
      BY <1>1, ViewType DEF Reader
    <2> QED
      BY <1>1, <1>3, <2>1, AtRestType DEF Fetch, Reader
  <1>4. CASE Fill(x)
    <2>1. cache' \in [Views -> Config \cup {None}]
      BY <1>1, <1>4 DEF Fill, Reader
    <2> QED
      BY <1>4, <2>1, AtRestType DEF Fill
  <1> QED
    BY <1>2, <1>3, <1>4 DEF ReaderStep

LEMMA TypeStep == TypeOK /\ [Next]_vars => TypeOK'
  <1> SUFFICES ASSUME TypeOK, [Next]_vars PROVE TypeOK'
    OBVIOUS
  <1>1. ASSUME NEW v \in Views, Expire(v) PROVE TypeOK'
    BY <1>1 DEF Expire, TypeOK, frigate, edit
  <1>2. CASE Crash
    <2>1. pc' \in [Requests -> Steps]
      BY <1>2 DEF Crash, TypeOK, Steps, Finished
    <2> QED
      BY <1>2, <2>1, AtRestType DEF Crash, TypeOK, frigate, Steps, Config
  <1>3. CASE FrigateRestart
    BY <1>3 DEF FrigateRestart, TypeOK, edit
  <1>4. CASE UNCHANGED vars
    BY <1>4 DEF vars, TypeOK
  <1> QED
    BY <1>1, <1>2, <1>3, <1>4, BeginTypeOK, EditTypeOK, ReaderTypeOK DEF Next

(***************************************************************************)
(* The variables of FrigateConfig keep their types.                        *)
(***************************************************************************)
THEOREM TypeCorrect == Spec => []TypeOK
  BY InitTypeOK, TypeStep, PTL DEF Spec

-----------------------------------------------------------------------------
(***************************************************************************)
(* A rejected edit leaves no trace.  The invariant needed is that every    *)
(* setting found anywhere, except in its author's own copy, was sent by    *)
(* its author in a PUT that Frigate accepted, and that no step takes an    *)
(* author back from there to the path of a rejection.                      *)
(***************************************************************************)
SentSteps == {"save", "record", "purge", "purgecams", "done", "error"}
Sent(a) == a = Base \/ pc[a] \in SentSteps

OnlySent ==
    /\ \A s \in mem \cup disk : Sent(s[2])
    /\ \A v \in Views : cache[v] # None => \A s \in cache[v] : Sent(s[2])
    /\ \A x \in Readers : \A s \in rd[x].val : Sent(s[2])
    /\ \A q \in Requests : \A s \in draft[q] : s[2] = q \/ Sent(s[2])

FailureRejected == \A r \in Requests : recorded[r] = "failure" => pc[r] = "rejected"

TraceInv == TypeOK /\ OnlySent /\ FailureRejected

LEMMA TraceInvImplies == TraceInv => RejectedLeavesNoTrace
  BY ConfigAssumption DEF TraceInv, OnlySent, Sent, SentSteps, FailureRejected,
     RejectedLeavesNoTrace, TypeOK

LEMMA InitTraceInv == Init => TraceInv
  <1> SUFFICES ASSUME Init PROVE TraceInv
    OBVIOUS
  <1>1. TypeOK
    BY InitTypeOK
  <1>2. \A s \in mem : s[2] = Base
    BY DEF Init
  <1> QED
    BY <1>1, <1>2 DEF Init, TraceInv, OnlySent, Sent, FailureRejected, View, AtRest

\* A step of one request, and of one request only: the others keep their
\* place, and one whose PUT was accepted does not return.
LEMMA EditKeepsSent ==
  ASSUME TypeOK, NEW r \in Requests, EditStep(r)
  PROVE  /\ \A a \in Authors : Sent(a) => Sent(a)'
         /\ \A q \in Requests \ {r} : pc'[q] = pc[q]
  <1> USE DEF TypeOK, Sent, SentSteps, Goto, Answered, Authors
  <1>1. CASE Register(r) \/ Unregister(r) \/ ReadConfig(r) \/ ListStreams(r)
    BY <1>1 DEF Register, Unregister, ReadConfig, ListStreams
  <1>2. CASE SetConfig(r) \/ RejectConfig(r) \/ SaveConfig(r) \/ RevertChange(r)
    BY <1>2 DEF SetConfig, RejectConfig, SaveConfig, RevertChange
  <1>3. CASE UndoRejected(r) \/ RecordFailure(r) \/ RecordSuccess(r)
    BY <1>3 DEF UndoRejected, RecordFailure, RecordSuccess
  <1>4. CASE InvalidateConfig(r) \/ InvalidateCameras(r) \/ CallFails(r)
    BY <1>4 DEF InvalidateConfig, InvalidateCameras, CallFails
  <1> QED
    BY <1>1, <1>2, <1>3, <1>4 DEF EditStep

LEMMA EditTraceInv ==
  ASSUME TraceInv, NEW r \in Requests, EditStep(r)
  PROVE  OnlySent' /\ FailureRejected'
  <1>1. TypeOK /\ TypeOK'
    BY EditTypeOK DEF TraceInv
  <1>2. \A a \in Authors : Sent(a) => Sent(a)'
    BY <1>1, EditKeepsSent
  <1>3. \A q \in Requests \ {r} : pc'[q] = pc[q]
    BY <1>1, EditKeepsSent
  <1>4. /\ \A s \in mem \cup disk : Sent(s[2])'
        /\ \A v \in Views : cache[v] # None => \A s \in cache[v] : Sent(s[2])'
        /\ \A x \in Readers : \A s \in rd[x].val : Sent(s[2])'
        /\ \A q \in Requests : \A s \in draft[q] : s[2] = q \/ Sent(s[2])'
    <2>1. \A cfg \in Config : \A s \in cfg : s[2] \in Authors
      BY DEF Config
    <2>2. \A x \in Readers : rd[x].val \in Config
      BY <1>1 DEF TypeOK, Reader
    <2>3. \A v \in Views : cache[v] # None => cache[v] \in Config
      BY <1>1 DEF TypeOK
    <2> QED
      BY <1>1, <1>2, <2>1, <2>2, <2>3 DEF TraceInv, OnlySent, TypeOK
  <1>5. OnlySent'
    <2> USE DEF OnlySent, TypeOK, frigate
    <2>1. CASE SetConfig(r)
      <3>1. Sent(r)'
        BY <1>1, <2>1 DEF SetConfig, Sent, SentSteps, Goto, Answered
      <3>2. \A s \in mem' \cup disk' : Sent(s[2])'
        BY <1>1, <1>4, <2>1, <3>1 DEF SetConfig
      <3> QED
        BY <1>1, <1>4, <2>1, <3>2 DEF SetConfig
    <2>2. CASE ReadConfig(r)
      BY <1>1, <1>4, <2>2 DEF ReadConfig, Mutate
    <2>3. CASE SaveConfig(r) \/ UndoRejected(r) \/ RevertChange(r)
      BY <1>4, <2>3 DEF SaveConfig, UndoRejected, RevertChange
    <2>4. CASE InvalidateConfig(r) \/ InvalidateCameras(r)
      BY <1>1, <1>4, <2>4 DEF InvalidateConfig, InvalidateCameras
    <2>5. CASE RejectConfig(r) \/ CallFails(r)
      BY <1>1, <1>4, <2>5 DEF RejectConfig, CallFails
    <2>6. CASE \/ Register(r) \/ ListStreams(r) \/ Unregister(r)
               \/ RecordFailure(r) \/ RecordSuccess(r)
      BY <1>4, <2>6 DEF Register, ListStreams, Unregister, RecordFailure, RecordSuccess
    <2> QED
      BY <2>1, <2>2, <2>3, <2>4, <2>5, <2>6 DEF EditStep
  <1>6. FailureRejected'
    <2>1. CASE RecordFailure(r)
      BY <1>1, <1>3, <2>1 DEF RecordFailure, TraceInv, FailureRejected, TypeOK, Goto
    <2>2. CASE RecordSuccess(r)
      BY <1>1, <1>3, <2>2 DEF RecordSuccess, TraceInv, FailureRejected, TypeOK, Goto
    <2>3. CASE ~RecordFailure(r) /\ ~RecordSuccess(r)
      <3>1. recorded' = recorded /\ pc[r] # "rejected"
        BY <2>3 DEF EditStep, Register, ReadConfig, ListStreams, Unregister, SetConfig,
           RejectConfig, SaveConfig, UndoRejected, RevertChange, InvalidateConfig,
           InvalidateCameras, CallFails, HttpSteps, StoreSteps
      <3> QED
        BY <1>1, <1>3, <3>1 DEF TraceInv, FailureRejected
    <2> QED
      BY <2>1, <2>2, <2>3
  <1> QED
    BY <1>5, <1>6

(***************************************************************************)
(* Whatever overlaps and whatever fails, an edit recorded as a failure is  *)
(* in no configuration, no cache and no other request's copy.              *)
(***************************************************************************)
THEOREM NoTrace == Spec => []RejectedLeavesNoTrace
  <1>1. TraceInv /\ [Next]_vars => TraceInv'
    <2> SUFFICES ASSUME TraceInv, [Next]_vars PROVE OnlySent' /\ FailureRejected'
      BY TypeStep DEF TraceInv
    <2> USE DEF TraceInv
    <2>1. ASSUME NEW r \in Requests, Begin(r)
          PROVE  OnlySent' /\ FailureRejected'
      <3>1. /\ pc[r] = "idle"
            /\ UNCHANGED <<mem, disk, recorded, cache, draft, rd>>
            /\ \A q \in Requests \ {r} : pc'[q] = pc[q]
        BY <2>1 DEF Begin, Goto, frigate, TypeOK
      <3>2. \A a \in Authors : Sent(a) => Sent(a)'
        BY <3>1 DEF Sent, SentSteps, Authors
      <3>3. \A cfg \in Config : \A s \in cfg : s[2] \in Authors
        BY DEF Config
      <3>4. \A x \in Readers : rd[x].val \in Config
        BY DEF TypeOK, Reader
      <3>5. \A v \in Views : cache[v] # None => cache[v] \in Config
        BY DEF TypeOK
      <3>6. OnlySent'
        BY <3>1, <3>2, <3>3, <3>4, <3>5 DEF OnlySent, TypeOK
      <3> QED
        BY <3>1, <3>6 DEF FailureRejected
    <2>2. ASSUME NEW x \in Readers, CacheMiss(x) \/ ReaderStep(x)
          PROVE  OnlySent' /\ FailureRejected'
      <3>1. UNCHANGED <<mem, disk, recorded, pc, draft>>
        BY <2>2 DEF ReaderStep, CacheMiss, Fetch, Fill, frigate, edit
      <3>2. \A a : Sent(a)' <=> Sent(a)
        BY <3>1 DEF Sent
      <3>3. rd[x] \in Reader
        BY DEF TypeOK
      <3>4. CASE CacheMiss(x)
        BY <3>1, <3>2, <3>4 DEF CacheMiss, OnlySent, FailureRejected, TypeOK
      <3>5. CASE Fetch(x)
        BY <3>1, <3>2, <3>5 DEF Fetch, View, AtRest, OnlySent, FailureRejected, TypeOK
      <3>6. CASE Fill(x)
        BY <3>1, <3>2, <3>3, <3>6 DEF Fill, AtRest, OnlySent, FailureRejected, TypeOK, Reader
      <3> QED
        BY <2>2, <3>4, <3>5, <3>6 DEF ReaderStep
    <2>3. ASSUME NEW v \in Views, Expire(v)
          PROVE  OnlySent' /\ FailureRejected'
      BY <2>3 DEF Expire, OnlySent, FailureRejected, Sent, TypeOK, frigate, edit
    <2>4. CASE Crash
      <3>1. \A a \in Authors : Sent(a) => Sent(a)'
        BY <2>4 DEF Crash, Sent, SentSteps, Authors
      <3>2. /\ \A s \in mem \cup disk : s[2] \in Authors
            /\ \A v \in Views : cache[v] # None => \A s \in cache[v] : s[2] \in Authors
        BY DEF TypeOK, Config
      <3>3. OnlySent'
        BY <2>4, <3>1, <3>2 DEF Crash, OnlySent, AtRest, frigate
      <3> QED
        BY <2>4, <3>3 DEF Crash, FailureRejected, frigate, Active, Running, HttpSteps, StoreSteps
    <2>5. CASE FrigateRestart
      BY <2>5 DEF FrigateRestart, OnlySent, FailureRejected, Sent, edit
    <2>6. CASE UNCHANGED vars
      BY <2>6 DEF vars, OnlySent, FailureRejected, Sent
    <2> QED
      BY <2>1, <2>2, <2>3, <2>4, <2>5, <2>6, EditTraceInv DEF Next
  <1> QED
    BY <1>1, InitTraceInv, TraceInvImplies, PTL DEF Spec

-----------------------------------------------------------------------------
(***************************************************************************)
(* One edit at a time, and no restart of Frigate in the middle: the chain  *)
(* of HTTP calls is then an atomic edit of the configuration.              *)
(***************************************************************************)

OneAtATime == ~Concurrent /\ "restart" \notin Faults

\* At most one edit is being worked on.
Alone == \A r, q \in Requests : pc[r] \in Running /\ pc[q] \in Running => r = q

\* The steps that belong to one kind of edit.
KindSteps ==
    \A r \in Requests :
        /\ op[r].kind = "delete" => op[r].key \in Cameras
        /\ pc[r] = "register" => op[r].kind \in {"add", "addstream"}
        /\ pc[r] = "list" => op[r].kind = "delete"
        /\ pc[r] = "unregister" => op[r].kind \in {"delete", "delstream"}
        /\ pc[r] = "revert" => op[r].kind = "revert"

Holding(r) ==
    \/ pc[r] \in {"list", "set"}
    \/ pc[r] = "unregister" /\ op[r].kind = "delete"

\* The copy about to be sent is the edit of what Frigate has now.
DraftFresh == \A r \in Requests : Holding(r) => draft[r] = Mutate(r, op[r], mem)

SerialInv == TypeOK /\ Alone /\ KindSteps /\ DraftFresh

LEMMA InitSerialInv == Init => SerialInv
  <1> SUFFICES ASSUME Init PROVE SerialInv
    OBVIOUS
  <1>1. TypeOK
    BY InitTypeOK
  <1> QED
    BY <1>1 DEF Init, SerialInv, Alone, KindSteps, DraftFresh, Holding, NoOp,
       Running, HttpSteps, StoreSteps

LEMMA BeginSerialInv ==
  ASSUME OneAtATime, SerialInv, NEW r \in Requests, Begin(r)
  PROVE  Alone' /\ KindSteps' /\ DraftFresh'
  <1> USE DEF SerialInv, TypeOK
  <1>1. PICK kind \in Kinds, save \in BOOLEAN :
        \E key \in (IF kind \in {"global", "revert"} THEN {Global} ELSE Cameras),
           streams \in StreamsOf(kind) :
          /\ op' = [op EXCEPT ![r] =
                    [kind |-> kind, key |-> key, streams |-> streams, save |-> save]]
          /\ pc' = [pc EXCEPT ![r] = FirstStep(kind)]
    BY DEF Begin, Goto
  <1>2. PICK key \in (IF kind \in {"global", "revert"} THEN {Global} ELSE Cameras),
             streams \in StreamsOf(kind) :
          op' = [op EXCEPT ![r] =
                    [kind |-> kind, key |-> key, streams |-> streams, save |-> save]]
    BY <1>1
  <1>3. pc[r] = "idle" /\ Active = {} /\ mem' = mem /\ draft' = draft
    BY DEF Begin, OneAtATime, frigate
  <1>4. /\ pc' = [pc EXCEPT ![r] = FirstStep(kind)]
        /\ op'[r].kind = kind /\ op'[r].key = key
        /\ \A q \in Requests \ {r} : op'[q] = op[q]
    BY <1>1, <1>2
  <1>5. /\ FirstStep(kind) \in {"register", "unregister", "revert", "read"}
        /\ FirstStep(kind) = "register" => kind \in {"add", "addstream"}
        /\ FirstStep(kind) = "unregister" => kind = "delstream"
        /\ FirstStep(kind) = "revert" => kind = "revert"
    BY DEF FirstStep
  <1>6. Alone'
    BY <1>3, <1>4 DEF Alone, Active
  <1>7. KindSteps'
    BY <1>2, <1>4, <1>5 DEF KindSteps
  <1>8. DraftFresh'
    <2> SUFFICES ASSUME NEW q \in Requests, Holding(q)'
                 PROVE  draft'[q] = Mutate(q, op'[q], mem')
      BY DEF DraftFresh
    <2>1. q # r
      BY <1>4, <1>5 DEF Holding
    <2> QED
      BY <1>3, <1>4, <2>1 DEF DraftFresh, Holding, Mutate
  <1> QED
    BY <1>6, <1>7, <1>8

LEMMA EditSerialInv ==
  ASSUME SerialInv, NEW r \in Requests, EditStep(r)
  PROVE  Alone' /\ KindSteps' /\ DraftFresh'
  <1> USE DEF SerialInv, TypeOK, Goto, Answered, frigate
  <1>1. pc[r] \in Running /\ op' = op /\ \A q \in Requests \ {r} : pc'[q] = pc[q]
    <2>1. CASE Register(r) \/ Unregister(r) \/ ReadConfig(r) \/ ListStreams(r)
      BY <2>1 DEF Register, Unregister, ReadConfig, ListStreams, Running, HttpSteps
    <2>2. CASE SetConfig(r) \/ RejectConfig(r) \/ SaveConfig(r) \/ RevertChange(r)
      BY <2>2 DEF SetConfig, RejectConfig, SaveConfig, RevertChange, Running, HttpSteps
    <2>3. CASE UndoRejected(r) \/ RecordFailure(r) \/ RecordSuccess(r)
      BY <2>3 DEF UndoRejected, RecordFailure, RecordSuccess, Running, StoreSteps
    <2>4. CASE InvalidateConfig(r) \/ InvalidateCameras(r) \/ CallFails(r)
      BY <2>4 DEF InvalidateConfig, InvalidateCameras, CallFails, Running, HttpSteps, StoreSteps
    <2> QED
      BY <2>1, <2>2, <2>3, <2>4 DEF EditStep
  <1>2. Alone'
    BY <1>1 DEF Alone
  <1>3. \A q \in Requests \ {r} : pc[q] \notin Running /\ ~Holding(q) /\ ~Holding(q)'
    BY <1>1 DEF Alone, Holding, Running, HttpSteps
  <1>4. KindSteps' /\ (Holding(r)' => draft'[r] = Mutate(r, op[r], mem'))
    <2> USE DEF KindSteps, Holding
    <2>1. CASE Register(r)
      BY <1>1, <2>1 DEF Register
    <2>6. CASE Unregister(r)
      <3>1. PICK role \in todo[r] :
              pc' = [pc EXCEPT ![r] = IF todo[r] # {role} THEN "unregister"
                              ELSE IF op[r].kind = "delstream" THEN "done" ELSE "set"]
              \/ pc' = [pc EXCEPT ![r] = "error"]
        BY <2>6 DEF Unregister
      <3>2. pc[r] = "unregister" /\ mem' = mem /\ draft' = draft
        BY <2>6 DEF Unregister
      <3> QED
        BY <1>1, <3>1, <3>2 DEF DraftFresh
    <2>7. CASE ListStreams(r)
      BY <1>1, <2>7 DEF ListStreams, DraftFresh
    <2>2. CASE ReadConfig(r)
      BY <1>1, <2>2 DEF ReadConfig
    <2>3. CASE SetConfig(r) \/ RejectConfig(r) \/ SaveConfig(r) \/ RevertChange(r)
      BY <1>1, <2>3 DEF SetConfig, RejectConfig, SaveConfig, RevertChange
    <2>4. CASE UndoRejected(r) \/ RecordFailure(r) \/ RecordSuccess(r)
      BY <1>1, <2>4 DEF UndoRejected, RecordFailure, RecordSuccess
    <2>5. CASE InvalidateConfig(r) \/ InvalidateCameras(r) \/ CallFails(r)
      BY <1>1, <2>5 DEF InvalidateConfig, InvalidateCameras, CallFails
    <2> QED
      BY <2>1, <2>2, <2>3, <2>4, <2>5, <2>6, <2>7 DEF EditStep
  <1>5. DraftFresh'
    BY <1>1, <1>3, <1>4 DEF DraftFresh
  <1> QED
    BY <1>2, <1>4, <1>5

LEMMA SerialStep ==
  ASSUME OneAtATime
  PROVE  SerialInv /\ [Next]_vars => SerialInv'
  <1> SUFFICES ASSUME SerialInv, [Next]_vars PROVE Alone' /\ KindSteps' /\ DraftFresh'
    BY TypeStep DEF SerialInv
  <1>1. ASSUME NEW x \in Readers, CacheMiss(x) \/ ReaderStep(x)
        PROVE  Alone' /\ KindSteps' /\ DraftFresh'
    <2>1. UNCHANGED <<mem, pc, op, draft>>
      BY <1>1 DEF CacheMiss, ReaderStep, Fetch, Fill, frigate, edit
    <2> QED
      BY <2>1 DEF SerialInv, Alone, KindSteps, DraftFresh, Holding, Mutate
  <1>2. ASSUME NEW v \in Views, Expire(v)
        PROVE  Alone' /\ KindSteps' /\ DraftFresh'
    BY <1>2 DEF Expire, frigate, edit, SerialInv, Alone, KindSteps, DraftFresh, Holding, Mutate
  <1>3. CASE Crash
    <2>1. \A r \in Requests : pc'[r] \notin Running /\ op'[r] = op[r]
      BY <1>3 DEF Crash, Active, Running, HttpSteps, StoreSteps
    <2>2. Alone'
      BY <2>1 DEF Alone
    <2> QED
      BY <2>1, <2>2 DEF SerialInv, KindSteps, DraftFresh, Holding, Running, HttpSteps
  <1>4. ~FrigateRestart
    BY DEF FrigateRestart, OneAtATime
  <1>5. CASE UNCHANGED vars
    BY <1>5 DEF vars, SerialInv, Alone, KindSteps, DraftFresh, Holding, Mutate
  <1> QED
    BY <1>1, <1>2, <1>3, <1>4, <1>5, BeginSerialInv, EditSerialInv DEF Next

LEMMA SerialInvariant == ASSUME OneAtATime PROVE Spec => []SerialInv
  BY InitSerialInv, SerialStep, PTL DEF Spec

-----------------------------------------------------------------------------
\* Every step is a step of the store, or none.
LEMMA StoreStep ==
  ASSUME OneAtATime, SerialInv, [Next]_vars
  PROVE  [Store!Next]_<<mem, disk>>
  <1> USE DEF frigate, edit
  <1>1. ASSUME NEW r \in Requests, SetConfig(r)
        PROVE  Store!Next
    <2>1. mem' = Mutate(r, op[r], mem) /\ disk' = disk
      BY <1>1 DEF SetConfig, SerialInv, DraftFresh, Holding
    <2>2. op[r].key \in Cameras \cup {Global}
      BY DEF SerialInv, TypeOK, Op, Keys
    <2>3. CASE op[r].kind = "delete"
      <3>1. op[r].key \in Cameras
        BY <2>3 DEF SerialInv, KindSteps
      <3> QED
        BY <2>1, <2>3, <3>1 DEF Mutate, Store!Next, Store!Remove
    <2>4. CASE op[r].kind # "delete"
      BY <2>1, <2>2, <2>4 DEF Mutate, Store!Next, Store!Put
    <2> QED
      BY <2>3, <2>4
  <1>2. ASSUME NEW r \in Requests, EditStep(r), ~SetConfig(r)
        PROVE  [Store!Next]_<<mem, disk>>
    BY <1>2 DEF EditStep, Register, ReadConfig, ListStreams, Unregister, RejectConfig,
       SaveConfig, UndoRejected, RecordFailure, RevertChange, RecordSuccess,
       InvalidateConfig, InvalidateCameras, CallFails,
       Store!Next, Store!Save, Store!Revert
  <1>3. ASSUME NEW r \in Requests, Begin(r)
        PROVE  UNCHANGED <<mem, disk>>
    BY <1>3 DEF Begin
  <1>4. ASSUME NEW x \in Readers, CacheMiss(x) \/ ReaderStep(x)
        PROVE  UNCHANGED <<mem, disk>>
    BY <1>4 DEF CacheMiss, ReaderStep, Fetch, Fill
  <1>5. ASSUME NEW v \in Views, Expire(v)
        PROVE  UNCHANGED <<mem, disk>>
    BY <1>5 DEF Expire
  <1>6. CASE Crash
    BY <1>6 DEF Crash
  <1>7. ~FrigateRestart
    BY DEF FrigateRestart, OneAtATime
  <1>8. CASE UNCHANGED vars
    BY <1>8 DEF vars
  <1> QED
    BY <1>1, <1>2, <1>3, <1>4, <1>5, <1>6, <1>7, <1>8 DEF Next

(***************************************************************************)
(* One edit at a time, with calls failing and answers lost wherever they   *)
(* may, the chain of calls implements the atomic store.                    *)
(***************************************************************************)
THEOREM SerialImplementsStore == ASSUME OneAtATime PROVE Spec => ImplementsStore
  <1>1. Init => Store!Init
    BY DEF Init, Store!Init
  <1>2. SerialInv /\ [Next]_vars => [Store!Next]_<<mem, disk>>
    BY StoreStep
  <1> QED
    BY <1>1, <1>2, SerialInvariant, PTL DEF Spec, ImplementsStore, Store!Spec

-----------------------------------------------------------------------------
(***************************************************************************)
(* Nothing saved is lost.  The invariant follows a change through its      *)
(* chain of calls: in memory before the save, then in memory and on disk,  *)
(* until a delete of its camera is about to be sent.                       *)
(***************************************************************************)
Change(r) == <<op[r].key, r>>
Writes(r) == op[r].kind \in {"add", "update", "global"}

Gone(r) ==
    \E d \in Requests : /\ op[d].kind = "delete" /\ op[d].key = op[r].key
                        /\ pc[d] \notin {"idle", "read", "list", "unregister"}

Saved(r) == \/ pc[r] = "record"
            \/ recorded[r] = "success"

Followed ==
    \A r \in Requests :
        /\ recorded[r] = "success" => pc[r] \in {"purge", "purgecams", "done", "error"}
        /\ Writes(r) /\ pc[r] = "save" => Change(r) \in mem \/ Gone(r)
        /\ Writes(r) /\ op[r].save /\ Saved(r) => Change(r) \in mem \cap disk \/ Gone(r)

LEMMA EditKeepsGone ==
  ASSUME SerialInv, NEW q \in Requests, EditStep(q)
  PROVE  \A r \in Requests : Gone(r) => Gone(r)'
  <1> USE DEF SerialInv, TypeOK, Goto, Answered
  <1>1. op' = op
    BY DEF EditStep, Register, ReadConfig, ListStreams, Unregister, SetConfig, RejectConfig,
       SaveConfig, UndoRejected, RecordFailure, RevertChange, RecordSuccess,
       InvalidateConfig, InvalidateCameras, CallFails
  <1>2. \A d \in Requests : op[d].kind = "delete"
          /\ pc[d] \notin {"idle", "read", "list", "unregister"}
          => pc'[d] \notin {"idle", "read", "list", "unregister"}
    <2>1. CASE Register(q) \/ Unregister(q) \/ ReadConfig(q) \/ ListStreams(q)
      BY <2>1 DEF KindSteps, Register, Unregister, ReadConfig, ListStreams
    <2>2. CASE SetConfig(q) \/ RejectConfig(q) \/ SaveConfig(q) \/ RevertChange(q)
      BY <2>2 DEF SetConfig, RejectConfig, SaveConfig, RevertChange
    <2>3. CASE UndoRejected(q) \/ RecordFailure(q) \/ RecordSuccess(q)
      BY <2>3 DEF UndoRejected, RecordFailure, RecordSuccess
    <2>4. CASE InvalidateConfig(q) \/ InvalidateCameras(q) \/ CallFails(q)
      BY <2>4 DEF InvalidateConfig, InvalidateCameras, CallFails
    <2> QED
      BY <2>1, <2>2, <2>3, <2>4 DEF EditStep
  <1> QED
    BY <1>1, <1>2 DEF Gone

\* What one edit does to the changes of all the others, and to its own.
LEMMA EditFollowed ==
  ASSUME OneAtATime, SerialInv, Followed, NEW q \in Requests, EditStep(q)
  PROVE  Followed'
  <1> USE DEF SerialInv, TypeOK, Goto, Answered, frigate
  <1>1. \A r \in Requests : Gone(r) => Gone(r)'
    BY EditKeepsGone
  <1>2. /\ op' = op
        /\ \A r \in Requests \ {q} : pc'[r] = pc[r] /\ recorded'[r] = recorded[r]
        /\ \A r \in Requests \ {q} : pc[r] \notin Running
    <2>1. pc[q] \in Running
      BY DEF EditStep, Register, ReadConfig, ListStreams, Unregister, SetConfig,
         RejectConfig, SaveConfig, UndoRejected, RecordFailure, RevertChange, RecordSuccess,
         InvalidateConfig, InvalidateCameras, CallFails, Running, HttpSteps, StoreSteps
    <2>2. op' = op /\ \A r \in Requests \ {q} : pc'[r] = pc[r] /\ recorded'[r] = recorded[r]
      BY DEF EditStep, Register, ReadConfig, ListStreams, Unregister, SetConfig,
         RejectConfig, SaveConfig, UndoRejected, RecordFailure, RevertChange, RecordSuccess,
         InvalidateConfig, InvalidateCameras, CallFails
    <2> QED
      BY <2>1, <2>2 DEF Alone
  <1>4. CASE Register(q) \/ ReadConfig(q) \/ ListStreams(q) \/ RejectConfig(q)
    BY <1>1, <1>2, <1>4 DEF Register, ReadConfig, ListStreams, RejectConfig, Followed,
       Writes, Change, Saved
  <1>5. CASE Unregister(q)
    BY <1>1, <1>2, <1>5 DEF Unregister, Followed, Writes, Change, Saved
  <1>6. CASE SetConfig(q)
    <2>1. mem' = Mutate(q, op[q], mem) /\ disk' = disk /\ recorded' = recorded
      BY <1>6 DEF SetConfig, DraftFresh, Holding
    <2>2. ASSUME NEW r \in Requests, Change(r) \in mem
          PROVE  Change(r) \in mem' \/ Gone(r)'
      <3>1. CASE op[q].kind = "delete" /\ op[q].key = op[r].key
        BY <1>2, <1>6, <3>1 DEF SetConfig, Gone
      <3> QED
        BY <2>1, <2>2, <3>1 DEF Mutate, Change
    <2>3. recorded[q] # "success" /\ (pc'[q] = "record" => ~op[q].save)
      BY <1>6 DEF SetConfig, Followed
    <2>4. Writes(q) => Change(q) \in mem'
      BY <2>1 DEF Writes, Mutate, Change
    <2>5. pc'[q] \in {"save", "record", "error"} /\ pc[q] = "set"
      BY <1>6 DEF SetConfig
    <2> QED
      BY <1>1, <1>2, <2>1, <2>2, <2>3, <2>4, <2>5 DEF Followed, Writes, Change, Saved
  <1>7. CASE SaveConfig(q)
    BY <1>1, <1>2, <1>7 DEF SaveConfig, Followed, Writes, Change, Saved, Running, HttpSteps
  <1>8. CASE UndoRejected(q) \/ RevertChange(q)
    BY <1>1, <1>2, <1>8 DEF UndoRejected, RevertChange, Followed, Writes, Change, Saved,
       Running, HttpSteps, KindSteps
  <1>9. CASE RecordFailure(q) \/ RecordSuccess(q)
    BY <1>1, <1>2, <1>9 DEF RecordFailure, RecordSuccess, Followed, Writes, Change, Saved
  <1>10. CASE InvalidateConfig(q) \/ InvalidateCameras(q) \/ CallFails(q)
    BY <1>1, <1>2, <1>10 DEF InvalidateConfig, InvalidateCameras, CallFails, Followed,
       Writes, Change, Saved
  <1> QED
    BY <1>4, <1>5, <1>6, <1>7, <1>8, <1>9, <1>10 DEF EditStep

LEMMA BeginFollowed ==
  ASSUME OneAtATime, SerialInv, Followed, NEW q \in Requests, Begin(q)
  PROVE  Followed'
  <1> USE DEF SerialInv, TypeOK, Goto, frigate
  <1>1. /\ pc[q] = "idle" /\ UNCHANGED <<mem, disk, recorded>>
        /\ \A r \in Requests \ {q} : pc'[r] = pc[r] /\ op'[r] = op[r]
        /\ pc'[q] \in {"register", "unregister", "revert", "read"}
    BY DEF Begin, FirstStep
  <1>2. recorded[q] # "success"
    BY <1>1 DEF Followed
  <1>3. \A r \in Requests \ {q} : Gone(r) => Gone(r)'
    BY <1>1 DEF Gone
  <1> QED
    BY <1>1, <1>2, <1>3 DEF Followed, Writes, Change, Saved

(***************************************************************************)
(* One edit at a time, a change that was saved and recorded as a success   *)
(* stays in config.yml until a delete of its camera is sent.               *)
(***************************************************************************)
THEOREM SerialSavedDurable == ASSUME OneAtATime PROVE Spec => []SavedDurable
  <1>1. Init => Followed
    BY DEF Init, Followed, Saved
  <1>2. SerialInv /\ Followed /\ [Next]_vars => Followed'
    <2> SUFFICES ASSUME SerialInv, Followed, [Next]_vars PROVE Followed'
      OBVIOUS
    <2>1. ASSUME NEW x \in Readers, CacheMiss(x) \/ ReaderStep(x) PROVE Followed'
      <3>1. UNCHANGED <<mem, disk, recorded, pc, op>>
        BY <2>1 DEF CacheMiss, ReaderStep, Fetch, Fill, frigate, edit
      <3> QED
        BY <3>1 DEF Followed, Writes, Change, Saved, Gone
    <2>2. ASSUME NEW v \in Views, Expire(v) PROVE Followed'
      BY <2>2 DEF Expire, frigate, edit, Followed, Writes, Change, Saved, Gone
    <2>3. CASE Crash
      <3>1. UNCHANGED <<mem, disk, recorded, op>>
        BY <2>3 DEF Crash, frigate
      <3>2. \A r \in Requests : pc'[r] = pc[r] \/ pc'[r] = "error"
        BY <2>3 DEF Crash
      <3>3. \A r \in Requests : Gone(r) => Gone(r)'
        BY <3>1, <3>2 DEF Gone
      <3> QED
        BY <3>1, <3>2, <3>3 DEF Followed, Writes, Change, Saved
    <2>4. ~FrigateRestart
      BY DEF FrigateRestart, OneAtATime
    <2>5. CASE UNCHANGED vars
      BY <2>5 DEF vars, Followed, Writes, Change, Saved, Gone
    <2> QED
      BY <2>1, <2>2, <2>3, <2>4, <2>5, BeginFollowed, EditFollowed DEF Next
  <1>3. Followed => SavedDurable
    BY DEF Followed, SavedDurable, Writes, Change, Saved, Gone
  <1> QED
    BY <1>1, <1>2, <1>3, SerialInvariant, PTL DEF Spec

-----------------------------------------------------------------------------
(***************************************************************************)
(* The streams of a new camera are in place before its configuration is    *)
(* sent.  The invariant follows them from the first registration on.       *)
(***************************************************************************)
Unregistered(r) == IF pc[r] = "register" THEN todo[r] ELSE {}

StreamsReady ==
    \A r \in Requests : op[r].kind = "add" /\ pc[r] \in {"register", "read", "set"} =>
        /\ op[r].key \in Cameras
        /\ \A role \in op[r].streams \ Unregistered(r) : go2rtc[op[r].key][role] = r

LEMMA BeginStreamsReady ==
  ASSUME SerialInv, StreamsReady, NEW r \in Requests, Begin(r)
  PROVE  StreamsReady'
  <1>1. PICK kind \in Kinds, save \in BOOLEAN :
        \E key \in (IF kind \in {"global", "revert"} THEN {Global} ELSE Cameras),
           streams \in StreamsOf(kind) :
          /\ op' = [op EXCEPT ![r] =
                    [kind |-> kind, key |-> key, streams |-> streams, save |-> save]]
          /\ todo' = [todo EXCEPT ![r] = streams]
          /\ pc' = [pc EXCEPT ![r] = FirstStep(kind)]
    BY DEF Begin, Goto
  <1>2. PICK key \in (IF kind \in {"global", "revert"} THEN {Global} ELSE Cameras),
             streams \in StreamsOf(kind) :
          /\ op' = [op EXCEPT ![r] =
                    [kind |-> kind, key |-> key, streams |-> streams, save |-> save]]
          /\ todo' = [todo EXCEPT ![r] = streams]
    BY <1>1
  <1>3. /\ op'[r].kind = kind /\ op'[r].key = key /\ op'[r].streams = streams
        /\ todo'[r] = streams /\ pc'[r] = FirstStep(kind)
        /\ \A q \in Requests \ {r} : op'[q] = op[q] /\ todo'[q] = todo[q] /\ pc'[q] = pc[q]
    BY <1>1, <1>2 DEF SerialInv, TypeOK
  <1>4. kind = "add" => FirstStep(kind) = "register" /\ key \in Cameras
    BY <1>2 DEF FirstStep
  <1>5. go2rtc' = go2rtc
    BY DEF Begin, frigate
  <1> QED
    BY <1>3, <1>4, <1>5 DEF StreamsReady, Unregistered

LEMMA EditStreamsReady ==
  ASSUME SerialInv, StreamsReady, NEW r \in Requests, EditStep(r)
  PROVE  StreamsReady'
  <1> USE DEF SerialInv, TypeOK, Goto, Answered, frigate
  <1>1. pc[r] \in Running /\ op' = op
    BY DEF EditStep, Register, ReadConfig, ListStreams, Unregister, SetConfig,
       RejectConfig, SaveConfig, UndoRejected, RecordFailure, RevertChange, RecordSuccess,
       InvalidateConfig, InvalidateCameras, CallFails, Running, HttpSteps, StoreSteps
  <1>2. \A q \in Requests \ {r} : pc'[q] = pc[q] /\ pc[q] \notin {"register", "read", "set"}
    <2>1. \A q \in Requests \ {r} : pc'[q] = pc[q]
      BY EditKeepsSent
    <2> QED
      BY <1>1, <2>1 DEF Alone, Running, HttpSteps
  <1>3. CASE Register(r)
    <2> DEFINE role == IF "main" \in todo[r] THEN "main" ELSE "sub"
               rest == todo[r] \ {role}
               next == IF op[r].kind = "addstream" THEN "done" ELSE "read"
    <2>1. /\ pc[r] = "register"
          /\ go2rtc' = [go2rtc EXCEPT ![op[r].key][role] = r]
          /\ todo'[r] = rest
          /\ pc'[r] = (IF rest = {} THEN next ELSE "register") \/ pc'[r] = "error"
      BY <1>3 DEF Register
    <2>2. ASSUME op[r].kind = "add", pc'[r] \in {"register", "read", "set"}
          PROVE  /\ op[r].key \in Cameras
                 /\ \A x \in op[r].streams \ Unregistered(r)' : go2rtc'[op[r].key][x] = r
      <3>1. op[r].key \in Cameras
            /\ \A x \in op[r].streams \ todo[r] : go2rtc[op[r].key][x] = r
        BY <2>1, <2>2 DEF StreamsReady, Unregistered
      <3>2. Unregistered(r)' = rest
        BY <2>1, <2>2 DEF Unregistered
      <3>3. op[r].streams \subseteq Roles /\ role \in Roles
        BY DEF Op, Roles
      <3>4. \A x \in Roles : go2rtc'[op[r].key][x] = IF x = role THEN r ELSE go2rtc[op[r].key][x]
        BY <2>1, <3>1, <3>3
      <3> HIDE DEF role
      <3> QED
        BY <3>1, <3>2, <3>3, <3>4
    <2> QED
      BY <1>1, <1>2, <2>2 DEF StreamsReady
  <1>4. CASE ReadConfig(r)
    BY <1>1, <1>2, <1>4 DEF ReadConfig, StreamsReady, Unregistered
  <1>5. CASE ListStreams(r) \/ Unregister(r)
    <2>1. op[r].kind # "add"
      BY <1>5 DEF ListStreams, Unregister, KindSteps
    <2> QED
      BY <1>1, <1>2, <2>1 DEF StreamsReady
  <1>6. CASE \/ SetConfig(r) \/ RejectConfig(r) \/ SaveConfig(r) \/ UndoRejected(r)
             \/ RecordFailure(r) \/ RevertChange(r) \/ RecordSuccess(r)
             \/ InvalidateConfig(r) \/ InvalidateCameras(r) \/ CallFails(r)
    <2>1. pc'[r] \notin {"register", "read", "set"}
      BY <1>6 DEF SetConfig, RejectConfig, SaveConfig, UndoRejected, RecordFailure,
         RevertChange, RecordSuccess, InvalidateConfig, InvalidateCameras, CallFails
    <2> QED
      BY <1>1, <1>2, <2>1 DEF StreamsReady
  <1> QED
    BY <1>3, <1>4, <1>5, <1>6 DEF EditStep

(***************************************************************************)
(* One edit at a time, the configuration of a new camera is sent to        *)
(* Frigate only when go2rtc has every stream it refers to, with the URL of *)
(* this request: add_camera registers the streams before it reads.         *)
(***************************************************************************)
THEOREM SerialStreamsInPlace == ASSUME OneAtATime PROVE Spec => []StreamsInPlace
  <1>1. Init => StreamsReady
    BY DEF Init, StreamsReady
  <1>2. SerialInv /\ StreamsReady /\ [Next]_vars => StreamsReady'
    <2> SUFFICES ASSUME SerialInv, StreamsReady, [Next]_vars PROVE StreamsReady'
      OBVIOUS
    <2>1. ASSUME UNCHANGED <<go2rtc, edit>>
          PROVE  StreamsReady'
      BY <2>1 DEF StreamsReady, Unregistered, edit
    <2>2. ASSUME NEW x \in Readers, CacheMiss(x) \/ ReaderStep(x) PROVE StreamsReady'
      BY <2>1, <2>2 DEF CacheMiss, ReaderStep, Fetch, Fill, frigate
    <2>3. ASSUME NEW v \in Views, Expire(v) PROVE StreamsReady'
      BY <2>1, <2>3 DEF Expire, frigate
    <2>4. CASE Crash
      <3>1. \A r \in Requests : pc'[r] \notin {"register", "read", "set"}
        BY <2>4 DEF Crash, Active, Running, HttpSteps
      <3> QED
        BY <3>1 DEF StreamsReady
    <2>5. CASE FrigateRestart
      BY <2>1, <2>5 DEF FrigateRestart
    <2>6. CASE UNCHANGED vars
      BY <2>1, <2>6 DEF vars, edit
    <2> QED
      BY <2>2, <2>3, <2>4, <2>5, <2>6, BeginStreamsReady, EditStreamsReady DEF Next
  <1>3. StreamsReady => StreamsInPlace
    BY DEF StreamsReady, StreamsInPlace, Unregistered
  <1> QED
    BY <1>1, <1>2, <1>3, SerialInvariant, PTL DEF Spec
=============================================================================
