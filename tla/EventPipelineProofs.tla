------------------------- MODULE EventPipelineProofs -------------------------
(***************************************************************************)
(* Theorems about EventPipeline, for any servers, objects and requests.    *)
(***************************************************************************)
EXTENDS EventPipeline, TLAPS

-----------------------------------------------------------------------------
(* Types.                                                                  *)

LEMMA StoredType ==
  ASSUME NEW s \in Servers, NEW msg \in Messages,
         rows \in [Events -> Rows \cup {NoRow}], nextId \in Nat
  PROVE  /\ Stored(s, msg) \in Rows
         /\ Stored(s, msg).id = IF rows[msg.event] = NoRow THEN nextId ELSE rows[msg.event].id
  <1>1. msg.event \in Events /\ msg.ended \in BOOLEAN /\ msg.clip \in BOOLEAN
    BY DEF Messages
  <1>2. CASE rows[msg.event] = NoRow
    BY <1>1, <1>2 DEF Stored, Rows
  <1>3. CASE rows[msg.event] # NoRow
    <2>1. rows[msg.event] \in Rows
      BY <1>1, <1>3
    <2> QED
      BY <1>1, <1>3, <2>1 DEF Stored, Rows
  <1> QED
    BY <1>2, <1>3

LEMMA InitType == Init => TypeOK
  <1> SUFFICES ASSUME Init PROVE TypeOK
    OBVIOUS
  <1>1. objects \in [Events -> Objects]
    BY Parameters DEF Init, Objects
  <1>2. queue \in [Servers -> Seq(Messages)]
    BY DEF Init
  <1>3. job \in [Servers -> Jobs] /\ request \in [Requests -> Asked]
    BY DEF Init, Jobs, Asked
  <1>4. dims \in [Servers -> [Servers -> Widths \cup {NoDims}]]
    BY DEF Init
  <1> QED
    BY <1>1, <1>2, <1>3, <1>4 DEF Init, TypeOK

LEMMA SendType ==
  ASSUME TypeOK, NEW msg \in Messages, Send(msg)
  PROVE  queue' \in [Servers -> Seq(Messages)]
  <1>1. \A s \in Servers : queue[s] \in Seq(Messages) /\ Append(queue[s], msg) \in Seq(Messages)
    BY DEF TypeOK
  <1> QED
    BY <1>1 DEF Send

LEMMA TrackType ==
  ASSUME TypeOK, NEW e \in Events, Track(e)
  PROVE  TypeOK'
  <1> DEFINE o == objects[e]
  <1>1. PICK shot, clip \in BOOLEAN, phase \in {"live", "ended"} :
          /\ o.phase = "unseen" => phase = "live"
          /\ o.phase = "live" /\ phase = "live" => o.updates < MaxUpdates
          /\ o.phase # "ended"
          /\ (o.shot => shot) /\ (o.clip => clip)
          /\ objects' = [objects EXCEPT ![e] =
               [phase |-> phase, shot |-> shot, clip |-> clip,
                updates |-> IF o.phase = phase THEN o.updates + 1 ELSE o.updates]]
          /\ Send([event |-> e, shot |-> shot, clip |-> clip, ended |-> phase = "ended",
                   right |-> width[Owner[e]]])
          /\ UNCHANGED <<width, job, dims, dbVars, feed, request>>
    BY Zenon DEF Track
  <1>2. objects[e].updates \in 0..MaxUpdates
    BY DEF TypeOK, Objects
  <1>3. objects' \in [Events -> Objects]
    <2>1. (IF o.phase = phase THEN o.updates + 1 ELSE o.updates) \in 0..MaxUpdates
      BY <1>1, <1>2, Parameters
    <2> QED
      BY <1>1, <2>1 DEF TypeOK, Objects
  <1>4. [event |-> e, shot |-> shot, clip |-> clip, ended |-> phase = "ended",
         right |-> width[Owner[e]]] \in Messages
    <2>1. width[Owner[e]] \in Widths
      BY Parameters DEF TypeOK
    <2>2. (phase = "ended") \in BOOLEAN
      OBVIOUS
    <2> QED
      BY <2>1, <2>2 DEF Messages
  <1>5. queue' \in [Servers -> Seq(Messages)]
    BY <1>1, <1>4, SendType
  <1> QED
    BY <1>3, <1>5 DEF Track, TypeOK, dbVars

LEMMA ReceiveType ==
  ASSUME TypeOK, NEW s \in Servers, Receive(s)
  PROVE  TypeOK'
  <1>1. queue[s] \in Seq(Messages) /\ queue[s] # <<>>
    BY DEF Receive, TypeOK
  <1>2. Head(queue[s]) \in Messages /\ Tail(queue[s]) \in Seq(Messages)
    BY <1>1
  <1>3. queue' \in [Servers -> Seq(Messages)]
    BY <1>2 DEF Receive, TypeOK
  <1>4. job' \in [Servers -> Jobs]
    <2>1. PICK j \in Jobs : job' = [job EXCEPT ![s] = j]
      BY <1>2 DEF Receive, Jobs
    <2> QED
      BY <2>1 DEF TypeOK
  <1> QED
    BY <1>3, <1>4 DEF Receive, TypeOK, dbVars

\* What a handler under way knows.
LEMMA JobType ==
  ASSUME TypeOK, NEW s \in Servers
  PROVE  /\ job[s].at \in {"upsert", "dims", "publish", "dispatch"} => job[s].msg \in Messages
         /\ job[s].at \in {"dims", "publish", "dispatch"} => job[s].id \in Nat
         /\ job[s].at \in {"publish", "dispatch"} => job[s].width \in Widths
         /\ job[s].at # "idle" => job[s].at \in {"upsert", "dims", "publish", "dispatch"}
  BY DEF TypeOK, Jobs, Idle

LEMMA HandleType ==
  ASSUME TypeOK, NEW s \in Servers, Handle(s)
  PROVE  TypeOK'
  <1>1. CASE Upsert(s)
    <2>1. job[s].msg \in Messages /\ job[s].msg.event \in Events
      BY <1>1, JobType DEF Upsert, Messages
    <2>2. Stored(s, job[s].msg) \in Rows
      BY <2>1, StoredType DEF TypeOK
    <2>3. rows' \in [Events -> Rows \cup {NoRow}] /\ nextId' \in Nat
      BY <1>1, <2>1, <2>2 DEF Upsert, TypeOK
    <2>4. PICK j \in Jobs : job' = [job EXCEPT ![s] = j]
      BY <1>1, <2>1, <2>2 DEF Upsert, Jobs, Rows
    <2> QED
      BY <1>1, <2>3, <2>4 DEF Upsert, TypeOK, frigateVars
  <1>2. CASE GetDetectDims(s)
    <2>1. job[s].msg \in Messages /\ job[s].msg.event \in Events /\ job[s].id \in Nat
      BY <1>2, JobType DEF GetDetectDims, Messages
    <2> DEFINE camera == Owner[job[s].msg.event]
    <2>2. camera \in Servers
      BY <2>1, Parameters
    <2>3. PICK w : /\ w \in IF dims[s][camera] # NoDims THEN {dims[s][camera]}
                            ELSE Fetched(s, camera)
                   /\ dims' = [dims EXCEPT ![s][camera] = w]
                   /\ job' = [job EXCEPT ![s] =
                        [at |-> "publish", msg |-> job[s].msg, id |-> job[s].id, width |-> w]]
      BY <1>2 DEF GetDetectDims
    <2>4. w \in Widths
      BY <2>2, <2>3 DEF TypeOK, Fetched, Fallback, Widths
    <2>5. dims' \in [Servers -> [Servers -> Widths \cup {NoDims}]]
      BY <2>2, <2>3, <2>4 DEF TypeOK
    <2>6. PICK j \in Jobs : job' = [job EXCEPT ![s] = j]
      BY <2>1, <2>3, <2>4 DEF Jobs
    <2> QED
      BY <1>2, <2>5, <2>6 DEF GetDetectDims, TypeOK, frigateVars, dbVars
  <1>3. CASE Publish(s)
    <2>1. job[s].msg \in Messages /\ job[s].id \in Nat /\ job[s].width \in Widths
      BY <1>3, JobType DEF Publish
    <2>2. [job[s] EXCEPT !.at = "dispatch"] \in Jobs
      <3>1. job[s] = [at |-> "publish", msg |-> job[s].msg, id |-> job[s].id,
                      width |-> job[s].width]
        BY <1>3 DEF Publish, TypeOK, Jobs, Idle
      <3>2. [job[s] EXCEPT !.at = "dispatch"]
              = [at |-> "dispatch", msg |-> job[s].msg, id |-> job[s].id, width |-> job[s].width]
        BY <3>1
      <3> QED
        BY <2>1, <3>2 DEF Jobs
    <2>3. PICK j \in Jobs : job' = [job EXCEPT ![s] = j]
      <3>1. CASE job' = [job EXCEPT ![s] = [job[s] EXCEPT !.at = "dispatch"]]
        BY <2>2, <3>1
      <3>2. CASE job' = [job EXCEPT ![s] = Idle]
        BY <3>2 DEF Jobs
      <3> QED
        BY <1>3, <3>1, <3>2 DEF Publish
    <2>4. feed' \subseteq Nat
      BY <1>3, <2>1 DEF Publish, TypeOK
    <2> QED
      BY <1>3, <2>3, <2>4 DEF Publish, TypeOK, frigateVars, dbVars
  <1>4. CASE DispatchPlugins(s)
    BY <1>4 DEF DispatchPlugins, TypeOK, Jobs, frigateVars, dbVars
  <1> QED
    BY <1>1, <1>2, <1>3, <1>4, ReceiveType DEF Handle

\* What a request that is about to commit has loaded.
LEMMA AskedType ==
  ASSUME TypeOK, NEW r \in Requests, request[r].at = "commit"
  PROVE  request[r].event \in Events /\ request[r].row \in Rows
  BY DEF TypeOK, Asked, Idle

LEMMA AskType ==
  ASSUME TypeOK, NEW r \in Requests, Ask(r)
  PROVE  TypeOK'
  <1>1. ASSUME NEW op \in Operations, NEW e \in Events, Load(r, op, e)
        PROVE  TypeOK'
    <2>1. rows[e] \in Rows /\ op \in {"delete", "protect", "unprotect"}
      BY <1>1, Parameters DEF Load, TypeOK
    <2>2. PICK q \in Asked : request' = [request EXCEPT ![r] = q]
      BY <1>1, <2>1 DEF Load, Asked
    <2> QED
      BY <1>1, <2>2 DEF Load, TypeOK, frigateVars, dbVars
  <1>2. CASE CommitDelete(r)
    <2>1. request[r].event \in Events /\ request[r].row.id \in Nat
      BY <1>2, AskedType DEF CommitDelete, Rows
    <2>2. request' \in [Requests -> Asked]
      BY <1>2 DEF CommitDelete, TypeOK, Asked
    <2> QED
      BY <1>2, <2>1, <2>2 DEF CommitDelete, TypeOK, frigateVars
  <1>3. CASE CommitProtection(r)
    <2> DEFINE q == request[r]  wanted == q.op = "protect"
    <2>1. q.event \in Events
      BY <1>3, AskedType DEF CommitProtection
    <2>2. request' \in [Requests -> Asked]
      BY <1>3 DEF CommitProtection, TypeOK, Asked
    <2>3. StillThere(q) => [rows[q.event] EXCEPT !.protected = wanted] \in Rows
      BY <2>1 DEF StillThere, TypeOK, Rows
    <2>4. rows' \in [Events -> Rows \cup {NoRow}]
      BY <1>3, <2>1, <2>3 DEF CommitProtection, TypeOK
    <2> QED
      BY <1>3, <2>2, <2>4 DEF CommitProtection, TypeOK, frigateVars
  <1> QED
    BY <1>1, <1>2, <1>3 DEF Ask

LEMMA NextType == TypeOK /\ [Next]_vars => TypeOK'
  <1> SUFFICES ASSUME TypeOK, [Next]_vars PROVE TypeOK'
    OBVIOUS
  <1>1. CASE UNCHANGED vars
    BY <1>1 DEF vars, TypeOK
  <1>2. ASSUME NEW s \in Servers, Resize(s)
        PROVE  TypeOK'
    BY <1>2 DEF Resize, TypeOK, dbVars
  <1>3. CASE Crash
    BY <1>3 DEF Crash, TypeOK, Jobs, Asked, dbVars
  <1> QED
    BY <1>1, <1>2, <1>3, TrackType, HandleType, AskType DEF Next

THEOREM TypeCorrect == Spec => []TypeOK
  BY InitType, NextType, PTL DEF Spec

-----------------------------------------------------------------------------
(* What is announced is stored.                                            *)

Known(i) == i \in erased \/ \E e \in Events : rows[e] # NoRow /\ rows[e].id = i

\* A handler past its commit holds the id of a row that is, or was, there.
AnnounceInv ==
  /\ TypeOK
  /\ \A i \in feed : Known(i)
  /\ \A s \in Servers : job[s].at \in {"dims", "publish"} => Known(job[s].id)

\* The id of a row outlives every step but its delete, which is recorded.
LEMMA KnownStays ==
  ASSUME TypeOK, [Next]_vars, NEW i, Known(i)
  PROVE  Known(i)'
  <1>1. CASE UNCHANGED dbVars
    BY <1>1 DEF Known, dbVars
  <1>2. ASSUME NEW s \in Servers, Upsert(s)
        PROVE  Known(i)'
    <2> DEFINE msg == job[s].msg  row == Stored(s, msg)
    <2>1. msg \in Messages /\ msg.event \in Events
      BY <1>2, JobType DEF Upsert, Messages
    <2>2. row # NoRow /\ (rows[msg.event] # NoRow => row.id = rows[msg.event].id)
      BY <2>1, StoredType, Parameters DEF TypeOK
    <2>3. rows' = [rows EXCEPT ![msg.event] = row] /\ erased' = erased
      BY <1>2 DEF Upsert
    <2>4. /\ rows'[msg.event] = row
          /\ \A e \in Events : e # msg.event => rows'[e] = rows[e]
      BY <2>1, <2>3 DEF TypeOK
    <2> QED
      BY <2>1, <2>2, <2>3, <2>4 DEF Known
  <1>3. ASSUME NEW r \in Requests, CommitDelete(r)
        PROVE  Known(i)'
    <2> DEFINE q == request[r]
    <2>1. q.event \in Events
      BY <1>3, AskedType DEF CommitDelete
    <2>2. /\ rows' = IF StillThere(q) THEN [rows EXCEPT ![q.event] = NoRow] ELSE rows
          /\ erased' = erased \cup {q.row.id}
      BY <1>3 DEF CommitDelete
    <2>3. \A e \in Events : e # q.event \/ ~StillThere(q) => rows'[e] = rows[e]
      BY <2>1, <2>2 DEF TypeOK
    <2> QED
      BY <2>1, <2>2, <2>3 DEF Known, StillThere
  <1>4. ASSUME NEW r \in Requests, CommitProtection(r)
        PROVE  Known(i)'
    <2> DEFINE q == request[r]  row == [rows[q.event] EXCEPT !.protected = (q.op = "protect")]
    <2>1. q.event \in Events
      BY <1>4, AskedType DEF CommitProtection
    <2>2. rows' = rows \/ (StillThere(q) /\ rows' = [rows EXCEPT ![q.event] = row])
      BY <1>4 DEF CommitProtection
    <2>3. StillThere(q) => row \in Rows /\ row.id = rows[q.event].id
      BY <2>1 DEF StillThere, TypeOK, Rows
    <2>4. CASE StillThere(q) /\ rows' = [rows EXCEPT ![q.event] = row]
      <3>1. /\ rows'[q.event] = row
            /\ \A e \in Events : e # q.event => rows'[e] = rows[e]
        BY <2>1, <2>4 DEF TypeOK
      <3> QED
        BY <1>4, <2>1, <2>3, <2>4, <3>1, Parameters DEF Known, StillThere, CommitProtection
    <2> QED
      BY <1>4, <2>2, <2>4 DEF Known, CommitProtection
  <1>5. ASSUME NEW r \in Requests, NEW op \in Operations, NEW e \in Events, Load(r, op, e)
        PROVE  UNCHANGED dbVars
    BY <1>5 DEF Load
  <1>6. ASSUME NEW e \in Events, Track(e)
        PROVE  UNCHANGED dbVars
    BY <1>6 DEF Track
  <1>7. ASSUME NEW s \in Servers,
               Resize(s) \/ Receive(s) \/ GetDetectDims(s) \/ Publish(s) \/ DispatchPlugins(s)
        PROVE  UNCHANGED dbVars
    BY <1>7 DEF Resize, Receive, GetDetectDims, Publish, DispatchPlugins
  <1>8. CASE Crash
    BY <1>1, <1>8 DEF Crash
  <1> QED
    BY <1>1, <1>2, <1>3, <1>4, <1>5, <1>6, <1>7, <1>8 DEF Next, Handle, Ask, vars, dbVars

LEMMA InitAnnounceInv == Init => AnnounceInv
  BY InitType DEF Init, AnnounceInv, Idle

LEMMA NextAnnounceInv == AnnounceInv /\ [Next]_vars => AnnounceInv'
  <1> SUFFICES ASSUME AnnounceInv, [Next]_vars PROVE AnnounceInv'
    OBVIOUS
  <1>1. TypeOK /\ TypeOK'
    BY NextType DEF AnnounceInv
  <1>2. \A i : Known(i) => Known(i)'
    BY <1>1, KnownStays
  <1>3. ASSUME UNCHANGED feed,
               \A s \in Servers : job'[s] = job[s] \/ job'[s].at \notin {"dims", "publish"}
        PROVE  AnnounceInv'
    BY <1>1, <1>2, <1>3 DEF AnnounceInv
  <1>4. ASSUME NEW e \in Events, Track(e)
        PROVE  AnnounceInv'
    BY <1>3, <1>4 DEF Track
  <1>5. ASSUME NEW s \in Servers, Resize(s) \/ Receive(s) \/ DispatchPlugins(s)
        PROVE  AnnounceInv'
    BY <1>1, <1>3, <1>5 DEF Resize, Receive, DispatchPlugins, TypeOK, Idle
  <1>6. ASSUME NEW s \in Servers, Upsert(s)
        PROVE  AnnounceInv'
    <2>1. PICK e \in Events, row \in Rows, msg \in Messages :
            /\ rows' = [rows EXCEPT ![e] = row]
            /\ job' = [job EXCEPT ![s] = [at |-> "dims", msg |-> msg, id |-> row.id]]
      <3>1. job[s].msg \in Messages /\ job[s].msg.event \in Events
        BY <1>1, <1>6, JobType DEF Upsert, Messages
      <3>2. Stored(s, job[s].msg) \in Rows
        BY <1>1, <3>1, StoredType DEF TypeOK
      <3> QED
        BY <1>6, <3>1, <3>2 DEF Upsert
    <2>2. Known(row.id)'
      <3>1. rows'[e] = row /\ row # NoRow
        BY <1>1, <2>1, Parameters DEF TypeOK
      <3> QED
        BY <3>1 DEF Known
    <2>3. job'[s].id = row.id /\ \A u \in Servers : u # s => job'[u] = job[u]
      BY <1>1, <2>1 DEF TypeOK
    <2>4. ASSUME NEW u \in Servers, job'[u].at \in {"dims", "publish"}
          PROVE  Known(job[u].id)'
      <3>1. CASE u = s
        BY <2>2, <2>3, <3>1 DEF Known
      <3>2. CASE u # s
        BY <1>2, <2>3, <2>4, <3>2 DEF AnnounceInv, Known
      <3> QED
        BY <3>1, <3>2
    <2>5. UNCHANGED feed
      BY <1>6 DEF Upsert
    <2> QED
      BY <1>1, <1>2, <2>4, <2>5 DEF AnnounceInv
  <1>7. ASSUME NEW s \in Servers, GetDetectDims(s)
        PROVE  AnnounceInv'
    <2>1. PICK w : job' = [job EXCEPT ![s] =
                     [at |-> "publish", msg |-> job[s].msg, id |-> job[s].id, width |-> w]]
      BY <1>7 DEF GetDetectDims
    <2>2. job'[s].id = job[s].id /\ \A u \in Servers : u # s => job'[u] = job[u]
      BY <1>1, <2>1 DEF TypeOK
    <2>3. job[s].at = "dims" /\ UNCHANGED feed
      BY <1>7 DEF GetDetectDims
    <2> QED
      BY <1>1, <1>2, <2>2, <2>3 DEF AnnounceInv
  <1>8. ASSUME NEW s \in Servers, Publish(s)
        PROVE  AnnounceInv'
    <2>1. job[s].at = "publish" /\ feed' \subseteq feed \cup {job[s].id}
      BY <1>8 DEF Publish
    <2>2. \A u \in Servers : job'[u] = job[u] \/ job'[u].at \notin {"dims", "publish"}
      <3>1. CASE job' = [job EXCEPT ![s].at = "dispatch"]
        <4>1. job[s] = [at |-> "publish", msg |-> job[s].msg, id |-> job[s].id,
                        width |-> job[s].width]
          BY <1>1, <2>1 DEF TypeOK, Jobs, Idle
        <4>2. [job[s] EXCEPT !.at = "dispatch"].at = "dispatch"
          BY <4>1
        <4>3. job'[s].at = "dispatch" /\ \A u \in Servers : u # s => job'[u] = job[u]
          BY <1>1, <3>1, <4>2 DEF TypeOK
        <4> QED
          BY <4>3
      <3>2. CASE job' = [job EXCEPT ![s] = Idle]
        BY <1>1, <3>2 DEF TypeOK, Idle
      <3> QED
        BY <1>8, <3>1, <3>2 DEF Publish
    <2> QED
      BY <1>1, <1>2, <2>1, <2>2 DEF AnnounceInv
  <1>9. ASSUME NEW r \in Requests, Ask(r)
        PROVE  AnnounceInv'
    BY <1>3, <1>9 DEF Ask, Load, CommitDelete, CommitProtection
  <1>10. CASE Crash
    BY <1>3, <1>10 DEF Crash, Idle
  <1>11. CASE UNCHANGED vars
    BY <1>3, <1>11 DEF vars
  <1> QED
    BY <1>4, <1>5, <1>6, <1>7, <1>8, <1>9, <1>10, <1>11 DEF Next, Handle

(* A client told of an event finds its row, unless a user deleted it,      *)
(* whatever messages are lost, broadcasts fail and processes stop: the     *)
(* commit of _handle_event comes before its publish.                       *)
THEOREM AnnouncedIsStored == Spec => []AnnouncedStored
  <1>1. AnnounceInv => AnnouncedStored
    BY DEF AnnounceInv, AnnouncedStored, Known
  <1> QED
    BY <1>1, InitAnnounceInv, NextAnnounceInv, PTL DEF Spec

-----------------------------------------------------------------------------
(* Rows belong to the server whose Frigate saw the object.                 *)

Own(s) == {m \in Messages : Owner[m.event] = s}

AttributeInv ==
  /\ TypeOK /\ RowAttributed
  /\ \A s \in Servers : queue[s] \in Seq(Own(s))
  /\ \A s \in Servers : job[s].at = "upsert" => job[s].msg \in Own(s)

LEMMA InitAttributeInv == Init => AttributeInv
  <1> SUFFICES ASSUME Init PROVE AttributeInv
    OBVIOUS
  <1>1. ASSUME NEW s \in Servers
        PROVE  queue[s] \in Seq(Own(s))
    <2>1. queue[s] = <<>>
      BY DEF Init
    <2> QED
      BY <2>1
  <1> QED
    BY <1>1, InitType DEF Init, AttributeInv, RowAttributed, Idle

LEMMA NextAttributeInv ==
  ASSUME ~SharedBroker, AttributeInv, [Next]_vars
  PROVE  AttributeInv'
  <1>1. TypeOK /\ TypeOK'
    BY NextType DEF AttributeInv
  <1>2. ASSUME UNCHANGED <<queue, rows>>,
               \A s \in Servers : job'[s] = job[s] \/ job'[s].at # "upsert"
        PROVE  AttributeInv'
    BY <1>1, <1>2 DEF AttributeInv, RowAttributed
  <1>3. ASSUME NEW e \in Events, Track(e)
        PROVE  AttributeInv'
    <2>1. PICK msg \in Messages : msg.event = e /\ Send(msg)
      <3>1. width[Owner[e]] \in Widths
        BY <1>1, Parameters DEF TypeOK
      <3>2. \E shot, clip, ended \in BOOLEAN :
              Send([event |-> e, shot |-> shot, clip |-> clip, ended |-> ended,
                    right |-> width[Owner[e]]])
        BY <1>3, Zenon DEF Track
      <3> QED
        BY <3>1, <3>2 DEF Messages
    <2>2. PICK heard \in SUBSET {Owner[e]} :
            queue' = [s \in Servers |-> IF s \in heard THEN Append(queue[s], msg) ELSE queue[s]]
      BY <2>1 DEF Send, Hearers
    <2>3. ASSUME NEW s \in Servers
          PROVE  queue'[s] \in Seq(Own(s))
      <3>1. queue[s] \in Seq(Own(s))
        BY DEF AttributeInv
      <3>2. s \in heard => msg \in Own(s)
        BY <2>1 DEF Own
      <3> QED
        BY <2>2, <3>1, <3>2
    <2> QED
      BY <1>1, <1>3, <2>3 DEF Track, dbVars, AttributeInv, RowAttributed
  <1>4. ASSUME NEW s \in Servers, Receive(s)
        PROVE  AttributeInv'
    <2>1. queue[s] \in Seq(Own(s)) /\ queue[s] # <<>>
      BY <1>4 DEF AttributeInv, Receive
    <2>2. Head(queue[s]) \in Own(s) /\ Tail(queue[s]) \in Seq(Own(s))
      BY <2>1
    <2>3. \A u \in Servers : queue'[u] \in Seq(Own(u))
      BY <1>1, <1>4, <2>2 DEF Receive, AttributeInv, TypeOK
    <2>4. \A u \in Servers : job'[u].at = "upsert" => job'[u].msg \in Own(u)
      BY <1>1, <1>4, <2>2 DEF Receive, AttributeInv, TypeOK, Idle
    <2> QED
      BY <1>1, <1>4, <2>3, <2>4 DEF Receive, dbVars, AttributeInv, RowAttributed
  <1>5. ASSUME NEW s \in Servers, Upsert(s)
        PROVE  AttributeInv'
    <2>1. job[s].msg \in Own(s)
      BY <1>5 DEF Upsert, AttributeInv
    <2>2. PICK e \in Events, row \in Rows :
            /\ Owner[e] = s /\ row.server = s /\ row.located
            /\ rows' = [rows EXCEPT ![e] = row]
      <3>1. job[s].msg \in Messages /\ job[s].msg.event \in Events /\ Owner[job[s].msg.event] = s
        BY <2>1 DEF Own, Messages
      <3>2. Stored(s, job[s].msg) \in Rows
        BY <1>1, <3>1, StoredType DEF TypeOK
      <3>3. CASE rows[job[s].msg.event] = NoRow
        <4>1. Stored(s, job[s].msg).server = s /\ Stored(s, job[s].msg).located
          BY <3>1, <3>3 DEF Stored
        <4> QED
          BY <1>5, <3>1, <3>2, <4>1 DEF Upsert
      <3>4. CASE rows[job[s].msg.event] # NoRow
        <4> DEFINE old == rows[job[s].msg.event]
        <4>1. old \in Rows /\ old.server = s /\ old.located
          BY <1>1, <3>1, <3>4 DEF TypeOK, AttributeInv, RowAttributed
        <4>2. Stored(s, job[s].msg).server = s /\ Stored(s, job[s].msg).located
          BY <3>4, <4>1 DEF Stored, Rows
        <4> QED
          BY <1>5, <3>1, <3>2, <4>2 DEF Upsert
      <3> QED
        BY <3>3, <3>4
    <2>3. RowAttributed'
      BY <1>1, <2>2 DEF TypeOK, AttributeInv, RowAttributed
    <2>4. \A u \in Servers : job'[u] = job[u] \/ job'[u].at # "upsert"
      BY <1>1, <1>5 DEF Upsert, TypeOK
    <2>5. UNCHANGED queue
      BY <1>5 DEF Upsert, frigateVars
    <2> QED
      BY <1>1, <2>3, <2>4, <2>5 DEF AttributeInv
  <1>6. ASSUME NEW s \in Servers, Resize(s) \/ DispatchPlugins(s)
        PROVE  AttributeInv'
    BY <1>1, <1>2, <1>6 DEF Resize, DispatchPlugins, frigateVars, dbVars, TypeOK, Idle
  <1>7. ASSUME NEW s \in Servers, GetDetectDims(s)
        PROVE  AttributeInv'
    <2>1. \A u \in Servers : job'[u] = job[u] \/ job'[u].at # "upsert"
      BY <1>1, <1>7 DEF GetDetectDims, TypeOK
    <2> QED
      BY <1>2, <1>7, <2>1 DEF GetDetectDims, frigateVars, dbVars
  <1>8. ASSUME NEW s \in Servers, Publish(s)
        PROVE  AttributeInv'
    <2>1. job[s] = [at |-> "publish", msg |-> job[s].msg, id |-> job[s].id,
                    width |-> job[s].width]
      BY <1>1, <1>8 DEF Publish, TypeOK, Jobs, Idle
    <2>2. [job[s] EXCEPT !.at = "dispatch"].at = "dispatch"
      BY <2>1
    <2>3. \A u \in Servers : job'[u] = job[u] \/ job'[u].at # "upsert"
      <3>1. CASE job' = [job EXCEPT ![s] = [job[s] EXCEPT !.at = "dispatch"]]
        BY <1>1, <2>2, <3>1 DEF TypeOK
      <3>2. CASE job' = [job EXCEPT ![s] = Idle]
        BY <1>1, <3>2 DEF TypeOK, Idle
      <3> QED
        BY <1>8, <3>1, <3>2 DEF Publish
    <2> QED
      BY <1>2, <1>8, <2>3 DEF Publish, frigateVars, dbVars
  <1>9. ASSUME NEW r \in Requests, Ask(r)
        PROVE  AttributeInv'
    <2>1. UNCHANGED <<queue, job>>
      BY <1>9 DEF Ask, Load, CommitDelete, CommitProtection, frigateVars
    <2>2. RowAttributed'
      <3>1. CASE UNCHANGED rows
        BY <3>1 DEF AttributeInv, RowAttributed
      <3>2. CASE CommitDelete(r)
        <4>1. rows' = rows \/ rows' = [rows EXCEPT ![request[r].event] = NoRow]
          BY <3>2 DEF CommitDelete
        <4> QED
          BY <1>1, <4>1 DEF TypeOK, AttributeInv, RowAttributed
      <3>3. CASE CommitProtection(r) /\ rows' # rows
        <4> DEFINE q == request[r]
        <4>1. q.event \in Events /\ StillThere(q)
          BY <1>1, <3>3, AskedType DEF CommitProtection
        <4>2. rows' = [rows EXCEPT ![q.event] =
                         [rows[q.event] EXCEPT !.protected = (q.op = "protect")]]
          BY <3>3 DEF CommitProtection
        <4>3. PICK row : /\ row.server = rows[q.event].server
                         /\ row.located = rows[q.event].located
                         /\ rows' = [rows EXCEPT ![q.event] = row]
          <5> DEFINE new == [rows[q.event] EXCEPT !.protected = (q.op = "protect")]
          <5>1. rows[q.event] \in Rows
            BY <1>1, <4>1 DEF TypeOK, StillThere
          <5>2. new.server = rows[q.event].server /\ new.located = rows[q.event].located
            BY <5>1 DEF Rows
          <5> QED
            BY <4>2, <5>2
        <4> QED
          BY <1>1, <4>1, <4>3 DEF TypeOK, AttributeInv, RowAttributed, StillThere
      <3> QED
        BY <1>9, <3>1, <3>2, <3>3 DEF Ask, Load, dbVars
    <2> QED
      BY <1>1, <2>1, <2>2 DEF AttributeInv
  <1>10. CASE Crash
    <2>1. \A s \in Servers : queue'[s] = <<>> /\ job'[s] = Idle
      BY <1>10 DEF Crash
    <2>2. ASSUME NEW s \in Servers
          PROVE  queue'[s] \in Seq(Own(s))
      <3>1. queue'[s] = <<>>
        BY <2>1
      <3> QED
        BY <3>1
    <2> QED
      BY <1>1, <1>10, <2>1, <2>2 DEF Crash, dbVars, AttributeInv, RowAttributed, Idle
  <1>11. CASE UNCHANGED vars
    BY <1>2, <1>11 DEF vars
  <1> QED
    BY <1>3, <1>4, <1>5, <1>6, <1>7, <1>8, <1>9, <1>10, <1>11 DEF Next, Handle

(* When every Frigate publishes to a broker of its own, a row belongs to   *)
(* the server whose Frigate saw the object, with a camera of that server   *)
(* (_handle_event attributes a message to the task that received it).      *)
THEOREM RowIsAttributed == ASSUME ~SharedBroker PROVE Spec => []RowAttributed
  <1>1. AttributeInv => RowAttributed
    BY DEF AttributeInv
  <1>2. AttributeInv /\ [Next]_vars => AttributeInv'
    BY NextAttributeInv
  <1> QED
    BY <1>1, <1>2, InitAttributeInv, PTL DEF Spec

-----------------------------------------------------------------------------
(* What a row says of a finished object stays.                             *)

\* What Frigate has sent of an object so far.
Over(e) == objects[e].phase = "ended"

\* A message, or a row, says no more than what is known to have ended and
\* to have a clip.
Before(m, ended, clip) == (m.ended => ended) /\ (m.clip => clip)

QueueOrder ==
  \A s \in Servers : \A i, j \in 1..Len(queue[s]) :
    i < j /\ queue[s][i].event = queue[s][j].event =>
      Before(queue[s][i], queue[s][j].ended, queue[s][j].clip)

QueueSound ==
  \A s \in Servers : \A i \in 1..Len(queue[s]) : \A e \in Events :
    queue[s][i].event = e => Before(queue[s][i], Over(e), objects[e].clip)

JobOrder ==
  \A s \in Servers : \A e \in Events : job[s].at = "upsert" /\ job[s].msg.event = e =>
    /\ Before(job[s].msg, Over(e), objects[e].clip)
    /\ \A i \in 1..Len(queue[s]) : queue[s][i].event = e =>
         Before(job[s].msg, queue[s][i].ended, queue[s][i].clip)

RowOrder ==
  \A e \in Events : rows[e] # NoRow =>
    /\ Before(rows[e], Over(e), objects[e].clip)
    /\ \A i \in 1..Len(queue[Owner[e]]) : queue[Owner[e]][i].event = e =>
         Before(rows[e], queue[Owner[e]][i].ended, queue[Owner[e]][i].clip)
    /\ job[Owner[e]].at = "upsert" /\ job[Owner[e]].msg.event = e =>
         Before(rows[e], job[Owner[e]].msg.ended, job[Owner[e]].msg.clip)

\* The row, the message being handled, the messages waiting in their order
\* and Frigate itself form a chain, along which nothing is taken back.
OrderInv == AttributeInv /\ QueueOrder /\ QueueSound /\ JobOrder /\ RowOrder

\* What Frigate's next message about an object does.
LEMMA TrackStep ==
  ASSUME TypeOK, NEW e \in Events, Track(e)
  PROVE  /\ UNCHANGED <<job, rows>>
         /\ \A f \in Events : f # e => objects'[f] = objects[f]
         /\ ~Over(e)
         /\ objects[e].clip => objects'[e].clip
         /\ objects[e].shot => objects'[e].shot
         /\ \E msg \in Messages :
              /\ msg.event = e /\ msg.ended = (objects'[e].phase = "ended")
              /\ msg.clip = objects'[e].clip /\ msg.shot = objects'[e].shot
              /\ Send(msg)
  <1> DEFINE o == objects[e]
  <1>1. PICK shot, clip \in BOOLEAN, phase \in {"live", "ended"} :
          /\ o.phase # "ended"
          /\ (o.shot => shot) /\ (o.clip => clip)
          /\ objects' = [objects EXCEPT ![e] =
               [phase |-> phase, shot |-> shot, clip |-> clip,
                updates |-> IF o.phase = phase THEN o.updates + 1 ELSE o.updates]]
          /\ Send([event |-> e, shot |-> shot, clip |-> clip, ended |-> phase = "ended",
                   right |-> width[Owner[e]]])
          /\ UNCHANGED <<width, job, dims, dbVars, feed, request>>
    BY Zenon DEF Track
  <1>2. objects'[e] = [phase |-> phase, shot |-> shot, clip |-> clip,
                       updates |-> IF o.phase = phase THEN o.updates + 1 ELSE o.updates]
    BY <1>1 DEF TypeOK
  <1>3. \A f \in Events : f # e => objects'[f] = objects[f]
    BY <1>1 DEF TypeOK
  <1> DEFINE m == [event |-> e, shot |-> shot, clip |-> clip, ended |-> phase = "ended",
                   right |-> width[Owner[e]]]
  <1>4. m \in Messages
    <2>1. width[Owner[e]] \in Widths
      BY Parameters DEF TypeOK
    <2>2. (phase = "ended") \in BOOLEAN
      OBVIOUS
    <2> QED
      BY <2>1, <2>2 DEF Messages
  <1>5. /\ m.event = e /\ m.ended = (objects'[e].phase = "ended")
        /\ m.clip = objects'[e].clip /\ m.shot = objects'[e].shot
    BY <1>2
  <1>6. Send(m)
    BY <1>1
  <1>7. \E msg \in Messages :
          /\ msg.event = e /\ msg.ended = (objects'[e].phase = "ended")
          /\ msg.clip = objects'[e].clip /\ msg.shot = objects'[e].shot
          /\ Send(msg)
    BY <1>4, <1>5, <1>6, Zenon
  <1>8. (objects[e].clip => objects'[e].clip) /\ (objects[e].shot => objects'[e].shot)
    BY <1>1, <1>2
  <1> QED
    BY <1>1, <1>3, <1>7, <1>8 DEF Over, dbVars

\* A message is put at the end of the queues of those who hear it.
LEMMA SendStep ==
  ASSUME TypeOK, NEW msg \in Messages, Send(msg), NEW s \in Servers
  PROVE  /\ \/ queue'[s] = queue[s]
            \/ /\ s \in Hearers(msg.event)
               /\ Len(queue'[s]) = Len(queue[s]) + 1
               /\ queue'[s][Len(queue[s]) + 1] = msg
               /\ \A i \in 1..Len(queue[s]) : queue'[s][i] = queue[s][i]
         /\ "lost" \notin Faults /\ s \in Hearers(msg.event) => queue'[s] # queue[s]
         /\ Len(queue[s]) \in Nat
  <1>1. queue[s] \in Seq(Messages)
    BY DEF TypeOK
  <1>2. PICK heard \in IF "lost" \in Faults THEN SUBSET Hearers(msg.event) ELSE {Hearers(msg.event)} :
          queue' = [u \in Servers |-> IF u \in heard THEN Append(queue[u], msg) ELSE queue[u]]
    BY DEF Send
  <1>3. queue'[s] = IF s \in heard THEN Append(queue[s], msg) ELSE queue[s]
    BY <1>2
  <1>4. /\ Len(Append(queue[s], msg)) = Len(queue[s]) + 1 /\ Len(queue[s]) \in Nat
        /\ Append(queue[s], msg)[Len(queue[s]) + 1] = msg
        /\ \A i \in 1..Len(queue[s]) : Append(queue[s], msg)[i] = queue[s][i]
    BY <1>1
  <1>5. heard \subseteq Hearers(msg.event) /\ ("lost" \notin Faults => heard = Hearers(msg.event))
    BY <1>2
  <1>6. Append(queue[s], msg) # queue[s]
    BY <1>4
  <1> QED
    BY <1>3, <1>4, <1>5, <1>6

\* The handler takes the first message of its queue, or drops it.
LEMMA ReceiveStep ==
  ASSUME TypeOK, NEW s \in Servers, Receive(s)
  PROVE  /\ UNCHANGED <<objects, rows>>
         /\ \A u \in Servers : u # s => queue'[u] = queue[u] /\ job'[u] = job[u]
         /\ Len(queue[s]) \in Nat /\ Len(queue[s]) > 0
         /\ queue[s][1] \in Messages
         /\ Len(queue'[s]) = Len(queue[s]) - 1
         /\ \A i \in 1..Len(queue'[s]) : i + 1 \in 1..Len(queue[s]) /\ queue'[s][i] = queue[s][i + 1]
         /\ job[s] = Idle
         /\ IF queue[s][1].shot THEN job'[s].at = "upsert" /\ job'[s].msg = queue[s][1]
                                ELSE job'[s] = Idle
  <1>1. queue[s] \in Seq(Messages) /\ queue[s] # <<>>
    BY DEF Receive, TypeOK
  <1>2. /\ Len(queue[s]) \in Nat /\ Len(queue[s]) > 0
        /\ Head(queue[s]) = queue[s][1] /\ queue[s][1] \in Messages
        /\ Len(Tail(queue[s])) = Len(queue[s]) - 1
        /\ \A i \in 1..Len(Tail(queue[s])) : i + 1 \in 1..Len(queue[s]) /\ Tail(queue[s])[i] = queue[s][i + 1]
    BY <1>1
  <1>3. queue'[s] = Tail(queue[s]) /\ \A u \in Servers : u # s => queue'[u] = queue[u]
    BY DEF Receive, TypeOK
  <1>4. /\ job'[s] = IF Head(queue[s]).shot THEN [at |-> "upsert", msg |-> Head(queue[s])] ELSE Idle
        /\ \A u \in Servers : u # s => job'[u] = job[u]
    BY DEF Receive, TypeOK
  <1>5. UNCHANGED <<objects, rows>> /\ job[s] = Idle
    BY DEF Receive, dbVars
  <1> QED
    BY <1>2, <1>3, <1>4, <1>5

\* The upsert writes what the message says and lets the job go on.
LEMMA UpsertStep ==
  ASSUME TypeOK, NEW s \in Servers, Upsert(s)
  PROVE  /\ UNCHANGED <<objects, queue>>
         /\ job[s].at = "upsert" /\ job'[s].at = "dims"
         /\ \A u \in Servers : u # s => job'[u] = job[u]
         /\ job[s].msg \in Messages /\ job[s].msg.event \in Events
         /\ \A e \in Events : e # job[s].msg.event => rows'[e] = rows[e]
         /\ LET msg == job[s].msg  new == rows'[msg.event]  old == rows[msg.event] IN
              /\ new \in Rows /\ new.ended = msg.ended /\ new.clip = msg.clip
              /\ new.protected = IF old = NoRow THEN FALSE ELSE old.protected
  <1> DEFINE msg == job[s].msg  row == Stored(s, msg)  old == rows[msg.event]
  <1>1. msg \in Messages /\ msg.event \in Events
    BY JobType DEF Upsert, Messages
  <1>2. row \in Rows
    BY <1>1, StoredType DEF TypeOK
  <1>3. /\ row.ended = msg.ended /\ row.clip = msg.clip
        /\ row.protected = IF old = NoRow THEN FALSE ELSE old.protected
    <2>1. CASE old = NoRow
      BY <2>1 DEF Stored
    <2>2. CASE old # NoRow
      <3>1. old \in Rows
        BY <1>1, <2>2 DEF TypeOK
      <3> QED
        BY <2>2, <3>1 DEF Stored, Rows
    <2> QED
      BY <2>1, <2>2
  <1>4. rows'[msg.event] = row /\ \A e \in Events : e # msg.event => rows'[e] = rows[e]
    <2>1. rows' = [rows EXCEPT ![msg.event] = row]
      BY DEF Upsert
    <2> QED
      BY <1>1, <2>1 DEF TypeOK
  <1>5. job'[s].at = "dims" /\ \A u \in Servers : u # s => job'[u] = job[u]
    <2>1. job' = [job EXCEPT ![s] = [at |-> "dims", msg |-> msg, id |-> row.id]]
      BY DEF Upsert
    <2> QED
      BY <2>1 DEF TypeOK
  <1> QED
    BY <1>1, <1>2, <1>3, <1>4, <1>5 DEF Upsert, frigateVars

\* The other steps of a task leave the table, the queues and Frigate alone.
LEMMA QuietStep ==
  ASSUME TypeOK, NEW s \in Servers,
         Resize(s) \/ GetDetectDims(s) \/ Publish(s) \/ DispatchPlugins(s)
  PROVE  /\ UNCHANGED <<objects, queue, rows>>
         /\ \A u \in Servers : job'[u] = job[u] \/ (job[u].at # "upsert" /\ job'[u].at # "upsert")
  <1>1. CASE Resize(s)
    BY <1>1 DEF Resize, dbVars
  <1>2. CASE GetDetectDims(s)
    <2>1. job[s].at = "dims" /\ \E w : job' = [job EXCEPT ![s] =
            [at |-> "publish", msg |-> job[s].msg, id |-> job[s].id, width |-> w]]
      BY <1>2 DEF GetDetectDims
    <2> QED
      BY <1>2, <2>1 DEF GetDetectDims, TypeOK, frigateVars, dbVars
  <1>3. CASE Publish(s)
    <2>1. job[s] = [at |-> "publish", msg |-> job[s].msg, id |-> job[s].id,
                    width |-> job[s].width]
      BY <1>3 DEF Publish, TypeOK, Jobs, Idle
    <2>2. [job[s] EXCEPT !.at = "dispatch"].at = "dispatch" /\ Idle.at = "idle"
      BY <2>1 DEF Idle
    <2>3. PICK j : j.at # "upsert" /\ job' = [job EXCEPT ![s] = j]
      <3>1. CASE job' = [job EXCEPT ![s] = [job[s] EXCEPT !.at = "dispatch"]]
        BY <2>2, <3>1
      <3>2. CASE job' = [job EXCEPT ![s] = Idle]
        BY <2>2, <3>2
      <3> QED
        BY <1>3, <3>1, <3>2 DEF Publish
    <2>4. job[s].at = "publish"
      BY <1>3 DEF Publish
    <2> QED
      BY <1>3, <2>3, <2>4 DEF Publish, TypeOK, frigateVars, dbVars
  <1>4. CASE DispatchPlugins(s)
    BY <1>4 DEF DispatchPlugins, TypeOK, Idle, frigateVars, dbVars
  <1> QED
    BY <1>1, <1>2, <1>3, <1>4

\* A request deletes a row or sets its protection, and writes nothing else.
LEMMA AskStep ==
  ASSUME TypeOK, NEW r \in Requests, Ask(r)
  PROVE  /\ UNCHANGED <<objects, queue, job>>
         /\ \A e \in Events : rows[e] = NoRow => rows'[e] = NoRow
         /\ \A e \in Events : rows[e] # NoRow =>
              \/ rows'[e] = rows[e]
              \/ rows'[e] = NoRow /\ CommitDelete(r) /\ request[r].event = e /\ StillThere(request[r])
              \/ /\ rows'[e] # NoRow /\ CommitProtection(r)
                 /\ rows'[e].id = rows[e].id
                 /\ rows'[e].ended = rows[e].ended /\ rows'[e].clip = rows[e].clip
                 /\ rows'[e].protected = (request[r].op = "protect")
  <1>1. UNCHANGED <<objects, queue, job>>
    BY DEF Ask, Load, CommitDelete, CommitProtection, frigateVars
  <1>2. CASE UNCHANGED rows
    BY <1>1, <1>2
  <1>3. CASE CommitDelete(r)
    <2>1. rows' = IF StillThere(request[r]) THEN [rows EXCEPT ![request[r].event] = NoRow] ELSE rows
      BY <1>3 DEF CommitDelete
    <2> QED
      BY <1>1, <1>3, <2>1 DEF TypeOK
  <1>4. CASE CommitProtection(r) /\ rows' # rows
    <2> DEFINE q == request[r]  new == [rows[q.event] EXCEPT !.protected = (q.op = "protect")]
    <2>1. q.event \in Events /\ StillThere(q)
      BY <1>4, AskedType DEF CommitProtection
    <2>2. rows' = [rows EXCEPT ![q.event] = new]
      BY <1>4 DEF CommitProtection
    <2>3. rows[q.event] \in Rows
      BY <2>1 DEF TypeOK, StillThere
    <2>4. /\ new.id = rows[q.event].id /\ new.ended = rows[q.event].ended
          /\ new.clip = rows[q.event].clip /\ new.protected = (q.op = "protect")
          /\ new \in Rows
      BY <2>3 DEF Rows
    <2>5. rows'[q.event] = new /\ \A e \in Events : e # q.event => rows'[e] = rows[e]
      BY <2>1, <2>2 DEF TypeOK
    <2>6. new # NoRow
      BY <2>4, Parameters
    <2>7. rows[q.event] # NoRow
      BY <2>1 DEF StillThere
    <2> HIDE DEF new
    <2> QED
      BY <1>1, <1>4, <2>4, <2>5, <2>6, <2>7
  <1> QED
    BY <1>2, <1>3, <1>4 DEF Ask, Load, dbVars

LEMMA InitOrderInv == Init => OrderInv
  <1> SUFFICES ASSUME Init PROVE OrderInv
    OBVIOUS
  <1>1. \A s \in Servers : Len(queue[s]) = 0 /\ job[s].at = "idle"
    BY DEF Init, Idle
  <1>2. \A e \in Events : rows[e] = NoRow
    BY DEF Init
  <1> QED
    BY <1>1, <1>2, InitAttributeInv, Parameters
       DEF OrderInv, QueueOrder, QueueSound, JobOrder, RowOrder

\* When Frigate and the queues stay, or lose what waits, only the rows and
\* the jobs have to be looked at.
LEMMA OrderStays ==
  ASSUME OrderInv, UNCHANGED objects,
         \A s \in Servers : queue'[s] = queue[s] \/ queue'[s] = <<>>,
         \A s \in Servers : job'[s] = job[s] \/ job'[s].at # "upsert",
         \A e \in Events : rows'[e] # NoRow =>
           rows[e] # NoRow /\ rows'[e].ended = rows[e].ended /\ rows'[e].clip = rows[e].clip
  PROVE  QueueOrder' /\ QueueSound' /\ JobOrder' /\ RowOrder'
  <1>1. \A s \in Servers : \A i \in 1..Len(queue'[s]) : queue'[s] = queue[s]
    OBVIOUS
  <1>2. QueueOrder'
    BY <1>1 DEF OrderInv, QueueOrder
  <1>3. QueueSound'
    BY <1>1 DEF OrderInv, QueueSound, Over
  <1>4. JobOrder'
    BY <1>1 DEF OrderInv, JobOrder, Over
  <1>5. RowOrder'
    BY <1>1, Parameters DEF OrderInv, RowOrder, Over, Before
  <1> QED
    BY <1>2, <1>3, <1>4, <1>5

\* Frigate's next message says at least what every earlier one did.
LEMMA TrackOrder ==
  ASSUME ~SharedBroker, OrderInv, NEW e \in Events, Track(e)
  PROVE  QueueOrder' /\ QueueSound' /\ JobOrder' /\ RowOrder'
  <1>1. TypeOK
    BY DEF OrderInv, AttributeInv
  <1>2. PICK msg \in Messages :
          /\ msg.event = e /\ msg.ended = (objects'[e].phase = "ended")
          /\ msg.clip = objects'[e].clip /\ Send(msg)
    BY <1>1, TrackStep, Zenon
  <1>3. /\ UNCHANGED <<job, rows>> /\ ~Over(e) /\ (objects[e].clip => objects'[e].clip)
        /\ \A f \in Events : f # e => objects'[f] = objects[f]
    BY <1>1, TrackStep
  <1>4. \A s \in Servers :
          /\ Len(queue[s]) \in Nat
          /\ \/ queue'[s] = queue[s]
             \/ /\ Len(queue'[s]) = Len(queue[s]) + 1
                /\ queue'[s][Len(queue[s]) + 1] = msg
                /\ \A i \in 1..Len(queue[s]) : queue'[s][i] = queue[s][i]
    BY <1>1, <1>2, SendStep
  \* What was sent of the object says no more than the new message.
  <1>5. \A m, f : f \in Events /\ Before(m, Over(f), objects[f].clip) =>
          /\ Before(m, Over(f)', objects'[f].clip)
          /\ f = e => Before(m, msg.ended, msg.clip)
    BY <1>2, <1>3 DEF Before, Over
  <1>6. \A f \in Events : f = e => Before(msg, Over(f)', objects'[f].clip)
    BY <1>2 DEF Before, Over
  <1>7. QueueSound'
    <2> SUFFICES ASSUME NEW s \in Servers, NEW i \in 1..Len(queue'[s]), NEW f \in Events,
                        queue'[s][i].event = f
                 PROVE  Before(queue'[s][i], Over(f)', objects'[f].clip)
      BY DEF QueueSound
    <2>1. CASE i \in 1..Len(queue[s]) /\ queue'[s][i] = queue[s][i]
      BY <1>5, <2>1 DEF OrderInv, QueueSound
    <2>2. CASE queue'[s][i] = msg
      BY <1>2, <1>6, <2>2
    <2> QED
      BY <1>4, <2>1, <2>2
  <1>8. QueueOrder'
    <2> SUFFICES ASSUME NEW s \in Servers,
                        NEW i \in 1..Len(queue'[s]), NEW j \in 1..Len(queue'[s]),
                        i < j, queue'[s][i].event = queue'[s][j].event
                 PROVE  Before(queue'[s][i], queue'[s][j].ended, queue'[s][j].clip)
      BY DEF QueueOrder
    <2>1. i \in 1..Len(queue[s]) /\ queue'[s][i] = queue[s][i]
      BY <1>4
    <2>2. CASE j \in 1..Len(queue[s]) /\ queue'[s][j] = queue[s][j]
      BY <2>1, <2>2 DEF OrderInv, QueueOrder
    <2>3. CASE queue'[s][j] = msg
      <3>1. queue[s][i].event = e
        BY <1>2, <2>1, <2>3
      <3>2. Before(queue[s][i], Over(e), objects[e].clip)
        BY <2>1, <3>1 DEF OrderInv, QueueSound
      <3> QED
        BY <1>5, <2>1, <2>3, <3>2
    <2> QED
      BY <1>4, <2>2, <2>3
  <1>9. JobOrder'
    <2> SUFFICES ASSUME NEW s \in Servers, NEW f \in Events,
                        job'[s].at = "upsert", job'[s].msg.event = f
                 PROVE  /\ Before(job'[s].msg, Over(f)', objects'[f].clip)
                        /\ \A i \in 1..Len(queue'[s]) : queue'[s][i].event = f =>
                             Before(job'[s].msg, queue'[s][i].ended, queue'[s][i].clip)
      BY DEF JobOrder
    <2>1. Before(job[s].msg, Over(f), objects[f].clip)
      BY <1>3 DEF OrderInv, JobOrder
    <2>2. ASSUME NEW i \in 1..Len(queue'[s]), queue'[s][i].event = f
          PROVE  Before(job'[s].msg, queue'[s][i].ended, queue'[s][i].clip)
      <3>1. CASE i \in 1..Len(queue[s]) /\ queue'[s][i] = queue[s][i]
        BY <1>3, <2>2, <3>1 DEF OrderInv, JobOrder
      <3>2. CASE queue'[s][i] = msg
        BY <1>2, <1>3, <1>5, <2>1, <2>2, <3>2
      <3> QED
        BY <1>4, <3>1, <3>2
    <2> QED
      BY <1>3, <1>5, <2>1, <2>2
  <1>10. RowOrder'
    <2> SUFFICES ASSUME NEW f \in Events, rows'[f] # NoRow
                 PROVE  /\ Before(rows'[f], Over(f)', objects'[f].clip)
                        /\ \A i \in 1..Len(queue'[Owner[f]]) : queue'[Owner[f]][i].event = f =>
                             Before(rows'[f], queue'[Owner[f]][i].ended, queue'[Owner[f]][i].clip)
                        /\ job'[Owner[f]].at = "upsert" /\ job'[Owner[f]].msg.event = f =>
                             Before(rows'[f], job'[Owner[f]].msg.ended, job'[Owner[f]].msg.clip)
      BY DEF RowOrder
    <2>1. /\ Before(rows[f], Over(f), objects[f].clip)
          /\ \A i \in 1..Len(queue[Owner[f]]) : queue[Owner[f]][i].event = f =>
               Before(rows[f], queue[Owner[f]][i].ended, queue[Owner[f]][i].clip)
          /\ job[Owner[f]].at = "upsert" /\ job[Owner[f]].msg.event = f =>
               Before(rows[f], job[Owner[f]].msg.ended, job[Owner[f]].msg.clip)
      BY <1>3 DEF OrderInv, RowOrder
    <2>2. Owner[f] \in Servers
      BY Parameters
    <2>3. ASSUME NEW i \in 1..Len(queue'[Owner[f]]), queue'[Owner[f]][i].event = f
          PROVE  Before(rows'[f], queue'[Owner[f]][i].ended, queue'[Owner[f]][i].clip)
      <3>1. CASE i \in 1..Len(queue[Owner[f]]) /\ queue'[Owner[f]][i] = queue[Owner[f]][i]
        BY <1>3, <2>1, <2>3, <3>1
      <3>2. CASE queue'[Owner[f]][i] = msg
        BY <1>2, <1>3, <1>5, <2>1, <2>3, <3>2
      <3> QED
        BY <1>4, <2>2, <3>1, <3>2
    <2> QED
      BY <1>3, <1>5, <2>1, <2>3
  <1> QED
    BY <1>7, <1>8, <1>9, <1>10

LEMMA ReceiveOrder ==
  ASSUME OrderInv, NEW s \in Servers, Receive(s)
  PROVE  QueueOrder' /\ QueueSound' /\ JobOrder' /\ RowOrder'
  <1>1. TypeOK
    BY DEF OrderInv, AttributeInv
  <1>2. /\ UNCHANGED <<objects, rows>>
        /\ \A u \in Servers : u # s => queue'[u] = queue[u] /\ job'[u] = job[u]
        /\ Len(queue[s]) \in Nat /\ Len(queue[s]) > 0
        /\ Len(queue'[s]) = Len(queue[s]) - 1
        /\ \A i \in 1..Len(queue'[s]) : i + 1 \in 1..Len(queue[s]) /\ queue'[s][i] = queue[s][i + 1]
        /\ \/ job'[s].at = "upsert" /\ job'[s].msg = queue[s][1]
           \/ job'[s].at = "idle"
    BY <1>1, ReceiveStep DEF Idle
  <1>3. QueueOrder'
    <2> SUFFICES ASSUME NEW u \in Servers,
                        NEW i \in 1..Len(queue'[u]), NEW j \in 1..Len(queue'[u]),
                        i < j, queue'[u][i].event = queue'[u][j].event
                 PROVE  Before(queue'[u][i], queue'[u][j].ended, queue'[u][j].clip)
      BY DEF QueueOrder
    <2>1. CASE u = s
      <3>1. /\ i + 1 \in 1..Len(queue[s]) /\ queue'[s][i] = queue[s][i + 1]
            /\ j + 1 \in 1..Len(queue[s]) /\ queue'[s][j] = queue[s][j + 1]
            /\ i + 1 < j + 1
        BY <1>2, <2>1
      <3> QED
        BY <2>1, <3>1 DEF OrderInv, QueueOrder
    <2>2. CASE u # s
      BY <1>2, <2>2 DEF OrderInv, QueueOrder
    <2> QED
      BY <2>1, <2>2
  <1>4. QueueSound'
    <2> SUFFICES ASSUME NEW u \in Servers, NEW i \in 1..Len(queue'[u]), NEW f \in Events,
                        queue'[u][i].event = f
                 PROVE  Before(queue'[u][i], Over(f)', objects'[f].clip)
      BY DEF QueueSound
    <2>1. \E k \in 1..Len(queue[u]) : queue'[u][i] = queue[u][k]
      <3>1. CASE u = s
        BY <1>2, <3>1
      <3>2. CASE u # s
        BY <1>2, <3>2
      <3> QED
        BY <3>1, <3>2
    <2> QED
      BY <1>2, <2>1 DEF OrderInv, QueueSound, Over
  <1>5. JobOrder'
    <2> SUFFICES ASSUME NEW u \in Servers, NEW f \in Events,
                        job'[u].at = "upsert", job'[u].msg.event = f
                 PROVE  /\ Before(job'[u].msg, Over(f)', objects'[f].clip)
                        /\ \A i \in 1..Len(queue'[u]) : queue'[u][i].event = f =>
                             Before(job'[u].msg, queue'[u][i].ended, queue'[u][i].clip)
      BY DEF JobOrder
    <2>1. CASE u = s
      <3>1. job'[s].msg = queue[s][1] /\ 1 \in 1..Len(queue[s])
        BY <1>2, <2>1
      <3>2. ASSUME NEW i \in 1..Len(queue'[s]), queue'[s][i].event = f
            PROVE  Before(job'[s].msg, queue'[s][i].ended, queue'[s][i].clip)
        <4>1. i + 1 \in 1..Len(queue[s]) /\ queue'[s][i] = queue[s][i + 1] /\ 1 < i + 1
          BY <1>2
        <4> QED
          BY <2>1, <3>1, <3>2, <4>1 DEF OrderInv, QueueOrder
      <3> QED
        BY <1>2, <2>1, <3>1, <3>2 DEF OrderInv, QueueSound, Over
    <2>2. CASE u # s
      BY <1>2, <2>2 DEF OrderInv, JobOrder, Over
    <2> QED
      BY <2>1, <2>2
  <1>6. RowOrder'
    <2> SUFFICES ASSUME NEW f \in Events, rows'[f] # NoRow
                 PROVE  /\ Before(rows'[f], Over(f)', objects'[f].clip)
                        /\ \A i \in 1..Len(queue'[Owner[f]]) : queue'[Owner[f]][i].event = f =>
                             Before(rows'[f], queue'[Owner[f]][i].ended, queue'[Owner[f]][i].clip)
                        /\ job'[Owner[f]].at = "upsert" /\ job'[Owner[f]].msg.event = f =>
                             Before(rows'[f], job'[Owner[f]].msg.ended, job'[Owner[f]].msg.clip)
      BY DEF RowOrder
    <2>1. /\ Before(rows[f], Over(f), objects[f].clip)
          /\ \A i \in 1..Len(queue[Owner[f]]) : queue[Owner[f]][i].event = f =>
               Before(rows[f], queue[Owner[f]][i].ended, queue[Owner[f]][i].clip)
          /\ job[Owner[f]].at = "upsert" /\ job[Owner[f]].msg.event = f =>
               Before(rows[f], job[Owner[f]].msg.ended, job[Owner[f]].msg.clip)
      BY <1>2 DEF OrderInv, RowOrder
    <2>2. Owner[f] \in Servers
      BY Parameters
    <2>3. CASE Owner[f] = s
      <3>1. ASSUME job'[s].at = "upsert", job'[s].msg.event = f
            PROVE  Before(rows'[f], job'[s].msg.ended, job'[s].msg.clip)
        <4>1. job'[s].msg = queue[s][1] /\ 1 \in 1..Len(queue[s])
          BY <1>2, <3>1
        <4> QED
          BY <1>2, <2>1, <2>3, <3>1, <4>1
      <3>2. ASSUME NEW i \in 1..Len(queue'[s]), queue'[s][i].event = f
            PROVE  Before(rows'[f], queue'[s][i].ended, queue'[s][i].clip)
        BY <1>2, <2>1, <2>3, <3>2
      <3> QED
        BY <1>2, <2>1, <2>3, <3>1, <3>2 DEF Over
    <2>4. CASE Owner[f] # s
      BY <1>2, <2>1, <2>2, <2>4 DEF Over
    <2> QED
      BY <2>3, <2>4
  <1> QED
    BY <1>3, <1>4, <1>5, <1>6

LEMMA UpsertOrder ==
  ASSUME OrderInv, NEW s \in Servers, Upsert(s)
  PROVE  /\ QueueOrder' /\ QueueSound' /\ JobOrder' /\ RowOrder'
         /\ Owner[job[s].msg.event] = s
  <1> DEFINE msg == job[s].msg
  <1>1. TypeOK
    BY DEF OrderInv, AttributeInv
  <1>2. /\ UNCHANGED <<objects, queue>>
        /\ job[s].at = "upsert" /\ job'[s].at = "dims"
        /\ \A u \in Servers : u # s => job'[u] = job[u]
        /\ msg \in Messages /\ msg.event \in Events
        /\ \A e \in Events : e # msg.event => rows'[e] = rows[e]
        /\ rows'[msg.event].ended = msg.ended /\ rows'[msg.event].clip = msg.clip
    BY <1>1, UpsertStep
  <1>3. Owner[msg.event] = s
    BY <1>2 DEF OrderInv, AttributeInv, Own
  <1>4. QueueOrder' /\ QueueSound'
    BY <1>2 DEF OrderInv, QueueOrder, QueueSound, Over
  <1>5. JobOrder'
    BY <1>2 DEF OrderInv, JobOrder, Over
  <1>6. RowOrder'
    <2> SUFFICES ASSUME NEW f \in Events, rows'[f] # NoRow
                 PROVE  /\ Before(rows'[f], Over(f)', objects'[f].clip)
                        /\ \A i \in 1..Len(queue'[Owner[f]]) : queue'[Owner[f]][i].event = f =>
                             Before(rows'[f], queue'[Owner[f]][i].ended, queue'[Owner[f]][i].clip)
                        /\ job'[Owner[f]].at = "upsert" /\ job'[Owner[f]].msg.event = f =>
                             Before(rows'[f], job'[Owner[f]].msg.ended, job'[Owner[f]].msg.clip)
      BY DEF RowOrder
    <2>1. CASE f = msg.event
      <3>1. /\ Before(msg, Over(f), objects[f].clip)
            /\ \A i \in 1..Len(queue[s]) : queue[s][i].event = f =>
                 Before(msg, queue[s][i].ended, queue[s][i].clip)
        BY <1>2, <2>1 DEF OrderInv, JobOrder
      <3>2. \A ended, clip : Before(msg, ended, clip) => Before(rows'[f], ended, clip)
        BY <1>2, <2>1 DEF Before
      <3> QED
        BY <1>2, <1>3, <2>1, <3>1, <3>2 DEF Over
    <2>2. CASE f # msg.event
      <3>1. Owner[f] \in Servers
        BY Parameters
      <3>2. job'[Owner[f]] = job[Owner[f]] \/ job'[Owner[f]].at # "upsert"
        BY <1>2, <3>1
      <3> QED
        BY <1>2, <2>2, <3>2 DEF OrderInv, RowOrder, Over
    <2> QED
      BY <2>1, <2>2
  <1> QED
    BY <1>3, <1>4, <1>5, <1>6

LEMMA NextOrderInv ==
  ASSUME ~SharedBroker, OrderInv, [Next]_vars
  PROVE  OrderInv'
  <1>1. AttributeInv' /\ TypeOK
    BY NextAttributeInv DEF OrderInv, AttributeInv
  <1>2. ASSUME NEW e \in Events, Track(e)
        PROVE  QueueOrder' /\ QueueSound' /\ JobOrder' /\ RowOrder'
    BY <1>2, TrackOrder
  <1>3. ASSUME NEW s \in Servers, Receive(s)
        PROVE  QueueOrder' /\ QueueSound' /\ JobOrder' /\ RowOrder'
    BY <1>3, ReceiveOrder
  <1>4. ASSUME NEW s \in Servers, Upsert(s)
        PROVE  QueueOrder' /\ QueueSound' /\ JobOrder' /\ RowOrder'
    BY <1>4, UpsertOrder
  <1>5. ASSUME NEW s \in Servers,
               Resize(s) \/ GetDetectDims(s) \/ Publish(s) \/ DispatchPlugins(s)
        PROVE  QueueOrder' /\ QueueSound' /\ JobOrder' /\ RowOrder'
    BY <1>1, <1>5, QuietStep, OrderStays
  <1>6. ASSUME NEW r \in Requests, Ask(r)
        PROVE  QueueOrder' /\ QueueSound' /\ JobOrder' /\ RowOrder'
    <2>1. UNCHANGED <<objects, queue, job>>
      BY <1>1, <1>6, AskStep
    <2>2. \A e \in Events : rows'[e] # NoRow =>
            rows[e] # NoRow /\ rows'[e].ended = rows[e].ended /\ rows'[e].clip = rows[e].clip
      BY <1>1, <1>6, AskStep
    <2> QED
      BY <2>1, <2>2, OrderStays
  <1>7. CASE Crash
    <2>1. UNCHANGED <<objects, rows>> /\ \A s \in Servers : queue'[s] = <<>> /\ job'[s].at # "upsert"
      BY <1>7 DEF Crash, dbVars, Idle
    <2>2. /\ \A s \in Servers : queue'[s] = queue[s] \/ queue'[s] = <<>>
          /\ \A s \in Servers : job'[s] = job[s] \/ job'[s].at # "upsert"
      BY <2>1
    <2>3. \A e \in Events : rows'[e] # NoRow =>
            rows[e] # NoRow /\ rows'[e].ended = rows[e].ended /\ rows'[e].clip = rows[e].clip
      BY <2>1
    <2> QED
      BY <1>1, <2>1, <2>2, <2>3, OrderStays DEF OrderInv
  <1>8. CASE UNCHANGED vars
    <2>1. UNCHANGED <<objects, queue, job, rows>>
      BY <1>8 DEF vars
    <2>2. \A e \in Events : rows'[e] # NoRow =>
            rows[e] # NoRow /\ rows'[e].ended = rows[e].ended /\ rows'[e].clip = rows[e].clip
      BY <2>1
    <2> QED
      BY <1>1, <2>1, <2>2, OrderStays DEF OrderInv
  <1> QED
    BY <1>1, <1>2, <1>3, <1>4, <1>5, <1>6, <1>7, <1>8 DEF Next, Handle, OrderInv

\* Of the row of an object, no step takes back an end or a clip.
LEMMA NextEndKept ==
  ASSUME OrderInv, [Next]_vars, NEW e \in Events,
         rows[e] # NoRow, rows'[e] # NoRow
  PROVE  (rows[e].ended => rows'[e].ended) /\ (rows[e].clip => rows'[e].clip)
  <1>1. TypeOK
    BY DEF OrderInv, AttributeInv
  <1>2. ASSUME NEW s \in Servers, Upsert(s)
        PROVE  (rows[e].ended => rows'[e].ended) /\ (rows[e].clip => rows'[e].clip)
    <2>1. /\ job[s].at = "upsert"
          /\ \A f \in Events : f # job[s].msg.event => rows'[f] = rows[f]
          /\ rows'[job[s].msg.event].ended = job[s].msg.ended
          /\ rows'[job[s].msg.event].clip = job[s].msg.clip
      BY <1>1, <1>2, UpsertStep
    <2>2. Owner[job[s].msg.event] = s
      BY <1>2, UpsertOrder
    <2>3. CASE e = job[s].msg.event
      <3>1. Before(rows[e], job[s].msg.ended, job[s].msg.clip)
        BY <2>1, <2>2, <2>3 DEF OrderInv, RowOrder
      <3> QED
        BY <2>1, <2>3, <3>1 DEF Before
    <2> QED
      BY <2>1, <2>3
  <1>3. ASSUME NEW r \in Requests, Ask(r)
        PROVE  (rows[e].ended => rows'[e].ended) /\ (rows[e].clip => rows'[e].clip)
    BY <1>1, <1>3, AskStep
  <1>4. ASSUME NEW f \in Events, Track(f)
        PROVE  UNCHANGED rows
    BY <1>4 DEF Track, dbVars
  <1>5. ASSUME NEW s \in Servers, Receive(s)
        PROVE  UNCHANGED rows
    BY <1>5 DEF Receive, dbVars
  <1>6. ASSUME NEW s \in Servers,
               Resize(s) \/ GetDetectDims(s) \/ Publish(s) \/ DispatchPlugins(s)
        PROVE  UNCHANGED rows
    BY <1>1, <1>6, QuietStep
  <1>7. CASE Crash
    BY <1>7 DEF Crash, dbVars
  <1>8. CASE UNCHANGED vars
    BY <1>8 DEF vars
  <1> QED
    BY <1>2, <1>3, <1>4, <1>5, <1>6, <1>7, <1>8 DEF Next, Handle

(* An end_time or a clip once stored stays while the row does, whatever is *)
(* lost, fails, crashes or is asked for meanwhile, when every Frigate has  *)
(* a broker of its own: the task of that broker applies the messages of an *)
(* object in the order of Frigate, each one to its end before the next.    *)
THEOREM EndIsKept == ASSUME ~SharedBroker PROVE Spec => EndKept
  <1>1. OrderInv /\ [Next]_vars => OrderInv'
    BY NextOrderInv
  <1>2. OrderInv /\ [Next]_vars =>
          [\A e \in Events :
             rows[e] # NoRow /\ rows'[e] # NoRow /\ rows'[e].id = rows[e].id =>
               (rows[e].ended => rows'[e].ended) /\ (rows[e].clip => rows'[e].clip)]_vars
    BY NextEndKept
  <1> QED
    BY <1>1, <1>2, InitOrderInv, PTL DEF Spec, EndKept

-----------------------------------------------------------------------------
(* A protected row is kept.                                                *)

\* A delete under way has read a row that is not protected.
DeleteInv ==
  /\ TypeOK
  /\ \A r \in Requests :
       request[r].at = "commit" /\ request[r].op = "delete" =>
         ~request[r].row.protected /\ (StillThere(request[r]) => ~rows[request[r].event].protected)

LEMMA InitDeleteInv == Init => DeleteInv
  BY InitType DEF Init, DeleteInv, Idle

\* The row of an object comes, is updated and goes by these steps alone.
LEMMA RowSteps ==
  ASSUME TypeOK, [Next]_vars
  PROVE  \/ UNCHANGED rows
         \/ \E s \in Servers : Upsert(s)
         \/ \E r \in Requests : Ask(r)
  <1>1. ASSUME NEW e \in Events, Track(e)
        PROVE  UNCHANGED rows
    BY <1>1 DEF Track, dbVars
  <1>2. ASSUME NEW s \in Servers, Handle(s), ~Upsert(s)
        PROVE  UNCHANGED rows
    BY <1>2 DEF Handle, Receive, GetDetectDims, Publish, DispatchPlugins, dbVars
  <1>3. ASSUME NEW s \in Servers, Resize(s)
        PROVE  UNCHANGED rows
    BY <1>3 DEF Resize, dbVars
  <1>4. CASE Crash
    BY <1>4 DEF Crash, dbVars
  <1>5. CASE UNCHANGED vars
    BY <1>5 DEF vars
  <1> QED
    BY <1>1, <1>2, <1>3, <1>4, <1>5 DEF Next

\* An upsert writes no request, and protects and unprotects no row.
LEMMA UpsertProtection ==
  ASSUME TypeOK, NEW s \in Servers, Upsert(s), NEW e \in Events
  PROVE  /\ UNCHANGED request
         /\ rows[e] # NoRow => rows'[e] # NoRow /\ rows'[e].protected = rows[e].protected
         /\ rows[e] = NoRow /\ rows'[e] # NoRow => ~rows'[e].protected
  <1>1. /\ job[s].msg.event \in Events
        /\ \A f \in Events : f # job[s].msg.event => rows'[f] = rows[f]
        /\ LET new == rows'[job[s].msg.event]  old == rows[job[s].msg.event] IN
             new \in Rows /\ new.protected = IF old = NoRow THEN FALSE ELSE old.protected
    BY UpsertStep
  <1>2. UNCHANGED request
    BY DEF Upsert
  <1> QED
    BY <1>1, <1>2, Parameters

LEMMA NextDeleteInv ==
  ASSUME \A q, r \in Requests : q = r, DeleteInv, [Next]_vars
  PROVE  DeleteInv'
  <1>1. TypeOK /\ TypeOK'
    BY NextType DEF DeleteInv
  <1>2. ASSUME UNCHANGED <<rows, request>>
        PROVE  DeleteInv'
    BY <1>1, <1>2 DEF DeleteInv, StillThere
  <1>3. ASSUME NEW s \in Servers, Upsert(s)
        PROVE  DeleteInv'
    <2> SUFFICES ASSUME NEW r \in Requests, request[r].at = "commit", request[r].op = "delete",
                        StillThere(request[r])'
                 PROVE  ~rows'[request[r].event].protected
      BY <1>1, <1>3, UpsertProtection DEF DeleteInv, Upsert
    <2>1. request'[r] = request[r] /\ request[r].event \in Events
      BY <1>1, <1>3, AskedType DEF Upsert
    <2> DEFINE e == request[r].event
    <2>2. CASE rows[e] = NoRow
      BY <1>1, <1>3, <2>1, <2>2, UpsertProtection DEF StillThere
    <2>3. CASE rows[e] # NoRow
      <3>1. rows'[e].id = rows[e].id
        <4>1. rows' = [rows EXCEPT ![job[s].msg.event] = Stored(s, job[s].msg)]
          BY <1>3 DEF Upsert
        <4>2. job[s].msg \in Messages /\ job[s].msg.event \in Events
          BY <1>1, <1>3, UpsertStep
        <4>3. rows[job[s].msg.event] # NoRow =>
                Stored(s, job[s].msg).id = rows[job[s].msg.event].id
          BY <1>1, <4>2, StoredType DEF TypeOK
        <4> QED
          BY <1>1, <2>1, <2>3, <4>1, <4>2, <4>3 DEF TypeOK
      <3>2. StillThere(request[r])
        BY <2>1, <2>3, <3>1 DEF StillThere
      <3>3. ~rows[e].protected
        BY <3>2 DEF DeleteInv
      <3> QED
        BY <1>1, <1>3, <2>1, <2>3, <3>3, UpsertProtection
    <2> QED
      BY <2>2, <2>3
  <1>4. ASSUME NEW r \in Requests, NEW op \in Operations, NEW e \in Events, Load(r, op, e)
        PROVE  DeleteInv'
    <2>1. request' = [request EXCEPT ![r] =
                        [at |-> "commit", op |-> op, event |-> e, row |-> rows[e]]]
      BY <1>4 DEF Load
    <2>2. /\ request'[r].op = op /\ request'[r].event = e /\ request'[r].row = rows[e]
          /\ \A q \in Requests : q # r => request'[q] = request[q]
      BY <1>1, <2>1 DEF TypeOK
    <2>3. UNCHANGED rows /\ (op = "delete" => ~rows[e].protected)
      BY <1>4 DEF Load, dbVars
    <2> QED
      BY <1>1, <2>2, <2>3 DEF DeleteInv, StillThere
  <1>5. ASSUME NEW r \in Requests, CommitDelete(r) \/ CommitProtection(r)
        PROVE  DeleteInv'
    <2>1. request'[r].at = "idle"
      BY <1>1, <1>5 DEF CommitDelete, CommitProtection, TypeOK, Idle
    <2>2. \A q \in Requests : q = r
      OBVIOUS
    <2> QED
      BY <1>1, <2>1, <2>2 DEF DeleteInv
  <1>6. CASE Crash
    BY <1>1, <1>6 DEF Crash, DeleteInv, Idle
  <1>7. ASSUME NEW e \in Events, Track(e)
        PROVE  DeleteInv'
    BY <1>2, <1>7 DEF Track, dbVars
  <1>8. ASSUME NEW s \in Servers,
               Resize(s) \/ Receive(s) \/ GetDetectDims(s) \/ Publish(s) \/ DispatchPlugins(s)
        PROVE  DeleteInv'
    BY <1>2, <1>8 DEF Resize, Receive, GetDetectDims, Publish, DispatchPlugins, dbVars
  <1>9. CASE UNCHANGED vars
    BY <1>2, <1>9 DEF vars
  <1> QED
    BY <1>3, <1>4, <1>5, <1>6, <1>7, <1>8, <1>9 DEF Next, Handle, Ask

\* What a step does to a protected row.
LEMMA NextProtectedKept ==
  ASSUME DeleteInv, [Next]_vars, NEW e \in Events, rows[e] # NoRow, rows[e].protected
  PROVE  \/ rows'[e] # NoRow /\ rows'[e].protected
         \/ rows'[e] # NoRow /\ \E r \in Requests :
              request[r].at = "commit" /\ request[r].op = "unprotect" /\ request'[r] = Idle
  <1>1. TypeOK
    BY DEF DeleteInv
  <1>2. CASE UNCHANGED rows
    BY <1>2
  <1>3. ASSUME NEW s \in Servers, Upsert(s)
        PROVE  rows'[e] # NoRow /\ rows'[e].protected
    BY <1>1, <1>3, UpsertProtection
  <1>4. ASSUME NEW r \in Requests, Ask(r)
        PROVE  \/ rows'[e] # NoRow /\ rows'[e].protected
               \/ /\ rows'[e] # NoRow
                  /\ request[r].at = "commit" /\ request[r].op = "unprotect" /\ request'[r] = Idle
    <2>1. CASE rows'[e] = rows[e]
      BY <2>1
    <2>2. CASE CommitDelete(r) /\ request[r].event = e /\ StillThere(request[r])
      <3>1. ~rows[e].protected
        BY <2>2 DEF DeleteInv, CommitDelete
      <3> QED
        BY <3>1
    <2>3. CASE /\ rows'[e] # NoRow /\ CommitProtection(r)
               /\ rows'[e].protected = (request[r].op = "protect")
      <3>1. request[r].at = "commit" /\ request'[r] = Idle
        BY <1>1, <2>3 DEF CommitProtection, TypeOK
      <3>2. request[r].op \in {"protect", "unprotect"}
        BY <1>1, <2>3, <3>1 DEF CommitProtection, TypeOK, Asked, Idle
      <3> QED
        BY <2>3, <3>1, <3>2
    <2> QED
      BY <1>1, <1>4, <2>1, <2>2, <2>3, AskStep
  <1> QED
    BY <1>1, <1>2, <1>3, <1>4, RowSteps

(* While the event routes are called one at a time, a protected row is     *)
(* deleted by nobody and unprotected only on request: the upsert of a      *)
(* message leaves is_protected alone, and a delete has read the row it     *)
(* removes.  (Two calls at once break it: the delete has read the row      *)
(* before the other call protects it.)                                     *)
THEOREM ProtectedIsKept == ASSUME \A q, r \in Requests : q = r PROVE Spec => ProtectedKept
  <1>1. DeleteInv /\ [Next]_vars => DeleteInv'
    BY NextDeleteInv
  <1>2. DeleteInv /\ [Next]_vars =>
          [\A e \in Events :
             rows[e] # NoRow /\ rows[e].protected =>
               \/ rows'[e] # NoRow /\ rows'[e].protected
               \/ rows'[e] # NoRow /\ \E r \in Requests :
                    request[r].at = "commit" /\ request[r].op = "unprotect" /\ request'[r] = Idle]_vars
    BY NextProtectedKept
  <1> QED
    BY <1>1, <1>2, InitDeleteInv, PTL DEF Spec, ProtectedKept

-----------------------------------------------------------------------------
(* When the handlers have caught up, the rows agree with Frigate.          *)

Agrees(m, e) == m.ended = Over(e) /\ m.clip = objects[e].clip
Waits(s, e)  == \E i \in 1..Len(queue[s]) : queue[s][i].event = e
Holds(s, e)  == job[s].at = "upsert" /\ job[s].msg.event = e

\* The last message a task has not read of an object says what Frigate knows.
LatestQueued ==
  \A s \in Servers : \A i \in 1..Len(queue[s]) : \A e \in Events : queue[s][i].event = e =>
    /\ s \in Hearers(e)
    /\ queue[s][i].shot => objects[e].shot
    /\ (\A j \in 1..Len(queue[s]) : i < j => queue[s][j].event # e) =>
         Agrees(queue[s][i], e) /\ queue[s][i].shot = objects[e].shot

\* So does the message a task handles, when nothing more of the object waits.
LatestHeld ==
  \A s \in Servers : \A e \in Events : Holds(s, e) =>
    /\ s \in Hearers(e) /\ objects[e].shot
    /\ ~Waits(s, e) => Agrees(job[s].msg, e)

\* And so does the row, when nothing of the object is left to be handled.
LatestStored ==
  \A e \in Events : rows[e] # NoRow =>
    /\ objects[e].shot
    /\ (\A s \in Servers : ~Waits(s, e) /\ ~Holds(s, e)) => Agrees(rows[e], e)

LatestInv == TypeOK /\ LatestQueued /\ LatestHeld /\ LatestStored

LEMMA InitLatestInv == Init => LatestInv
  <1> SUFFICES ASSUME Init PROVE LatestInv
    OBVIOUS
  <1>1. \A s \in Servers : Len(queue[s]) = 0 /\ job[s].at = "idle"
    BY DEF Init, Idle
  <1>2. \A e \in Events : rows[e] = NoRow
    BY DEF Init
  <1> QED
    BY <1>1, <1>2, InitType DEF LatestInv, LatestQueued, LatestHeld, LatestStored, Holds

\* The task of the server that owns an object hears of it.
LEMMA OwnerHears == \A e \in Events : Owner[e] \in Servers /\ Owner[e] \in Hearers(e)
  BY Parameters DEF Hearers

LEMMA TrackLatest ==
  ASSUME "lost" \notin Faults, LatestInv, NEW e \in Events, Track(e)
  PROVE  LatestQueued' /\ LatestHeld' /\ LatestStored'
  <1>1. TypeOK
    BY DEF LatestInv
  <1>2. PICK msg \in Messages :
          /\ msg.event = e /\ msg.ended = (objects'[e].phase = "ended")
          /\ msg.clip = objects'[e].clip /\ msg.shot = objects'[e].shot
          /\ Send(msg)
    BY <1>1, TrackStep, Zenon
  <1>3. /\ UNCHANGED <<job, rows>> /\ (objects[e].shot => objects'[e].shot)
        /\ \A f \in Events : f # e => objects'[f] = objects[f]
    BY <1>1, TrackStep
  <1>4. \A s \in Servers :
          /\ Len(queue[s]) \in Nat
          /\ IF s \in Hearers(e)
             THEN /\ Len(queue'[s]) = Len(queue[s]) + 1
                  /\ queue'[s][Len(queue[s]) + 1] = msg
                  /\ \A i \in 1..Len(queue[s]) : queue'[s][i] = queue[s][i]
             ELSE queue'[s] = queue[s]
    BY <1>1, <1>2, SendStep
  <1>5. ASSUME NEW s \in Servers, s \in Hearers(e)
        PROVE  Waits(s, e)'
    BY <1>2, <1>4, <1>5 DEF Waits
  <1>6. ASSUME NEW s \in Servers, NEW f \in Events, ~Waits(s, f)'
        PROVE  ~Waits(s, f)
    BY <1>4, <1>6 DEF Waits
  <1>7. \A f \in Events : f # e => Over(f)' = Over(f) /\ objects'[f] = objects[f]
    BY <1>3 DEF Over
  <1>8. LatestQueued'
    <2> SUFFICES ASSUME NEW s \in Servers, NEW i \in 1..Len(queue'[s]), NEW f \in Events,
                        queue'[s][i].event = f
                 PROVE  /\ s \in Hearers(f)
                        /\ queue'[s][i].shot => objects'[f].shot
                        /\ (\A j \in 1..Len(queue'[s]) : i < j => queue'[s][j].event # f) =>
                             Agrees(queue[s][i], f)' /\ queue'[s][i].shot = objects'[f].shot
      BY DEF LatestQueued, Hearers
    <2>1. CASE s \in Hearers(e) /\ i = Len(queue[s]) + 1
      BY <1>2, <1>4, <2>1 DEF Agrees, Over
    <2>2. CASE i \in 1..Len(queue[s]) /\ queue'[s][i] = queue[s][i]
      <3>1. s \in Hearers(f) /\ (queue[s][i].shot => objects[f].shot)
        BY <2>2 DEF LatestInv, LatestQueued
      <3>2. CASE f = e
        <4>1. Len(queue[s]) + 1 \in 1..Len(queue'[s]) /\ queue'[s][Len(queue[s]) + 1].event = f
          BY <1>2, <1>4, <3>1, <3>2
        <4>2. i < Len(queue[s]) + 1
          BY <1>4, <2>2
        <4> QED
          BY <1>3, <2>2, <3>1, <3>2, <4>1, <4>2
      <3>3. CASE f # e
        <4>1. ASSUME \A j \in 1..Len(queue'[s]) : i < j => queue'[s][j].event # f
              PROVE  \A j \in 1..Len(queue[s]) : i < j => queue[s][j].event # f
          BY <1>4, <4>1
        <4> QED
          BY <1>7, <2>2, <3>1, <3>3, <4>1 DEF LatestInv, LatestQueued, Agrees
      <3> QED
        BY <3>2, <3>3
    <2> QED
      BY <1>4, <2>1, <2>2
  <1>9. LatestHeld'
    <2> SUFFICES ASSUME NEW s \in Servers, NEW f \in Events, Holds(s, f)'
                 PROVE  /\ s \in Hearers(f) /\ objects'[f].shot
                        /\ ~Waits(s, f)' => Agrees(job[s].msg, f)'
      BY DEF LatestHeld, Hearers
    <2>1. Holds(s, f)
      BY <1>3 DEF Holds
    <2>2. /\ s \in Hearers(f) /\ objects[f].shot
          /\ ~Waits(s, f) => Agrees(job[s].msg, f)
      BY <2>1 DEF LatestInv, LatestHeld
    <2>3. CASE f = e
      BY <1>3, <1>5, <2>2, <2>3
    <2>4. CASE f # e
      BY <1>3, <1>6, <1>7, <2>2, <2>4 DEF Agrees
    <2> QED
      BY <2>3, <2>4
  <1>10. LatestStored'
    <2> SUFFICES ASSUME NEW f \in Events, rows'[f] # NoRow
                 PROVE  /\ objects'[f].shot
                        /\ (\A s \in Servers : ~Waits(s, f)' /\ ~Holds(s, f)') =>
                             Agrees(rows[f], f)'
      BY DEF LatestStored
    <2>1. /\ objects[f].shot
          /\ (\A s \in Servers : ~Waits(s, f) /\ ~Holds(s, f)) => Agrees(rows[f], f)
      BY <1>3 DEF LatestInv, LatestStored
    <2>2. CASE f = e
      BY <1>3, <1>5, <2>1, <2>2, OwnerHears
    <2>3. CASE f # e
      <3>1. \A s \in Servers : Holds(s, f)' <=> Holds(s, f)
        BY <1>3 DEF Holds
      <3> QED
        BY <1>3, <1>6, <1>7, <2>1, <2>3, <3>1 DEF Agrees
    <2> QED
      BY <2>2, <2>3
  <1> QED
    BY <1>8, <1>9, <1>10

LEMMA ReceiveLatest ==
  ASSUME LatestInv, NEW s \in Servers, Receive(s)
  PROVE  LatestQueued' /\ LatestHeld' /\ LatestStored'
  <1>1. TypeOK
    BY DEF LatestInv
  <1>2. /\ UNCHANGED <<objects, rows>>
        /\ \A u \in Servers : u # s => queue'[u] = queue[u] /\ job'[u] = job[u]
        /\ Len(queue[s]) \in Nat /\ Len(queue[s]) > 0
        /\ Len(queue'[s]) = Len(queue[s]) - 1
        /\ \A i \in 1..Len(queue'[s]) : i + 1 \in 1..Len(queue[s]) /\ queue'[s][i] = queue[s][i + 1]
        /\ job[s].at = "idle"
        /\ IF queue[s][1].shot THEN job'[s].at = "upsert" /\ job'[s].msg = queue[s][1]
                               ELSE job'[s].at = "idle"
    BY <1>1, ReceiveStep DEF Idle
  <1>3. \A m, e : Agrees(m, e)' <=> m.ended = Over(e) /\ m.clip = objects[e].clip
    BY <1>2 DEF Agrees, Over
  \* What waits and is not the first message waits still.
  <1>4. \A j \in 1..Len(queue[s]) : j # 1 =>
          j - 1 \in 1..Len(queue'[s]) /\ queue'[s][j - 1] = queue[s][j]
    BY <1>2
  <1>5. LatestQueued'
    <2> SUFFICES ASSUME NEW u \in Servers, NEW i \in 1..Len(queue'[u]), NEW f \in Events,
                        queue'[u][i].event = f
                 PROVE  /\ u \in Hearers(f)
                        /\ queue'[u][i].shot => objects'[f].shot
                        /\ (\A j \in 1..Len(queue'[u]) : i < j => queue'[u][j].event # f) =>
                             Agrees(queue[u][i], f)' /\ queue'[u][i].shot = objects'[f].shot
      BY DEF LatestQueued, Hearers
    <2>1. CASE u = s
      <3>1. i + 1 \in 1..Len(queue[s]) /\ queue'[s][i] = queue[s][i + 1]
        BY <1>2, <2>1
      <3>2. ASSUME \A j \in 1..Len(queue'[s]) : i < j => queue'[s][j].event # f
            PROVE  \A j \in 1..Len(queue[s]) : i + 1 < j => queue[s][j].event # f
        <4> SUFFICES ASSUME NEW j \in 1..Len(queue[s]), i + 1 < j
                     PROVE  queue[s][j].event # f
          OBVIOUS
        <4>1. j # 1 /\ i < j - 1
          BY <2>1
        <4> QED
          BY <1>4, <3>2, <4>1
      <3>3. /\ s \in Hearers(f)
            /\ queue[s][i + 1].shot => objects[f].shot
            /\ (\A j \in 1..Len(queue[s]) : i + 1 < j => queue[s][j].event # f) =>
                 Agrees(queue[s][i + 1], f) /\ queue[s][i + 1].shot = objects[f].shot
        BY <2>1, <3>1 DEF LatestInv, LatestQueued
      <3> QED
        BY <1>2, <2>1, <3>1, <3>2, <3>3 DEF Agrees, Over
    <2>2. CASE u # s
      BY <1>2, <1>3, <2>2 DEF LatestInv, LatestQueued, Agrees
    <2> QED
      BY <2>1, <2>2
  <1>6. LatestHeld'
    <2> SUFFICES ASSUME NEW u \in Servers, NEW f \in Events, Holds(u, f)'
                 PROVE  /\ u \in Hearers(f) /\ objects'[f].shot
                        /\ ~Waits(u, f)' => Agrees(job[u].msg, f)'
      BY DEF LatestHeld, Hearers
    <2>1. CASE u = s
      <3>1. /\ queue[s][1].shot /\ job'[s].msg = queue[s][1] /\ queue[s][1].event = f
            /\ 1 \in 1..Len(queue[s])
        BY <1>2, <2>1 DEF Holds
      <3>2. ASSUME ~Waits(s, f)'
            PROVE  \A j \in 1..Len(queue[s]) : 1 < j => queue[s][j].event # f
        BY <1>4, <3>2 DEF Waits
      <3> QED
        BY <1>2, <1>3, <2>1, <3>1, <3>2 DEF LatestInv, LatestQueued, Agrees
    <2>2. CASE u # s
      <3>1. Holds(u, f) /\ (Waits(u, f)' <=> Waits(u, f))
        BY <1>2, <2>2 DEF Holds, Waits
      <3> QED
        BY <1>2, <1>3, <2>2, <3>1 DEF LatestInv, LatestHeld, Agrees
    <2> QED
      BY <2>1, <2>2
  <1>7. LatestStored'
    <2> SUFFICES ASSUME NEW f \in Events, rows'[f] # NoRow
                 PROVE  /\ objects'[f].shot
                        /\ (\A u \in Servers : ~Waits(u, f)' /\ ~Holds(u, f)') =>
                             Agrees(rows[f], f)'
      BY DEF LatestStored
    <2>1. /\ objects[f].shot
          /\ (\A u \in Servers : ~Waits(u, f) /\ ~Holds(u, f)) => Agrees(rows[f], f)
      BY <1>2 DEF LatestInv, LatestStored
    <2>2. ASSUME \A u \in Servers : ~Waits(u, f)' /\ ~Holds(u, f)', NEW u \in Servers
          PROVE  ~Waits(u, f) /\ ~Holds(u, f)
      <3>1. CASE u # s
        BY <1>2, <2>2, <3>1 DEF Holds, Waits
      <3>2. ~Holds(s, f)
        BY <1>2 DEF Holds
      <3>3. ASSUME Waits(s, f)
            PROVE  FALSE
        <4>1. \A j \in 1..Len(queue[s]) : 1 < j => queue[s][j].event # f
          BY <1>4, <2>2 DEF Waits
        <4>2. 1 \in 1..Len(queue[s]) /\ queue[s][1].event = f
          BY <1>2, <3>3, <4>1 DEF Waits
        <4>3. queue[s][1].shot = objects[f].shot
          BY <4>1, <4>2 DEF LatestInv, LatestQueued
        <4>4. Holds(s, f)'
          BY <1>2, <2>1, <4>2, <4>3 DEF Holds
        <4> QED
          BY <2>2, <4>4
      <3> QED
        BY <3>1, <3>2, <3>3
    <2> QED
      BY <1>2, <1>3, <2>1, <2>2 DEF Agrees
  <1> QED
    BY <1>5, <1>6, <1>7

LEMMA UpsertLatest ==
  ASSUME LatestInv, NEW s \in Servers, Upsert(s)
  PROVE  LatestQueued' /\ LatestHeld' /\ LatestStored'
  <1> DEFINE msg == job[s].msg
  <1>1. /\ UNCHANGED <<objects, queue>>
        /\ job[s].at = "upsert" /\ job'[s].at = "dims"
        /\ \A u \in Servers : u # s => job'[u] = job[u]
        /\ msg.event \in Events
        /\ \A e \in Events : e # msg.event => rows'[e] = rows[e]
        /\ rows'[msg.event].ended = msg.ended /\ rows'[msg.event].clip = msg.clip
    BY UpsertStep DEF LatestInv
  <1>2. LatestQueued'
    BY <1>1 DEF LatestInv, LatestQueued, Agrees, Over
  <1>3. \A u \in Servers : \A f \in Events :
          /\ Waits(u, f)' <=> Waits(u, f)
          /\ Holds(u, f)' <=> Holds(u, f) /\ u # s
          /\ Holds(s, f) <=> f = msg.event
    BY <1>1 DEF Waits, Holds
  <1>4. LatestHeld'
    BY <1>1, <1>3 DEF LatestInv, LatestHeld, Agrees, Over
  <1>5. LatestStored'
    <2> SUFFICES ASSUME NEW f \in Events, rows'[f] # NoRow
                 PROVE  /\ objects'[f].shot
                        /\ (\A u \in Servers : ~Waits(u, f)' /\ ~Holds(u, f)') =>
                             Agrees(rows[f], f)'
      BY DEF LatestStored
    <2>1. CASE f = msg.event
      <3>1. objects[f].shot /\ (~Waits(s, f) => Agrees(msg, f))
        BY <1>3, <2>1 DEF LatestInv, LatestHeld
      <3> QED
        BY <1>1, <1>3, <2>1, <3>1 DEF Agrees, Over
    <2>2. CASE f # msg.event
      <3>1. /\ objects[f].shot
            /\ (\A u \in Servers : ~Waits(u, f) /\ ~Holds(u, f)) => Agrees(rows[f], f)
        BY <1>1, <2>2 DEF LatestInv, LatestStored
      <3>2. \A u \in Servers : Holds(u, f)' <=> Holds(u, f)
        BY <1>3, <2>2
      <3> QED
        BY <1>1, <1>3, <2>2, <3>1, <3>2 DEF Agrees, Over
    <2> QED
      BY <2>1, <2>2
  <1> QED
    BY <1>2, <1>4, <1>5

\* Steps that leave Frigate, the queues and the messages to store alone.
LEMMA LatestStays ==
  ASSUME LatestInv, UNCHANGED <<objects, queue>>,
         \A s \in Servers : job'[s] = job[s] \/ (job[s].at # "upsert" /\ job'[s].at # "upsert"),
         \A e \in Events : rows'[e] # NoRow =>
           rows[e] # NoRow /\ rows'[e].ended = rows[e].ended /\ rows'[e].clip = rows[e].clip
  PROVE  LatestQueued' /\ LatestHeld' /\ LatestStored'
  <1>1. LatestQueued'
    BY DEF LatestInv, LatestQueued, Agrees, Over
  <1>2. \A s \in Servers : \A e \in Events :
          (Waits(s, e)' <=> Waits(s, e)) /\ (Holds(s, e)' <=> Holds(s, e))
    BY DEF Waits, Holds
  <1>3. LatestHeld'
    BY <1>2 DEF LatestInv, LatestHeld, Agrees, Over, Holds
  <1>4. LatestStored'
    BY <1>2 DEF LatestInv, LatestStored, Agrees, Over
  <1> QED
    BY <1>1, <1>3, <1>4

LEMMA NextLatestInv ==
  ASSUME "lost" \notin Faults, "crash" \notin Faults, LatestInv, [Next]_vars
  PROVE  LatestInv'
  <1>1. TypeOK /\ TypeOK'
    BY NextType DEF LatestInv
  <1>2. ASSUME NEW e \in Events, Track(e)
        PROVE  LatestInv'
    BY <1>1, <1>2, TrackLatest DEF LatestInv
  <1>3. ASSUME NEW s \in Servers, Receive(s)
        PROVE  LatestInv'
    BY <1>1, <1>3, ReceiveLatest DEF LatestInv
  <1>4. ASSUME NEW s \in Servers, Upsert(s)
        PROVE  LatestInv'
    BY <1>1, <1>4, UpsertLatest DEF LatestInv
  <1>5. ASSUME NEW s \in Servers,
               Resize(s) \/ GetDetectDims(s) \/ Publish(s) \/ DispatchPlugins(s)
        PROVE  LatestInv'
    <2>1. /\ UNCHANGED <<objects, queue, rows>>
          /\ \A u \in Servers : job'[u] = job[u] \/ (job[u].at # "upsert" /\ job'[u].at # "upsert")
      BY <1>1, <1>5, QuietStep
    <2>2. \A e \in Events : rows'[e] # NoRow =>
            rows[e] # NoRow /\ rows'[e].ended = rows[e].ended /\ rows'[e].clip = rows[e].clip
      BY <2>1
    <2> QED
      BY <1>1, <2>1, <2>2, LatestStays DEF LatestInv
  <1>6. ASSUME NEW r \in Requests, Ask(r)
        PROVE  LatestInv'
    <2>1. UNCHANGED <<objects, queue, job>>
      BY <1>1, <1>6, AskStep
    <2>2. \A e \in Events : rows'[e] # NoRow =>
            rows[e] # NoRow /\ rows'[e].ended = rows[e].ended /\ rows'[e].clip = rows[e].clip
      BY <1>1, <1>6, AskStep
    <2> QED
      BY <1>1, <2>1, <2>2, LatestStays DEF LatestInv
  <1>7. ~Crash
    BY DEF Crash
  <1>8. CASE UNCHANGED vars
    <2>1. UNCHANGED <<objects, queue, job, rows>>
      BY <1>8 DEF vars
    <2>2. \A e \in Events : rows'[e] # NoRow =>
            rows[e] # NoRow /\ rows'[e].ended = rows[e].ended /\ rows'[e].clip = rows[e].clip
      BY <2>1
    <2> QED
      BY <1>1, <2>1, <2>2, LatestStays DEF LatestInv
  <1> QED
    BY <1>2, <1>3, <1>4, <1>5, <1>6, <1>7, <1>8 DEF Next, Handle

(* When no message is lost and the backend does not stop, every row agrees *)
(* with Frigate as soon as the tasks have nothing left to handle, also     *)
(* when several tasks read one broker and store each other's messages late *)
(* (the upsert of _handle_event writes what its message says; an object    *)
(* once stored has a snapshot, so none of its later messages is skipped).  *)
THEOREM RowsCatchUp ==
  ASSUME "lost" \notin Faults, "crash" \notin Faults PROVE Spec => []CaughtUp
  <1>1. LatestInv => CaughtUp
    <2> SUFFICES ASSUME LatestInv, \A s \in Servers : queue[s] = <<>> /\ job[s] = Idle,
                        NEW e \in Events, rows[e] # NoRow
                 PROVE  Agrees(rows[e], e)
      BY DEF CaughtUp, Agrees, Over
    <2>1. ASSUME NEW s \in Servers
          PROVE  ~Waits(s, e) /\ ~Holds(s, e)
      <3>1. Len(queue[s]) = 0 /\ job[s].at = "idle"
        BY DEF Idle
      <3> QED
        BY <3>1 DEF Waits, Holds
    <2> QED
      BY <2>1 DEF LatestInv, LatestStored
  <1>2. LatestInv /\ [Next]_vars => LatestInv'
    BY NextLatestInv
  <1> QED
    BY <1>1, <1>2, InitLatestInv, PTL DEF Spec
=============================================================================
