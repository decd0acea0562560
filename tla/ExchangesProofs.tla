--------------------------- MODULE ExchangesProofs ---------------------------
(***************************************************************************)
(* Theorems about AuthSession, for any number of tabs, calls and seconds,  *)
(* and about the exports of Exchanges, for any number of restarts and of   *)
(* exports one after the other.                                            *)
(***************************************************************************)
EXTENDS Exchanges, TLAPS, FiniteSetTheorems

OneRefresh == \A t, u \in Refreshing : t = u

\* What a refresh under way stands for, by the await it is at: only between
\* the revocation of one token and the next does the browser keep none that
\* the server accepts, and no answer is a refusal.
Awaits(f) ==
  /\ f.at \in {"check", "revoke"} => f.token = refresh /\ refresh \in valid
  /\ f.at = "answer" => f.token \in valid
  /\ f.at # "refused"

Kept ==
  /\ clock \in Tokens /\ refresh \in Tokens /\ valid \subseteq Tokens
  /\ flight \in [Tabs -> Flights]
  /\ out = [t \in Tabs |-> None]
  /\ OneRefresh
  /\ Refreshing = {} => refresh \in valid
  /\ \A t \in Tabs : Awaits(flight[t])

IInv == ~disturbed => Kept

LEMMA InitIInv == Init => IInv
  <1> SUFFICES ASSUME Init PROVE Kept
    BY DEF IInv
  <1>1. \A t \in Tabs : flight[t] = None
    BY DEF Init
  <1> QED
    BY <1>1, Parameters DEF Init, Kept, Tokens, Flights, OneRefresh, Refreshing, Awaits, None

\* Steps of the server's and the browser's that no refresh is about.
LEMMA StillKept ==
  ASSUME Kept, UNCHANGED <<valid, refresh, flight, out>>, clock' \in Tokens
  PROVE  Kept'
  BY DEF Kept, OneRefresh, Refreshing, Awaits

\* The refresh of one tab, while no other one is under way.
LEMMA OnlyRefresh ==
  ASSUME Kept, OneRefresh', NEW t \in Tabs, NEW f \in Flights,
         flight[t] # None \/ f # None,
         flight' = [flight EXCEPT ![t] = f],
         UNCHANGED <<clock, out>>, refresh' \in Tokens, valid' \subseteq Tokens,
         Awaits(f)', f = None => (refresh \in valid)'
  PROVE  Kept'
  <1>1. flight' \in [Tabs -> Flights] /\ flight'[t] = f
    BY DEF Kept
  <1>2. ASSUME NEW u \in Tabs, u # t
        PROVE  flight'[u] = None
    <2>1. flight'[u] = flight[u]
      BY <1>2 DEF Kept
    <2>2. flight[u] # None => flight[t] = None /\ f = None
      BY <1>1, <1>2, <2>1 DEF Kept, OneRefresh, Refreshing
    <2> QED
      BY <2>1, <2>2
  <1>3. \A u \in Tabs : Awaits(flight[u])'
    BY <1>1, <1>2 DEF Awaits, None
  <1>4. Refreshing' = {} => (refresh \in valid)'
    BY <1>1 DEF Refreshing
  <1> QED
    BY <1>1, <1>3, <1>4 DEF Kept

\* The first 401 of a tab starts a refresh with the token that is kept.
LEMMA DeniedKept ==
  ASSUME Kept, OneRefresh', NEW t \in Tabs, NEW k \in Calls, Denied(t, k)
  PROVE  Kept'
  <1>1. refresh \in Tokens /\ refresh # NoToken
    BY Parameters DEF Kept, Tokens
  <1>2. /\ flight' = [flight EXCEPT ![t] =
             IF @ = None THEN [at |-> "check", token |-> refresh] ELSE @]
        /\ UNCHANGED <<clock, valid, refresh, out>>
    BY <1>1 DEF Denied, browserVars
  <1>3. CASE flight[t] # None
    <2>1. flight' = flight
      BY <1>2, <1>3 DEF Kept
    <2>2. clock' \in Tokens
      BY <1>2 DEF Kept
    <2> QED
      BY <1>2, <2>1, <2>2, StillKept
  <1>4. CASE flight[t] = None
    <2>1. PICK f \in Flights :
            f = [at |-> "check", token |-> refresh] /\ flight' = [flight EXCEPT ![t] = f]
      <3>1. flight' = [flight EXCEPT ![t] = [at |-> "check", token |-> refresh]]
        BY <1>2, <1>4
      <3> QED
        BY <1>1, <3>1 DEF Flights
    <2>2. f # None
      BY <2>1 DEF None
    <2>3. \A u \in Tabs : flight[u] = None
      BY <1>4, <2>1, <2>2 DEF Kept, OneRefresh, Refreshing
    <2>4. refresh \in valid
      BY <2>3 DEF Kept, Refreshing
    <2>5. Awaits(f)'
      BY <1>2, <2>1, <2>4 DEF Awaits
    <2> QED
      BY <1>2, <2>1, <2>2, <2>5, OnlyRefresh DEF Kept
  <1> QED
    BY <1>3, <1>4

\* The server accepts the token it is sent, revokes it and mints another
\* one, which the browser keeps.
LEMMA RefreshKept ==
  ASSUME Kept, OneRefresh', NEW t \in Tabs, Refresh(t)
  PROVE  Kept'
  <1> DEFINE g == flight[t]
  <1>1. g \in Flights /\ Awaits(g)
    BY DEF Kept
  <1>2. g.at # "none" => g.token \in Tokens /\ g # None
    BY <1>1 DEF Flights, None
  <1>3. CASE CheckValid(t)
    <2>1. g.at = "check" /\ g.token = refresh /\ refresh \in valid
      BY <1>1, <1>3 DEF CheckValid, Move, Awaits
    <2>2. PICK f \in Flights :
            f = [at |-> "revoke", token |-> refresh] /\ flight' = [flight EXCEPT ![t] = f]
      <3>1. [g EXCEPT !.at = "revoke"] = [at |-> "revoke", token |-> refresh]
        BY <1>1, <2>1 DEF Flights, None
      <3> QED
        BY <1>3, <2>1, <3>1 DEF CheckValid, Move, Flights, Kept
    <2>3. Awaits(f)'
      BY <1>3, <2>1, <2>2 DEF CheckValid, browserVars, Awaits
    <2> QED
      BY <1>2, <1>3, <2>1, <2>2, <2>3, OnlyRefresh DEF CheckValid, browserVars, Kept, None
  <1>4. CASE Revoke(t)
    <2>1. g.at = "revoke"
      BY <1>4 DEF Revoke, Move
    <2>2. PICK f \in Flights : f.at = "store" /\ flight' = [flight EXCEPT ![t] = f]
      <3>1. [g EXCEPT !.at = "store"] = [at |-> "store", token |-> g.token]
        BY <1>1, <2>1 DEF Flights, None
      <3> QED
        BY <1>2, <1>4, <2>1, <3>1 DEF Revoke, Move, Flights
    <2>3. Awaits(f)'
      BY <2>2 DEF Awaits
    <2>4. /\ UNCHANGED <<clock, out, refresh>>
          /\ valid' \subseteq Tokens /\ refresh' \in Tokens
      BY <1>4 DEF Revoke, browserVars, Kept
    <2>5. f # None /\ flight[t] # None
      BY <1>2, <2>1, <2>2 DEF None
    <2> QED
      BY <2>2, <2>3, <2>4, <2>5, OnlyRefresh
  <1>5. CASE StoreNew(t)
    <2>1. PICK f \in Flights :
            f = [at |-> "answer", token |-> clock] /\ flight' = [flight EXCEPT ![t] = f]
      BY <1>5 DEF StoreNew, Flights, Kept
    <2>2. Awaits(f)'
      BY <1>5, <2>1 DEF StoreNew, Awaits
    <2> QED
      BY <1>2, <1>5, <2>1, <2>2, OnlyRefresh DEF StoreNew, browserVars, Kept, None
  <1>6. CASE Accept(t)
    <2>1. g.at = "answer" /\ g.token \in valid
      BY <1>1, <1>6 DEF Accept, Awaits
    <2>2. Awaits(None)' /\ None \in Flights
      BY DEF Awaits, None, Flights
    <2> QED
      BY <1>2, <1>6, <2>1, <2>2, OnlyRefresh DEF Accept, Kept
  <1>7. CASE GiveUp(t)
    BY <1>1, <1>7 DEF GiveUp, Awaits
  <1> QED
    BY <1>3, <1>4, <1>5, <1>6, <1>7 DEF Refresh

LEMMA SmoothKept ==
  ASSUME Kept, OneRefresh', Smooth
  PROVE  Kept'
  <1>1. CASE Tick \/ Expire
    BY <1>1, StillKept, Parameters DEF Tick, Expire, Kept, Tokens
  <1>2. ASSUME NEW t \in Tabs, NEW k \in Calls, Call(t, k)
        PROVE  Kept'
    BY <1>2, StillKept DEF Call, browserVars, Kept
  <1>3. ASSUME NEW t \in Tabs, Login(t)
        PROVE  FALSE
    BY <1>3, Parameters DEF Login, Kept, Tokens
  <1>4. ASSUME NEW t \in Tabs, RevokeOut(t) \/ ClearSession(t)
        PROVE  FALSE
    BY <1>4 DEF RevokeOut, ClearSession, Kept, None
  <1> QED
    BY <1>1, <1>2, <1>3, <1>4, DeniedKept, RefreshKept DEF Smooth

LEMMA NextIInv == IInv /\ [Next]_vars => IInv'
  <1> SUFFICES ASSUME IInv, [Next]_vars, ~disturbed'
               PROVE  Kept'
    BY DEF IInv
  <1>1. CASE UNCHANGED vars
    BY <1>1, StillKept DEF vars, core, IInv, Kept
  <1>2. CASE Smooth /\ disturbed' = (disturbed \/ Cardinality(Refreshing') > 1)
    <2>1. Kept
      BY <1>2 DEF IInv
    <2>2. IsFiniteSet(Refreshing')
      BY Parameters, FS_Subset DEF Refreshing
    <2>3. Cardinality(Refreshing') \in Nat
      BY <2>2, FS_CardinalityType
    <2>4. ~(Cardinality(Refreshing') > 1)
      BY <1>2, Zenon
    <2>5. Cardinality(Refreshing') <= 1
      BY <2>3, <2>4
    <2>6. OneRefresh'
      BY <2>2, <2>3, <2>5, FS_EmptySet, FS_Singleton DEF OneRefresh
    <2> QED
      BY <1>2, <2>1, <2>6, SmoothKept
  <1> QED
    BY <1>1, <1>2 DEF Next

(* As long as no request is lost, no page is loaded, nobody logs out and   *)
(* no two tabs refresh at once, the browser never forgets its session,     *)
(* however many calls of however many tabs meet an expired token (the      *)
(* response interceptor and refreshPromise of client.ts).                  *)
THEOREM SessionIsKept == Spec => []SessionKept
  <1>1. IInv => SessionKept
    BY Parameters DEF IInv, Kept, SessionKept, Tokens
  <1> QED
    BY <1>1, InitIInv, NextIInv, PTL DEF Spec

(* Nor is it then left, between refreshes, with a token that the server    *)
(* has revoked, although two tokens of one second are the same string      *)
(* (rotate_refresh_token).                                                 *)
THEOREM SessionIsRenewable == Spec => []Renewable
  <1>1. IInv => Renewable
    BY DEF IInv, Kept, Renewable, Quiet, Refreshing
  <1> QED
    BY <1>1, InitIInv, NextIInv, PTL DEF Spec
-----------------------------------------------------------------------------
\* The task of a job that has not ended.
AtWork == task \in {"begun", "fetched", "encoding"}

\* The file of an export is begun anew only by a task whose record, and
\* what the dialog heard of it, are not at their end.
ExportIInv ==
  /\ DoneIsWhole
  /\ ffmpeg = "ended" => file = "whole"
  /\ AtWork => told # "done" /\ record \notin {"done", "none"}

LEMMA ExportInitIInv == Export!Init => ExportIInv
  BY DEF Export!Init, ExportIInv, DoneIsWhole, Export!DoneIsWhole, AtWork

\* What the dialog does; it hears of what is recorded and of nothing else.
LEMMA DialogIInv ==
  ASSUME ExportIInv,
         \/ Export!OpenModal \/ Export!Submit \/ Export!CloseModal \/ Export!CreateFails
         \/ Export!StatusTold \/ Export!StatusFails \/ Export!PollAgain \/ Export!Focus
         \/ Export!Download
  PROVE  ExportIInv'
  BY DEF Export!OpenModal, Export!Submit, Export!CloseModal, Export!CreateFails,
         Export!StatusTold, Export!StatusFails, Export!PollAgain, Export!Focus,
         Export!Download, Export!export, ExportIInv, DoneIsWhole, Export!DoneIsWhole, AtWork

\* A new job has a record that is not done, and no dialog that heard of it.
LEMMA CreateIInv == ExportIInv /\ Export!Create => ExportIInv'
  BY DEF Export!Create, ExportIInv, DoneIsWhole, Export!DoneIsWhole, AtWork

LEMMA TaskIInv == ExportIInv /\ Export!Task => ExportIInv'
  <1> SUFFICES ASSUME ExportIInv, Export!Task PROVE ExportIInv'
    OBVIOUS
  <1>1. CASE Export!Start
    BY <1>1 DEF Export!Start, ExportIInv, DoneIsWhole, Export!DoneIsWhole, AtWork
  <1>2. ASSUME NEW ok \in BOOLEAN, Export!Fetch(ok)
        PROVE  ExportIInv'
    <2>1. AtWork
      BY <1>2 DEF Export!Fetch, AtWork
    <2>2. CASE ok
      BY <1>2, <2>1, <2>2 DEF Export!Fetch,
         ExportIInv, DoneIsWhole, Export!DoneIsWhole, AtWork
    <2>3. CASE ~ok
      BY <1>2, <2>1, <2>3 DEF Export!Fetch, Export!Fail,
         ExportIInv, DoneIsWhole, Export!DoneIsWhole, AtWork
    <2> QED
      BY <2>2, <2>3
  <1>3. CASE Export!Encoded
    BY <1>3 DEF Export!Encoded, Export!Fail,
       ExportIInv, DoneIsWhole, Export!DoneIsWhole, AtWork
  <1>4. CASE Export!Timeout
    BY <1>4 DEF Export!Timeout, Export!Fail,
       ExportIInv, DoneIsWhole, Export!DoneIsWhole, AtWork
  <1> QED
    BY <1>1, <1>2, <1>3, <1>4 DEF Export!Task

\* What happens beside the task: also to an ffmpeg that it has given up.
LEMMA BesideIInv ==
  ASSUME ExportIInv,
         Export!Encode(TRUE) \/ Export!Encode(FALSE) \/ Export!Expire \/ Export!Restart
  PROVE  ExportIInv'
  BY DEF Export!Encode, Export!Expire, Export!Restart,
     ExportIInv, DoneIsWhole, Export!DoneIsWhole, AtWork

LEMMA JobIInv == ExportIInv /\ Export!Next => ExportIInv'
  BY DialogIInv, CreateIInv, TaskIInv, BesideIInv DEF Export!Next

\* The sessions and the pictures leave the export alone.
LEMMA ExportNextIInv == ExportIInv /\ [ExchangeNext]_all => ExportIInv'
  <1>1. ExportIInv /\ UNCHANGED export => ExportIInv'
    BY DEF export, ExportIInv, DoneIsWhole, Export!DoneIsWhole, AtWork
  <1> QED
    BY <1>1, JobIInv DEF ExchangeNext, all

(* A job is never recorded or told as done while its file is not whole,    *)
(* though ffmpeg runs into its limit and writes on, the backend restarts   *)
(* and other exports follow (run_job, _try_ffmpeg).                        *)
THEOREM DoneFilesAreWhole == ExchangeSpec => []DoneIsWhole
  <1>1. ExchangeInit => ExportIInv
    BY ExportInitIInv DEF ExchangeInit
  <1>2. ExportIInv => DoneIsWhole
    BY DEF ExportIInv
  <1> QED
    BY <1>1, <1>2, ExportNextIInv, PTL DEF ExchangeSpec
=============================================================================
