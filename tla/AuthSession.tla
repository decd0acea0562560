----------------------------- MODULE AuthSession -----------------------------
(***************************************************************************)
(* One user's session in one browser: login, logout and the rotation of    *)
(* the refresh token, on the server (api/v1/auth.py, auth_service.py, a    *)
(* set of valid tokens in Redis) and in the tabs (api/client.ts,           *)
(* store/authStore.ts), which share localStorage but nothing else.         *)
(*                                                                         *)
(* A refresh token is a JWT of the user, the type and two times in whole   *)
(* seconds: two tokens minted in the same second are the same string.  A   *)
(* token is therefore modelled by the second it was minted in.             *)
(***************************************************************************)
EXTENDS Integers, FiniteSets

CONSTANTS
  Tabs,        \* the open tabs of the browser
  Calls,       \* the API calls a tab has under way
  Operations,  \* "login", "logout", "reload": what the user does;
               \* "fault": requests and answers may be lost
  MaxClock,    \* bound: seconds that pass
  NoToken

ASSUME Parameters ==
  /\ Operations \subseteq {"login", "logout", "reload", "fault"}
  /\ MaxClock \in Nat \ {0}
  /\ IsFiniteSet(Tabs) /\ NoToken \notin 1..MaxClock

Tokens == 1..MaxClock

VARIABLES
  clock,    \* the current second
  valid,    \* Redis: the refresh tokens that are not revoked
  refresh,  \* localStorage: refresh_token
  access,   \* localStorage: access_token, "good" or "stale"
  store,    \* each tab's authStore: refreshToken
  flight,   \* each tab's refreshPromise, with the request it waits for
  call,     \* each tab's API calls
  out,      \* each tab's logout under way
  disturbed \* history: a request was lost, a page loaded, a logout begun, or
            \* two tabs refreshed at once

browserVars == <<refresh, access>>
core        == <<clock, valid, refresh, access, store, flight, call, out>>
vars        == <<core, disturbed>>

None    == [at |-> "none"]
Flights == {None} \cup [at : {"check", "revoke", "store", "answer", "refused"}, token : Tokens]
Outs    == {None} \cup [at : {"post", "clear"}, token : Tokens]

(* A user has logged in and the session has been used by every tab.        *)
Init ==
  /\ clock = 1
  /\ valid = {1}
  /\ refresh = 1
  /\ access = "good"
  /\ store = [t \in Tabs |-> 1]
  /\ flight = [t \in Tabs |-> None]
  /\ call = [t \in Tabs |-> [k \in Calls |-> "none"]]
  /\ out = [t \in Tabs |-> None]
  /\ disturbed = FALSE

-----------------------------------------------------------------------------
(* Time.                                                                   *)

Tick ==
  /\ clock < MaxClock
  /\ clock' = clock + 1
  /\ UNCHANGED <<valid, refresh, access, store, flight, call, out>>

(* The access token expires.                                               *)
Expire ==
  /\ access = "good"
  /\ access' = "stale"
  /\ UNCHANGED <<clock, valid, refresh, store, flight, call, out>>

-----------------------------------------------------------------------------
(* API calls and the response interceptor.                                 *)

(* A call goes out with an access token the server refuses.                *)
Call(t, k) ==
  /\ call[t][k] = "none" /\ access = "stale"
  /\ call' = [call EXCEPT ![t][k] = "sent"]
  /\ UNCHANGED <<clock, valid, browserVars, store, flight, out>>

(* Variant: every 401 starts a refresh of its own.                         *)
DeniedEach(t, k) ==
  /\ call[t][k] = "sent" /\ refresh # NoToken
  /\ call' = [call EXCEPT ![t][k] = "waiting"]
  /\ flight' = [flight EXCEPT ![t] = [at |-> "check", token |-> refresh]]
  /\ UNCHANGED <<clock, valid, browserVars, store, out>>

(* A 401: without a refresh token the session is given up, else the call   *)
(* waits for the refresh under way, which it starts if there is none.      *)
Denied(t, k) ==
  /\ call[t][k] = "sent"
  /\ \/ /\ refresh = NoToken
        /\ access' = NoToken
        /\ call' = [call EXCEPT ![t][k] = "none"]
        /\ UNCHANGED <<refresh, flight>>
     \/ /\ refresh # NoToken
        /\ call' = [call EXCEPT ![t][k] = "waiting"]
        /\ flight' = [flight EXCEPT ![t] =
             IF @ = None THEN [at |-> "check", token |-> refresh] ELSE @]
        /\ UNCHANGED browserVars
  /\ UNCHANGED <<clock, valid, store, out>>

-----------------------------------------------------------------------------
(* POST /auth/refresh on the server, one action per await.                 *)

Move(t, from, to) ==
  /\ flight[t].at = from
  /\ flight' = [flight EXCEPT ![t].at = to]

CheckValid(t) ==
  /\ Move(t, "check", IF flight[t].token \in valid THEN "revoke" ELSE "refused")
  /\ UNCHANGED <<clock, valid, browserVars, store, call, out>>

(* After the user is read, the token is revoked ...                        *)
Revoke(t) ==
  /\ Move(t, "revoke", "store")
  /\ valid' = valid \ {flight[t].token}
  /\ UNCHANGED <<clock, browserVars, store, call, out>>

(* ... and a new one, minted now, is stored and sent back.                 *)
StoreNew(t) ==
  /\ flight[t].at = "store"
  /\ flight' = [flight EXCEPT ![t] = [at |-> "answer", token |-> clock]]
  /\ valid' = valid \cup {clock}
  /\ UNCHANGED <<clock, browserVars, store, call, out>>

(* The request or the answer is lost: for the tab, a refusal.              *)
LoseRefresh(t) ==
  /\ "fault" \in Operations
  /\ flight[t].at \in {"check", "answer"}
  /\ Move(t, flight[t].at, "refused")
  /\ UNCHANGED <<clock, valid, browserVars, store, call, out>>

(* Every call that waited is answered, with or without a retry.            *)
Resume(t) == call' = [call EXCEPT ![t] = [k \in Calls |-> IF @[k] = "waiting" THEN "none" ELSE @[k]]]

(* Variant: the rotated token is dropped.                                  *)
AcceptAccess(t) ==
  /\ flight[t].at = "answer"
  /\ access' = "good"
  /\ flight' = [flight EXCEPT ![t] = None]
  /\ Resume(t)
  /\ UNCHANGED <<clock, valid, refresh, store, out>>

(* setTokens: localStorage gets the new tokens, the tab's store does not.  *)
Accept(t) ==
  /\ flight[t].at = "answer"
  /\ refresh' = flight[t].token
  /\ access' = "good"
  /\ flight' = [flight EXCEPT ![t] = None]
  /\ Resume(t)
  /\ UNCHANGED <<clock, valid, store, out>>

(* Variant: a refused refresh leaves the promise for the next call.        *)
GiveUpKept(t) ==
  /\ flight[t].at = "refused"
  /\ refresh' = NoToken
  /\ access' = NoToken
  /\ UNCHANGED <<clock, valid, store, flight, call, out>>

(* clearTokens: any failed refresh ends the session.                       *)
GiveUp(t) ==
  /\ flight[t].at = "refused"
  /\ refresh' = NoToken
  /\ access' = NoToken
  /\ flight' = [flight EXCEPT ![t] = None]
  /\ Resume(t)
  /\ UNCHANGED <<clock, valid, store, out>>

-----------------------------------------------------------------------------
(* The user.                                                               *)

(* POST /auth/login from a tab that has no session.                        *)
Login(t) ==
  /\ "login" \in Operations
  /\ refresh = NoToken /\ out[t] = None
  /\ valid' = valid \cup {clock}
  /\ refresh' = clock
  /\ access' = "good"
  /\ store' = [store EXCEPT ![t] = clock]
  /\ UNCHANGED <<clock, flight, call, out>>

(* The token to revoke is the one of the tab's store, if it has one.       *)
Logout(t) ==
  /\ "logout" \in Operations
  /\ out[t] = None /\ (store[t] # NoToken \/ refresh # NoToken)
  /\ out' = [out EXCEPT ![t] =
       [at |-> "post", token |-> IF store[t] # NoToken THEN store[t] ELSE refresh]]
  /\ UNCHANGED <<clock, valid, browserVars, store, flight, call>>

(* POST /auth/logout on the server.  A failure is ignored.                 *)
RevokeOut(t) ==
  /\ out[t].at = "post"
  /\ \/ valid' = valid \ {out[t].token}
     \/ "fault" \in Operations /\ UNCHANGED valid
  /\ out' = [out EXCEPT ![t].at = "clear"]
  /\ UNCHANGED <<clock, browserVars, store, flight, call>>

(* clearSession, when the server has answered.                             *)
ClearSession(t) ==
  /\ out[t].at = "clear"
  /\ refresh' = NoToken
  /\ access' = NoToken
  /\ store' = [store EXCEPT ![t] = NoToken]
  /\ out' = [out EXCEPT ![t] = None]
  /\ UNCHANGED <<clock, valid, flight, call>>

(* The page is loaded again: hydrate reads localStorage, and the answer to *)
(* whatever the tab had under way is nobody's.  Any failure of GET /auth/me*)
(* ends the session.                                                       *)
Reload(t) ==
  /\ "reload" \in Operations
  /\ flight[t].at \in {"none", "answer", "refused"} /\ out[t] = None
  /\ \/ /\ store' = [store EXCEPT ![t] = refresh]
        /\ UNCHANGED browserVars
     \/ /\ "fault" \in Operations
        /\ store' = [store EXCEPT ![t] = NoToken]
        /\ refresh' = NoToken /\ access' = NoToken
  /\ flight' = [flight EXCEPT ![t] = None]
  /\ call' = [call EXCEPT ![t] = [k \in Calls |-> "none"]]
  /\ UNCHANGED <<clock, valid, out>>

Refresh(t) == CheckValid(t) \/ Revoke(t) \/ StoreNew(t) \/ Accept(t) \/ GiveUp(t)

Disturb == \E t \in Tabs : LoseRefresh(t) \/ Reload(t) \/ Logout(t)

Smooth ==
  \/ Tick \/ Expire
  \/ \E t \in Tabs : \/ \E k \in Calls : Call(t, k) \/ Denied(t, k)
                     \/ Refresh(t) \/ Login(t) \/ RevokeOut(t) \/ ClearSession(t)

Refreshing == {t \in Tabs : flight[t] # None}

Next ==
  \/ Disturb /\ disturbed' = TRUE
  \/ Smooth /\ disturbed' = (disturbed \/ Cardinality(Refreshing') > 1)

Spec == Init /\ [][Next]_vars

(* The server answers: every await of the handlers is bounded.             *)
Fairness ==
  \A t \in Tabs :
    /\ WF_core(Refresh(t)) /\ WF_core(RevokeOut(t)) /\ WF_core(ClearSession(t))
    /\ \A k \in Calls : WF_core(Denied(t, k))

FairSpec == Spec /\ Fairness

-----------------------------------------------------------------------------
(* Properties.                                                             *)

(* Every variable has its type.                                            *)
TypeOK ==
  /\ clock \in Tokens
  /\ valid \subseteq Tokens
  /\ refresh \in Tokens \cup {NoToken}
  /\ access \in {"good", "stale", NoToken}
  /\ store \in [Tabs -> Tokens \cup {NoToken}]
  /\ flight \in [Tabs -> Flights]
  /\ call \in [Tabs -> [Calls -> {"none", "sent", "waiting"}]]
  /\ out \in [Tabs -> Outs]
  /\ disturbed \in BOOLEAN

Quiet == \A t \in Tabs : flight[t] = None /\ out[t] = None

(* As long as nothing has disturbed the session, it can be renewed: when    *)
(* no refresh is under way, the server accepts the token the browser keeps.*)
Renewable == Quiet /\ ~disturbed => refresh \in valid

(* Nor does the browser then forget its session, however the calls of the  *)
(* tabs and their refreshes follow each other.                             *)
SessionKept == ~disturbed => refresh # NoToken

(* The browser forgets its session only while the user logs out.           *)
SessionEndsByLogout ==
  [][refresh # NoToken /\ refresh' = NoToken => \E t \in Tabs : out[t] # None]_vars

(* A refresh token is exchanged once: rotation never leaves two valid      *)
(* tokens of a session.                                                    *)
OneValid == Quiet /\ ~disturbed => \A x, y \in valid : x = y

(* A call that met a 401 is answered.                                      *)
CallsEnd ==
  \A t \in Tabs : \A k \in Calls : (call[t][k] = "waiting") ~> (call[t][k] = "none")

(* A logout begun while nothing else is under way posts the token the      *)
(* server accepts, so that revoking it ends the session.                   *)
LogoutRevokes ==
  [][\A t \in Tabs : Quiet /\ out'[t] # None => out'[t].token \in valid]_vars

(* A logout that has ended stays ended until the next login.               *)
LoggedOutStays ==
  [][refresh = NoToken /\ "login" \notin Operations => refresh' = NoToken]_vars
=============================================================================
