------------------------------ MODULE LiveFeed ------------------------------
(***************************************************************************)
(* The events in one browser tab: the socket that hooks/useWebSocket.ts    *)
(* keeps open to api/ws/events.py, the Redis subscription behind each      *)
(* socket, the history that hooks/useEvents.ts asks for once, and the      *)
(* list of store/eventStore.ts, which both of them fill.                   *)
(*                                                                         *)
(* An event is known by a number.  It is announced when its object is      *)
(* first stored and again with every update of the object.  Whatever       *)
(* brings an event without a clip and a snapshot, shouldKeepEvent drops it *)
(* and nothing changes: here only events with media are rows, and counted  *)
(* in the order in which they got it.                                      *)
(***************************************************************************)
EXTENDS Integers, FiniteSets, SequencesExt

CONSTANTS
  Sockets,   \* bound: WebSocket objects alive at a time
  MaxEvents, \* bound: events
  MaxQueue,  \* bound: messages on their way to one socket
  Shown,     \* MAX_EVENTS, 300 in the code
  Page,      \* the events of one history request, 50 in the code
  NoPage, NoSocket

Parameters ==
  /\ MaxEvents \in Nat \ {0} /\ MaxQueue \in Nat
  /\ Shown \in Nat \ {0} /\ Page \in Nat \ {0}
  /\ NoSocket \notin Sockets /\ NoPage \notin Seq(Nat)

Events == 1..MaxEvents

VARIABLES
  stored,  \* the rows so far are 1..stored
  socket,  \* each socket: connecting, accepted, open (it is subscribed),
           \* closing (onclose is still to run), retry (onclose has set a
           \* timer), unused
  queue,   \* the messages on their way to each socket
  heard,   \* history: the events announced to each open socket
  current, \* wsRef: the socket the hook would close
  timer,   \* retryRef: the socket whose timer the hook would clear (clearing
           \* one that has run out does nothing)
  alive,   \* alive: the effect is set up
  token,   \* the access token of localStorage: good (a handshake with it is
           \* accepted), stale (it is refused, or no server answers), none
  list,    \* the store's events, newest first
  page,    \* the answer to the history request under way
  again    \* history: the effect has been set up a second time

socketVars == <<socket, queue, heard, current, timer>>
core       == <<stored, socketVars, alive, token, list, page>>
vars       == <<core, again>>

Init ==
  /\ stored \in 0..1
  /\ socket = [s \in Sockets |-> "unused"]
  /\ queue = [s \in Sockets |-> <<>>]
  /\ heard = [s \in Sockets |-> {}]
  /\ current = NoSocket
  /\ timer = NoSocket
  /\ alive = FALSE
  /\ token \in {"good", "stale"}
  /\ list = <<>>
  /\ page = NoPage
  /\ again = FALSE

-----------------------------------------------------------------------------
(* The environment.                                                        *)

Open == {s \in Sockets : socket[s] = "open"}

(* PUBLISH vms:events reaches every subscribed socket; a new id is a new   *)
(* row, an old one an update of it.                                        *)
Announce(e) ==
  /\ e <= stored + 1
  /\ \A s \in Open : Len(queue[s]) < MaxQueue
  /\ stored' = IF e > stored THEN e ELSE stored
  /\ queue' = [s \in Sockets |-> IF s \in Open THEN Append(queue[s], e) ELSE queue[s]]
  /\ heard' = [s \in Sockets |-> IF s \in Open THEN heard[s] \cup {e} ELSE heard[s]]
  /\ UNCHANGED <<socket, current, timer, alive, token, list, page>>

(* The access token expires, an API call has it renewed, another tab logs  *)
(* out; the server goes away or comes back.                                *)
Weather ==
  /\ token' \in {"good", "stale", "none"} \ {token}
  /\ UNCHANGED <<stored, socketVars, alive, list, page>>

-----------------------------------------------------------------------------
(* A socket.  Whatever ends it, its onclose runs later.                    *)

(* The socket leaves its state, with what was on its way.                  *)
Turn(s, state) ==
  /\ socket' = [socket EXCEPT ![s] = state]
  /\ queue' = [queue EXCEPT ![s] = <<>>]
  /\ heard' = [heard EXCEPT ![s] = {}]

(* events_ws accepts; connect() falls back to the token of the store when  *)
(* localStorage has none.                                                  *)
Accept(s) ==
  /\ socket[s] = "connecting" /\ token # "stale"
  /\ Turn(s, "accepted")
  /\ UNCHANGED <<stored, current, timer, alive, token, list, page>>

(* pubsub.subscribe: what was announced before it is not brought.          *)
Subscribe(s) ==
  /\ socket[s] = "accepted"
  /\ Turn(s, "open")
  /\ UNCHANGED <<stored, current, timer, alive, token, list, page>>

(* The handshake fails: nobody answers, or the token is refused, which the *)
(* browser sees as 1006 because the server has not accepted the socket.    *)
Refuse(s) ==
  /\ socket[s] = "connecting" /\ token # "good"
  /\ Turn(s, "closing")
  /\ UNCHANGED <<stored, current, timer, alive, token, list, page>>

(* Reader, broadcaster or heartbeat ends, and with it the others; or the   *)
(* connection is lost.                                                     *)
Lose(s) ==
  /\ socket[s] \in {"accepted", "open"}
  /\ Turn(s, "closing")
  /\ UNCHANGED <<stored, current, timer, alive, token, list, page>>

(* Variant: a retry needs a token that is known to be good.                *)
OnCloseGood(s) ==
  /\ socket[s] = "closing"
  /\ IF alive /\ token = "good"
     THEN Turn(s, "retry") /\ timer' = s
     ELSE Turn(s, "unused") /\ UNCHANGED timer
  /\ UNCHANGED <<stored, current, alive, token, list, page>>

(* onclose looks at the effect as it is now, not at the one it belongs to. *)
OnClose(s) ==
  /\ socket[s] = "closing"
  /\ IF alive
     THEN Turn(s, "retry") /\ timer' = s
     ELSE Turn(s, "unused") /\ UNCHANGED timer
  /\ UNCHANGED <<stored, current, alive, token, list, page>>

-----------------------------------------------------------------------------
(* The effect.                                                             *)

(* Its cleanup: clear the timer, close the socket.                         *)
Cleaned ==
  [s \in Sockets |->
     CASE s = timer /\ socket[s] = "retry" -> "unused"
       [] s = current /\ socket[s] \in {"connecting", "accepted", "open"} -> "closing"
       [] OTHER -> socket[s]]

CloseCurrent ==
  /\ queue' = [s \in Sockets |-> IF s = current THEN <<>> ELSE queue[s]]
  /\ heard' = [s \in Sockets |-> IF s = current THEN {} ELSE heard[s]]
  /\ timer' = NoSocket

(* connect(): a new socket next to those of the given states.              *)
Connect(states) ==
  \E s \in Sockets :
    /\ states[s] = "unused"
    /\ current' = s
    /\ socket' = [states EXCEPT ![s] = "connecting"]

(* The effect is set up: the user has logged in.                           *)
Enter ==
  /\ ~alive
  /\ alive' = TRUE
  /\ Connect(socket)
  /\ UNCHANGED <<stored, queue, heard, timer, token, list, page>>

(* The effect goes: a logout, or the session is cleared.                   *)
Leave ==
  /\ alive
  /\ alive' = FALSE
  /\ socket' = Cleaned
  /\ current' = NoSocket
  /\ CloseCurrent
  /\ UNCHANGED <<stored, token, list, page>>

(* A retry timer runs out.  Without a token in localStorage there is no    *)
(* refresh token either, and the callback clears the session.              *)
Fire(s) ==
  /\ socket[s] = "retry"
  /\ IF ~alive
     THEN /\ Turn(s, "unused")
          /\ timer' = IF timer = s THEN NoSocket ELSE timer
          /\ UNCHANGED <<current, alive>>
     ELSE IF token = "none"
     THEN /\ alive' = FALSE
          /\ socket' = [Cleaned EXCEPT ![s] = "unused"]
          /\ current' = NoSocket
          /\ CloseCurrent
     ELSE /\ Connect([socket EXCEPT ![s] = "unused"])
          /\ timer' = IF timer = s THEN NoSocket ELSE timer
          /\ UNCHANGED <<queue, heard, alive>>
  /\ UNCHANGED <<stored, token, list, page>>

(* The access token in the store changes: cleanup, and set up again.       *)
Rerun ==
  /\ alive
  /\ Connect(Cleaned)
  /\ CloseCurrent
  /\ UNCHANGED <<stored, alive, token, list, page>>

-----------------------------------------------------------------------------
(* The store.                                                              *)

Cut(events) == SubSeq(events, 1, IF Len(events) < Shown THEN Len(events) ELSE Shown)

(* Variant: an event that comes back is put on top again.                  *)
PushedAgain(e) == Cut(<<e>> \o list)

(* pushEvent: an event that is in the list already is not touched.         *)
Pushed(e) == IF Contains(list, e) THEN list ELSE Cut(<<e>> \o list)

(* onmessage.                                                              *)
Message(s) ==
  /\ socket[s] = "open" /\ queue[s] # <<>>
  /\ list' = Pushed(Head(queue[s]))
  /\ queue' = [queue EXCEPT ![s] = Tail(@)]
  /\ UNCHANGED <<stored, socket, heard, current, timer, alive, token, page>>

(* The rows with media of a page of the newest rows, newest first.         *)
Pages ==
  {p \in SeqOf(1..stored, Page) : \A i, j \in 1..Len(p) : i < j => p[i] > p[j]}

(* GET /events is answered, the answer is on its way (bound: one of them). *)
AskHistory ==
  /\ page = NoPage
  /\ page' \in Pages
  /\ UNCHANGED <<stored, socketVars, alive, token, list>>

(* Variant: the history replaces what the socket has brought.              *)
AppendedOnly(fresh) == Cut(fresh)

Appended(fresh) == Cut(list \o fresh)

(* appendHistory: the rows of the answer that are not listed, in its order. *)
AppendHistory ==
  /\ page # NoPage
  /\ \E fresh \in Pages :
       /\ ToSet(fresh) = ToSet(page) \ ToSet(list)
       /\ list' = Appended(fresh)
  /\ page' = NoPage
  /\ UNCHANGED <<stored, socketVars, alive, token>>

Socket(s) ==
  Accept(s) \/ Subscribe(s) \/ Refuse(s) \/ OnClose(s) \/ Fire(s) \/ Message(s)

Step ==
  \/ \E e \in Events : Announce(e)
  \/ Weather
  \/ \E s \in Sockets : Socket(s) \/ Lose(s)
  \/ Leave \/ AskHistory \/ AppendHistory

Next ==
  \/ Step /\ UNCHANGED again
  \/ Enter /\ again' = (again \/ \E s \in Sockets : socket[s] # "unused")
  \/ Rerun /\ again' = TRUE

Spec == Init /\ [][Next]_vars

(* A handshake, a close event, a timer and a message each happen in time;  *)
(* nobody has to log in, and connections may be lost again and again.      *)
Fairness == \A s \in Sockets : WF_core(Socket(s))

FairSpec == Spec /\ Fairness

-----------------------------------------------------------------------------
(* Properties.                                                             *)

(* Every variable has its type.                                            *)
TypeOK ==
  /\ stored \in 0..MaxEvents
  /\ socket \in [Sockets -> {"unused", "connecting", "accepted", "open", "closing",
                             "retry"}]
  /\ queue \in [Sockets -> Seq(Events)]
  /\ heard \in [Sockets -> SUBSET Events]
  /\ current \in Sockets \cup {NoSocket}
  /\ timer \in Sockets \cup {NoSocket}
  /\ {alive, again} \subseteq BOOLEAN
  /\ token \in {"good", "stale", "none"}
  /\ list \in Seq(1..stored)
  /\ page \in Seq(1..stored) \cup {NoPage}

(* An event is listed once, however often it was announced, by however     *)
(* many sockets and next to the history, and the list keeps its bound.     *)
ListedOnce == IsInjective(list) /\ Len(list) <= Shown

(* An event announced to a socket that is still open is listed, or on its  *)
(* way, or was pushed out by Shown later ones.                             *)
Delivered ==
  \A s \in Open : \A e \in heard[s] :
    Contains(list, e) \/ Contains(queue[s], e) \/ Len(list) = Shown

(* As long as the effect is set up only when no socket is left from        *)
(* before, the tab never has two sockets, or two retries, at a time.       *)
OneSocket ==
  ~again => \A s, u \in Sockets :
    socket[s] # "unused" /\ socket[u] # "unused" => s = u

(* While the server answers and accepts the token, and the token of the    *)
(* store does not change, a tab whose effect is set up always gets its     *)
(* connection back.                                                        *)
Reconnected ==
  <>[](alive /\ token = "good") /\ <>[][~Rerun]_vars
    => []<>(\E s \in Sockets : socket[s] \in {"accepted", "open"})
=============================================================================
