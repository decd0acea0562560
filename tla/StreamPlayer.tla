---------------------------- MODULE StreamPlayer ----------------------------
(***************************************************************************)
(* The live player (public/video-rtc.js, public/video-stream.js): a custom *)
(* element with one WebSocket to go2rtc, which reconnects, a peer          *)
(* connection beside it where the page asks for WebRTC, and a SourceBuffer *)
(* fed from the socket.  The element's handlers do not know which socket   *)
(* called them: they act on this.ws.                                       *)
(***************************************************************************)
EXTENDS Integers, Sequences, FiniteSets, FiniteSetsExt, Functions

CONSTANTS
  Setups,    \* records: modes asked for, the first one the browser can play,
             \* whether the player runs in the background, and (bound)
             \* how many chunks of media a SourceBuffer is sent
  Sockets,   \* WebSocket objects (bound)
  Cap,       \* chunks that fit the buffer beside the SourceBuffer
  Window,    \* chunks kept behind the newest one
  Quota,     \* chunks the SourceBuffer holds at most
  NoSocket

Modes == {"mse", "hls", "mp4", "mjpeg"}

\* The document before the element is made.
NoSetup == [modes |-> {}, first |-> "mse", background |-> FALSE, chunks |-> 0]

Sizes ==
  /\ {Cap, Window, Quota} \subseteq Nat \ {0}
  /\ Quota > Window + 1
  /\ NoSocket \notin Sockets
  /\ NoSetup \notin Setups
  /\ \A u \in Setups :
       /\ u.modes \subseteq Modes \cup {"webrtc"} /\ u.first \in Modes
       /\ u.background \in BOOLEAN /\ u.chunks \in Nat

VARIABLES
  setup,        \* the query of stream.html, and the browser
  ws, wsState,  \* this.ws, this.wsState
  socket,       \* each WebSocket: unused, connecting, open, closing
  asked,        \* the modes asked for over each socket; their names, answered
  peer,         \* this.pc: none, offered, connected; "closed" is still set
  pcState,      \* this.pcState
  retrying,     \* sockets whose close event set a reconnect timer
  reconnectTID, \* the timer that a disconnect clears
  leaving,      \* disconnectTID is set
  hidden,       \* document.hidden
  text,         \* the .mode element
  ms,           \* the MediaSource: none, opening, open, ready
  sb,           \* the SourceBuffer: idle, append, remove
  buf,          \* chunks waiting in buf
  held,         \* chunks in the SourceBuffer
  sent,         \* chunks received for this SourceBuffer
  lapped        \* history: a connection begun with a close event still to come

media == <<ms, sb, buf, held, sent>>
rtc   == <<peer, pcState>>
core  == <<setup, ws, wsState, socket, asked, rtc, retrying, reconnectTID,
           leaving, hidden, text, media>>
vars  == <<core, lapped>>

Texts == {"MSE", "HLS", "MP4", "MJPEG", "RTC"}
Name  == [mse |-> "MSE", hls |-> "HLS", mp4 |-> "MP4", mjpeg |-> "MJPEG"]

Init ==
  /\ setup = NoSetup
  /\ ws = NoSocket /\ wsState = "closed"
  /\ socket = [s \in Sockets |-> "unused"]
  /\ asked = [s \in Sockets |-> {}]
  /\ peer = "none" /\ pcState = "closed"
  /\ retrying = {} /\ reconnectTID = NoSocket
  /\ leaving = FALSE /\ hidden = FALSE
  /\ text = ""
  /\ ms = "none" /\ sb = "idle" /\ buf = <<>> /\ held = {} /\ sent = 0
  /\ lapped = FALSE

-----------------------------------------------------------------------------
(* The connection.                                                         *)

(* Variant: the guard on the socket is missing.                            *)
OnConnectAgain(S) ==
  \E s \in Sockets :
    /\ S[s] = "unused"
    /\ ws' = s /\ wsState' = "connecting"
    /\ socket' = [S EXCEPT ![s] = "connecting"]
    /\ text' = "loading"

(* onconnect, with the sockets in the states S: a new socket, unless there *)
(* is one or a peer connection.                                            *)
OnConnect(S) ==
  IF ws # NoSocket \/ peer # "none"
  THEN socket' = S /\ UNCHANGED <<ws, wsState, text>>
  ELSE \E s \in Sockets :
         /\ S[s] = "unused"
         /\ ws' = s /\ wsState' = "connecting"
         /\ socket' = [S EXCEPT ![s] = "connecting"]
         /\ text' = "loading"

(* stream.html appends the element: connectedCallback.                     *)
Attach(u) ==
  /\ setup = NoSetup
  /\ setup' = u
  /\ OnConnect(socket)
  /\ UNCHANGED <<asked, rtc, retrying, reconnectTID, leaving, hidden, media>>

(* onmse: a new MediaSource, whose sourceopen is to come.                  *)
OnMse == ms' = "opening" /\ sb' = "idle" /\ buf' = <<>> /\ held' = {} /\ sent' = 0

(* onopen, of the socket s.  HLS and MP4 are asked for at once, MSE when   *)
(* the MediaSource opens, WebRTC by an offer.  (Bound: a socket has opened *)
(* or failed before the next one is made.)                                 *)
OnOpen(s) ==
  /\ socket[s] = "connecting" /\ ws = s
  /\ wsState' = "open"
  /\ socket' = [socket EXCEPT ![s] = "open"]
  /\ IF setup.first = "mse"
     THEN OnMse /\ asked' = asked
     ELSE asked' = [asked EXCEPT ![s] = {setup.first}] /\ UNCHANGED media
  /\ IF "webrtc" \in setup.modes
     THEN peer' = "offered" /\ pcState' = "connecting"
     ELSE UNCHANGED rtc
  /\ UNCHANGED <<setup, ws, retrying, reconnectTID, leaving, hidden, text>>

(* The same when this.ws is gone: the handler ends at its second line.     *)
OnOpenOrphan(s) ==
  /\ socket[s] = "connecting" /\ ws = NoSocket
  /\ wsState' = "open"
  /\ socket' = [socket EXCEPT ![s] = "open"]
  /\ UNCHANGED <<setup, ws, asked, rtc, retrying, reconnectTID, leaving, hidden,
                 text, media>>

(* The network or the server ends a connection; the close event follows.   *)
Lose(s) ==
  /\ socket[s] \in {"connecting", "open"}
  /\ socket' = [socket EXCEPT ![s] = "closing"]
  /\ UNCHANGED <<setup, ws, wsState, asked, rtc, retrying, reconnectTID, leaving,
                 hidden, text, media>>

Closed(s) ==
  /\ socket[s] = "closing"
  /\ socket' = [socket EXCEPT ![s] = "unused"]
  /\ asked' = [asked EXCEPT ![s] = {}]

(* Variant: the socket is forgotten and no timer is set.                   *)
OnCloseForgets(s) ==
  /\ Closed(s)
  /\ IF wsState = "closed" THEN UNCHANGED <<ws, wsState>>
                           ELSE ws' = NoSocket /\ wsState' = "connecting"
  /\ UNCHANGED <<setup, rtc, retrying, reconnectTID, leaving, hidden, text, media>>

(* onclose, called for the close event of any socket (bound: one timer of  *)
(* each).                                                                  *)
OnClose(s) ==
  /\ s \notin retrying
  /\ Closed(s)
  /\ IF wsState = "closed"
     THEN UNCHANGED <<ws, wsState, retrying, reconnectTID>>
     ELSE /\ ws' = NoSocket /\ wsState' = "connecting"
          /\ retrying' = retrying \cup {s} /\ reconnectTID' = s
  /\ UNCHANGED <<setup, rtc, leaving, hidden, text, media>>

(* A reconnect timer runs out.                                             *)
Reconnect(s) ==
  /\ s \in retrying
  /\ retrying' = retrying \ {s}
  /\ reconnectTID' = NoSocket
  /\ OnConnect(socket)
  /\ UNCHANGED <<setup, asked, rtc, leaving, hidden, media>>

(* The error event of the video element closes the socket.                 *)
VideoError ==
  /\ ms # "none" /\ ws # NoSocket /\ socket[ws] # "closing"
  /\ socket' = [socket EXCEPT ![ws] = "closing"]
  /\ UNCHANGED <<setup, ws, wsState, asked, rtc, retrying, reconnectTID, leaving,
                 hidden, text, media>>

-----------------------------------------------------------------------------
(* Messages of the server.                                                 *)

(* sourceopen: the codecs are sent over the socket of the moment.          *)
SourceOpen ==
  /\ ms = "opening"
  /\ ms' = "open"
  /\ asked' = IF ws # NoSocket /\ socket[ws] = "open"
              THEN [asked EXCEPT ![ws] = @ \cup {"mse"}] ELSE asked
  /\ UNCHANGED <<setup, ws, wsState, socket, rtc, retrying, reconnectTID, leaving,
                 hidden, text, sb, buf, held, sent>>

(* An answer shows the mode.  That to "mse" makes the SourceBuffer; on a   *)
(* MediaSource that is not open addSourceBuffer throws before that.        *)
Answer(s, m) ==
  /\ socket[s] = "open" /\ m \in asked[s]
  /\ asked' = [asked EXCEPT ![s] = (@ \ {m}) \cup {Name[m]}]
  /\ IF m # "mse" THEN text' = Name[m] /\ UNCHANGED ms
     ELSE IF ms = "open" THEN text' = "MSE" /\ ms' = "ready"
     ELSE UNCHANGED <<text, ms>>
  /\ UNCHANGED <<setup, ws, wsState, socket, rtc, retrying, reconnectTID,
                 leaving, hidden, sb, buf, held, sent>>

(* Variant: an error is shown whatever the mode shown is.                  *)
ErrorOver(s, m) ==
  /\ socket[s] = "open"
  /\ \/ m \in asked[s] /\ UNCHANGED peer
     \/ m = "webrtc" /\ peer = "offered" /\ peer' = "closed"
  /\ text' = "error"
  /\ asked' = IF m = setup.first /\ "mjpeg" \in setup.modes
              THEN [asked EXCEPT ![s] = (@ \ {m}) \cup {"mjpeg"}]
              ELSE [asked EXCEPT ![s] = @ \ {m}]
  /\ UNCHANGED <<setup, ws, wsState, socket, pcState, retrying, reconnectTID,
                 leaving, hidden, media>>

(* An error, shown only while loading.  That of the offer closes the peer  *)
(* connection and leaves this.pc set; that of the first mode falls back to *)
(* MJPEG.                                                                  *)
Error(s, m) ==
  /\ socket[s] = "open"
  /\ \/ m \in asked[s] /\ UNCHANGED peer
     \/ m = "webrtc" /\ peer = "offered" /\ peer' = "closed"
  /\ text' = IF text = "loading" THEN "error" ELSE text
  /\ asked' = IF m = setup.first /\ "mjpeg" \in setup.modes /\ ws = s
              THEN [asked EXCEPT ![s] = (@ \ {m}) \cup {"mjpeg"}]
              ELSE [asked EXCEPT ![s] = @ \ {m}]
  /\ UNCHANGED <<setup, ws, wsState, socket, pcState, retrying, reconnectTID,
                 leaving, hidden, media>>

-----------------------------------------------------------------------------
(* WebRTC.                                                                 *)

PeerUp ==
  /\ peer = "offered" /\ wsState = "open"
  /\ peer' = "connected"
  /\ UNCHANGED <<setup, ws, wsState, socket, asked, pcState, retrying,
                 reconnectTID, leaving, hidden, text, media>>

(* onpcvideo, by whether WebRTC is the better of the two: then the socket  *)
(* goes, else the peer connection.                                         *)
OnPcVideo ==
  /\ peer = "connected" /\ pcState = "connecting"
  /\ \/ /\ pcState' = "open" /\ wsState' = "closed" /\ text' = "RTC"
        /\ ws' = NoSocket
        /\ socket' = IF ws = NoSocket THEN socket ELSE [socket EXCEPT ![ws] = "closing"]
        /\ UNCHANGED peer
     \/ /\ pcState' = "closed" /\ peer' = "none"
        /\ UNCHANGED <<ws, wsState, socket, text>>
  /\ UNCHANGED <<setup, asked, retrying, reconnectTID, leaving, hidden, media>>

(* connectionstatechange to failed or disconnected.                        *)
PeerFails ==
  /\ peer \in {"offered", "connected"}
  /\ peer' = "none" /\ pcState' = "closed"
  /\ IF ws # NoSocket
     THEN UNCHANGED <<ws, wsState, socket, text>>
     ELSE \E s \in Sockets :
            /\ socket[s] = "unused"
            /\ ws' = s /\ wsState' = "connecting" /\ text' = "loading"
            /\ socket' = [socket EXCEPT ![s] = "connecting"]
  /\ UNCHANGED <<setup, asked, retrying, reconnectTID, leaving, hidden, media>>

-----------------------------------------------------------------------------
(* The page is hidden and shown; not for a player in the background.       *)

Hide ==
  /\ ~setup.background /\ ~hidden /\ text # ""
  /\ hidden' = TRUE
  /\ leaving' = (leaving \/ wsState # "closed" \/ pcState # "closed")
  /\ UNCHANGED <<setup, ws, wsState, socket, asked, rtc, retrying, reconnectTID,
                 text, media>>

(* connectedCallback.                                                      *)
Show ==
  /\ hidden
  /\ hidden' = FALSE
  /\ leaving' = FALSE
  /\ OnConnect(socket)
  /\ UNCHANGED <<setup, asked, rtc, retrying, reconnectTID, media>>

(* The disconnect timer: the reconnect timer goes, then ondisconnect.      *)
Disconnect ==
  /\ leaving
  /\ leaving' = FALSE
  /\ retrying' = retrying \ {reconnectTID} /\ reconnectTID' = NoSocket
  /\ ws' = NoSocket /\ wsState' = "closed"
  /\ socket' = IF ws = NoSocket THEN socket ELSE [socket EXCEPT ![ws] = "closing"]
  /\ peer' = "none" /\ pcState' = "closed"
  /\ ms' = "none" /\ sb' = "idle" /\ buf' = <<>> /\ held' = {} /\ sent' = 0
  /\ UNCHANGED <<setup, asked, hidden, text>>

-----------------------------------------------------------------------------
(* The SourceBuffer.                                                       *)

Full == Cardinality(held) >= Quota

(* A chunk is appended, or waits if an operation is under way or others    *)
(* wait.  It is lost when it fits neither: buf.set throws, and so does     *)
(* appendBuffer.                                                           *)
OnData(s) ==
  /\ socket[s] = "open" /\ "MSE" \in asked[s] /\ ms = "ready" /\ sent < setup.chunks
  /\ sent' = sent + 1
  /\ IF sb # "idle" \/ buf # <<>>
     THEN buf' = (IF Len(buf) < Cap THEN Append(buf, sent + 1) ELSE buf) /\ UNCHANGED <<sb, held>>
     ELSE IF Full THEN UNCHANGED <<sb, buf, held>>
     ELSE held' = held \cup {sent + 1} /\ sb' = "append" /\ UNCHANGED buf
  /\ UNCHANGED <<setup, ws, wsState, socket, asked, rtc, retrying, reconnectTID,
                 leaving, hidden, text, ms>>

Old == {c \in held : c < Max(held) - Window}

(* updateend: what waits is appended; if there is nothing or it does not   *)
(* fit, what is older than the window is removed.                          *)
UpdateEnd ==
  /\ sb # "idle"
  /\ IF buf # <<>> /\ ~Full
     THEN buf' = <<>> /\ sb' = "append" /\ held' = held \cup Range(buf)
     ELSE /\ sb' = IF Old # {} THEN "remove" ELSE "idle"
          /\ held' = held \ Old
          /\ UNCHANGED buf
  /\ UNCHANGED <<setup, ws, wsState, socket, asked, rtc, retrying, reconnectTID,
                 leaving, hidden, text, ms, sent>>

-----------------------------------------------------------------------------
Act ==
  \/ \E u \in Setups : Attach(u)
  \/ SourceOpen \/ VideoError \/ UpdateEnd
  \/ PeerUp \/ OnPcVideo \/ PeerFails \/ Hide \/ Show \/ Disconnect
  \/ \E s \in Sockets :
       \/ OnOpen(s) \/ OnOpenOrphan(s) \/ Lose(s) \/ OnClose(s) \/ Reconnect(s) \/ OnData(s)
       \/ \E m \in Modes : Answer(s, m) \/ Error(s, m)
       \/ Error(s, "webrtc")

Next ==
  /\ Act
  /\ lapped' = (lapped \/ (ws' \notin {ws, NoSocket} /\ "closing" \in Range(socket')))

Spec == Init /\ [][Next]_vars

(* The browser runs events and timers.                                     *)
Fairness ==
  /\ WF_core(SourceOpen) /\ WF_core(UpdateEnd)
  /\ \A s \in Sockets : WF_core(OnClose(s)) /\ WF_core(Reconnect(s)) /\ SF_core(OnOpen(s))

FairSpec == Spec /\ Fairness

-----------------------------------------------------------------------------
(* Properties.                                                             *)

Face == INSTANCE PlayerFace WITH Playing <- Texts, text <- text

(* What the element shows follows PlayerFace.                              *)
ShowsFace == Face!Spec

(* Every variable has its type.                                            *)
TypeOK ==
  /\ setup \in Setups \cup {NoSetup}
  /\ ws \in Sockets \cup {NoSocket}
  /\ {wsState, pcState} \subseteq {"closed", "connecting", "open"}
  /\ socket \in [Sockets -> {"unused", "connecting", "open", "closing"}]
  /\ asked \in [Sockets -> SUBSET (Modes \cup Texts)]
  /\ peer \in {"none", "offered", "connected", "closed"}
  /\ retrying \subseteq Sockets /\ reconnectTID \in Sockets \cup {NoSocket}
  /\ {leaving, hidden, lapped} \subseteq BOOLEAN
  /\ text \in Texts \cup {"", "loading", "error"}
  /\ ms \in {"none", "opening", "open", "ready"}
  /\ sb \in {"idle", "append", "remove"}
  /\ Len(buf) <= Cap /\ held \subseteq 1..sent /\ sent <= setup.chunks

Live == {s \in Sockets : socket[s] \in {"connecting", "open"}}

(* The player streams over one connection, the one it knows; always, where *)
(* it is embedded as in LiveView.tsx, else until it connects again before  *)
(* the close event of its last socket.                                     *)
OneConnection ==
  ~lapped \/ (setup.background /\ "webrtc" \notin setup.modes) => Live \subseteq {ws}

(* What waits beside the SourceBuffer is appended in the end, also when    *)
(* the SourceBuffer was full.                                              *)
Flushed == (buf # <<>>) ~> (buf = <<>>)

(* A player in the background gets its connection back whenever it may.    *)
ComesBack == (setup.background /\ "webrtc" \notin setup.modes) ~> (wsState = "open")
=============================================================================
