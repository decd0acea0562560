---------------------------- MODULE Connections -----------------------------
(***************************************************************************)
(* What one browser tab keeps open to the servers: the player of an iframe *)
(* (StreamPlayer) and the socket of the events (LiveFeed).  They share no  *)
(* state; which of them a behaviour is about is chosen at its start, so    *)
(* that one run checks both, each under its own fairness.                  *)
(***************************************************************************)
EXTENDS Integers, Sequences, FiniteSets

CONSTANTS Setups, Sockets, Cap, Window, Quota, NoSocket
CONSTANTS MaxEvents, MaxQueue, Shown, Page, NoPage

VARIABLES subject
VARIABLES setup, ws, wsState, socket, asked, peer, pcState, retrying,
  reconnectTID, leaving, hidden, text, ms, sb, buf, held, sent, lapped
VARIABLES stored, feed, queue, heard, current, timer, alive, token, list, page, again

Player == INSTANCE StreamPlayer
Feed == INSTANCE LiveFeed WITH socket <- feed

ASSUME Parameters == Player!Sizes /\ Feed!Parameters

(* Ways to set a player up: the iframe of LiveView.tsx, a visible page with *)
(* the defaults of video-rtc.js, a browser that has no MediaSource.         *)
Embedded == [modes |-> {"mse"}, first |-> "mse", background |-> TRUE, chunks |-> 4]
Visible  == [modes |-> {"mse", "webrtc", "mjpeg"}, first |-> "mse", background |-> FALSE, chunks |-> 1]
Apple    == [modes |-> {"hls", "mjpeg"}, first |-> "hls", background |-> TRUE, chunks |-> 1]
AllSetups == {Embedded, Visible, Apple}

player == <<setup, ws, wsState, socket, asked, peer, pcState, retrying,
            reconnectTID, leaving, hidden, text, ms, sb, buf, held, sent, lapped>>
events == <<stored, feed, queue, heard, current, timer, alive, token, list, page, again>>
vars == <<subject, player, events>>

Init ==
  /\ subject \in {"player", "events"}
  /\ Player!Init /\ Feed!Init
  /\ subject # "events" => token = "good" /\ stored = 0

Next ==
  \/ subject = "player" /\ Player!Next /\ UNCHANGED <<subject, events>>
  \/ subject = "events" /\ Feed!Next /\ UNCHANGED <<subject, player>>

Spec == Init /\ [][Next]_vars
FairSpec == Spec /\ Player!Fairness /\ Feed!Fairness

-----------------------------------------------------------------------------
(* A player streams over the one socket it knows, and leaves no other open *)
(* (onconnect, ondisconnect and onclose of video-rtc.js).                  *)
OneConnection == Player!OneConnection

(* Whatever a player goes through, the text that LiveView.tsx reads from   *)
(* it changes as PlayerFace promises: StreamPlayer implements PlayerFace.  *)
ShowsFace == Player!ShowsFace

(* A player whose server answers again shows its stream again.             *)
ComesBack == Player!ComesBack

(* An event is listed once, however often it was announced (LiveFeed).     *)
ListedOnce == Feed!ListedOnce

(* An event announced to a socket that is still open is listed, on its way *)
(* or pushed out by later ones (LiveFeed).                                 *)
Delivered == Feed!Delivered

(* A tab whose token stays good has its connection again and again.        *)
Reconnected == Feed!Reconnected
=============================================================================
