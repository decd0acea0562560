----------------------------- MODULE Exchanges ------------------------------
(***************************************************************************)
(* What the front end asks the server for again until it has an end: API   *)
(* calls, which renew the session when they are refused (AuthSession), the *)
(* pictures of events (EventMedia) and the state of an export              *)
(* (ExportPage).  They share no state; which of them a behaviour is about  *)
(* is chosen at its start, so that one run checks each under its fairness. *)
(***************************************************************************)
EXTENDS AuthSession

CONSTANTS Pictures, Views
CONSTANTS Restarts

VARIABLES subject
VARIABLES face, astray, cached, failed
VARIABLES modal, told, poll, record, task, ffmpeg, file, restarts

Media   == INSTANCE EventMedia
Export  == INSTANCE ExportPage

ASSUME MediaKinds == Media!Kinds

session == vars
media   == <<face, astray, cached, failed>>
export  == <<modal, told, poll, record, task, ffmpeg, file, restarts>>
all     == <<subject, session, media, export>>

\* Two pictures: a card shows one, a popup and its thumbnail the other.
AllViews == {[kind |-> "card", of |-> 1], [kind |-> "popup", of |-> 2], [kind |-> "thumb", of |-> 2]}

ExchangeInit ==
  /\ subject \in {"session", "media", "export"}
  /\ Init /\ Media!Init /\ Export!Init

ExchangeNext ==
  \/ subject = "session" /\ Next /\ UNCHANGED <<subject, media, export>>
  \/ subject = "media" /\ Media!Next /\ UNCHANGED <<subject, session, export>>
  \/ subject = "export" /\ Export!Next /\ UNCHANGED <<subject, session, media>>

ExchangeSpec == ExchangeInit /\ [][ExchangeNext]_all
FairExchangeSpec == ExchangeSpec /\ Fairness /\ Media!Fairness /\ Export!Fairness

-----------------------------------------------------------------------------
(* A card shows its picture in the end, though each picture that arrives   *)
(* makes it drop its request (EventCard.tsx), unless requests fail.        *)
CardsShow == Media!CardsShow

(* The dialog tells how an export ended (ExportModal.tsx, run_job).        *)
ExportEnds == Export!ExportEnds

(* What is told to be done is there to be downloaded, as a whole.          *)
DoneIsWhole == Export!DoneIsWhole
=============================================================================
