----------------------------- MODULE EventMedia -----------------------------
(***************************************************************************)
(* The pictures of events, by the components that show them: cards of the  *)
(* event feed and their popup (components/events/EventCard.tsx), thumbs of *)
(* the list of events (pages/Events.tsx), rows of the analytics and the    *)
(* plugin pages.  Cards, popups and thumbs share the URLs of the store     *)
(* (blobUrls); every change of it runs the effect of every card anew.      *)
(***************************************************************************)
EXTENDS FiniteSets

CONSTANTS
  Pictures,  \* the events, each with a snapshot
  Views      \* the components: records of kind and event

Kinds ==
  \A v \in Views : v.of \in Pictures /\ v.kind \in {"card", "popup", "thumb", "row"}

VARIABLES
  face,     \* each component: off, wait (it asks for nothing), asked, served
            \* (the answer is on its way), shown, error
  astray,   \* components with a request left to which only an effect that
            \* has ended listens (bound: one each)
  cached,   \* blobUrls
  failed    \* history: a request has failed

vars == <<face, astray, cached, failed>>

Init ==
  /\ face = [v \in Views |-> "off"]
  /\ astray = {} /\ cached = {} /\ failed = FALSE

Pending == {"asked", "served"}

-----------------------------------------------------------------------------
(* blobUrls.                                                               *)

(* Variant: a card asks once.                                              *)
CardOnce(v, urls) ==
  IF face[v] \in Pending \cup {"wait"}
  THEN IF v.of \in urls THEN "shown" ELSE "wait"
  ELSE face[v]

(* A card after blobUrls has become urls: its effect ends and begins.      *)
CardAgain(v, urls) ==
  IF face[v] \in Pending \cup {"wait"}
  THEN IF v.of \in urls THEN "shown" ELSE "asked"
  ELSE face[v]

(* A popup takes the picture from the store; the other components have     *)
(* looked there when they appeared.                                        *)
Seen(v, urls) ==
  CASE v.kind = "card" -> CardAgain(v, urls)
    [] v.kind = "popup" /\ face[v] # "off" /\ v.of \in urls -> "shown"
    [] OTHER -> face[v]

(* setBlobUrl, by component v: the requests of the other cards go astray.  *)
SetBlobUrl(v) ==
  LET urls == cached \cup {v.of} IN
  /\ cached' = urls
  /\ face' = [u \in Views |->
       IF u = v THEN IF face[v] = "off" THEN "off" ELSE "shown" ELSE Seen(u, urls)]
  /\ astray' = astray \cup {u \in Views \ {v} : u.kind = "card" /\ face[u] \in Pending}

-----------------------------------------------------------------------------
(* Components.  A card keeps no URL of its own when it goes, the page that *)
(* shows a row revokes what it has.                                        *)

Appear(v) ==
  /\ face[v] = "off"
  /\ face' = [face EXCEPT ![v] =
       IF v.kind # "row" /\ v.of \in cached THEN "shown"
       ELSE IF v.kind = "thumb" THEN "wait" ELSE "asked"]
  /\ UNCHANGED <<astray, cached, failed>>

Vanish(v) ==
  /\ face[v] # "off"
  /\ face' = [face EXCEPT ![v] = "off"]
  /\ astray' = IF face[v] \in Pending THEN astray \cup {v} ELSE astray
  /\ UNCHANGED <<cached, failed>>

(* A thumb is scrolled into view.                                          *)
Scroll(v) ==
  /\ v.kind = "thumb" /\ face[v] = "wait"
  /\ face' = [face EXCEPT ![v] = "asked"]
  /\ UNCHANGED <<astray, cached, failed>>

(* GET /events/{id}/snapshot.                                              *)
Serve(v) ==
  /\ face[v] = "asked"
  /\ face' = [face EXCEPT ![v] = "served"]
  /\ UNCHANGED <<astray, cached, failed>>

Arrive(v) ==
  /\ face[v] = "served"
  /\ IF v.kind = "row"
     THEN face' = [face EXCEPT ![v] = "shown"] /\ UNCHANGED <<astray, cached>>
     ELSE SetBlobUrl(v)
  /\ UNCHANGED failed

(* The request fails: the catch of a card sets its error only if it is no  *)
(* longer mounted, and so the card waits.                                  *)
Fail(v) ==
  /\ face[v] = "served"
  /\ face' = [face EXCEPT ![v] = IF v.kind = "thumb" THEN "error" ELSE "wait"]
  /\ failed' = TRUE
  /\ UNCHANGED <<astray, cached>>

(* A request gone astray is answered: a thumb puts the picture into the    *)
(* store all the same, a card and a popup do not.                          *)
ArriveAstray(v) ==
  /\ v \in astray
  /\ IF v.kind = "thumb" /\ face[v] = "off"
     THEN /\ cached' = cached \cup {v.of}
          /\ face' = [u \in Views |-> Seen(u, cached')]
          /\ astray' = (astray \ {v}) \cup {u \in Views : u.kind = "card" /\ face[u] \in Pending}
     ELSE astray' = astray \ {v} /\ UNCHANGED <<face, cached>>
  /\ UNCHANGED failed

(* It fails: a card that is there shows the error.                         *)
FailAstray(v) ==
  /\ v \in astray
  /\ IF v.kind = "card" /\ face[v] # "off"
     THEN /\ face' = [face EXCEPT ![v] = "error"]
          /\ astray' = IF face[v] \in Pending THEN astray ELSE astray \ {v}
     ELSE astray' = astray \ {v} /\ UNCHANGED face
  /\ failed' = TRUE
  /\ UNCHANGED cached

Next ==
  \E v \in Views :
    \/ Appear(v) \/ Vanish(v) \/ Scroll(v)
    \/ Serve(v) \/ Arrive(v) \/ Fail(v) \/ ArriveAstray(v) \/ FailAstray(v)

Spec == Init /\ [][Next]_vars

(* Requests are answered; nobody has to scroll.                            *)
Fairness == \A v \in Views : WF_vars(Serve(v)) /\ WF_vars(Arrive(v) \/ Fail(v))

FairSpec == Spec /\ Fairness

-----------------------------------------------------------------------------
(* A card shows its picture in the end, though each picture that arrives   *)
(* in between makes it drop its request and ask again (the effect of       *)
(* EventCard.tsx depends on the whole of blobUrls), unless requests fail.  *)
CardsShow ==
  \A v \in Views :
    v.kind = "card" => (face[v] # "off") ~> (face[v] \in {"off", "shown"} \/ failed)

-----------------------------------------------------------------------------
(* What the code does not do; each is refuted by a demonstration.          *)

(* A picture that is shown stays as long as its component.                 *)
ShownStays ==
  [][\A v \in Views : face[v] = "shown" => face'[v] \in {"shown", "off"}]_vars

(* A card whose request failed says so.                                    *)
FailureTold == \A v \in Views : v.kind = "card" => (face[v] = "wait") ~> (face[v] # "wait")
=============================================================================
