----------------------------- MODULE RuleEditor -----------------------------
(***************************************************************************)
(* The rules a plugin works by, as the pages edit them that share this     *)
(* code line for line (LineCrossingPage, LoiteringPage): the configuration *)
(* as last fetched, a draft, the index of the rule being edited, and a PUT *)
(* of the whole configuration for every change.  How a draft is drawn is   *)
(* the subject of RuleDrawing.                                             *)
(*                                                                         *)
(* A rule is [id, at]: at stands for its contents; id tells the rules      *)
(* apart in the properties only (the code has no such field); it is        *)
(* negative in a rule of this visit and 0 in a draft not saved yet.        *)
(***************************************************************************)
EXTENDS Integers, Sequences, Functions

CONSTANTS
  Cameras,     \* those of the selector
  First,       \* cameras[0]
  AtStart,     \* the configuration when the page is opened
  Contents,    \* what a rule may say
  Default,     \* DEFAULT_LINE, DEFAULT_ZONE
  Savable,     \* the contents the button accepts: a name, three points of a zone
  MaxChanges   \* bound: PUTs, none after a hasty one

Listed ==
  /\ First \in Cameras /\ Default \in Contents
  /\ AtStart \in [Cameras -> Seq([id : Nat \ {0}, at : Contents])]
  /\ \A c, d \in Cameras : \A i \in DOMAIN AtStart[c], j \in DOMAIN AtStart[d] :
       AtStart[c][i].id = AtStart[d][j].id => c = d /\ i = j

VARIABLES
  cam,       \* the camera whose rules are edited, or none before the answer
  fetched,   \* pluginsQ.data, per camera: {} before the first answer
  query,     \* the plugins query: idle, asked, or what the server read
  stored,    \* the configuration in the database
  puts,      \* the PUTs, in the order they were sent
  draft,     \* the rule in the form
  editing,   \* its index, from 1, or 0 where the code has null
  meant,     \* history: what the operator means to be stored
  hasty,     \* history: a change was made to something else than what is stored
  strayed    \* history: the list changed under the rule being edited

form == <<draft, editing>>
editor == <<cam, fetched, query, stored, puts, form, meant, hasty, strayed>>

NoCamera == [none |-> "camera"]
Hole == [id |-> 0, at |-> "nothing"]   \* what a sparse array has at an index that was not set
Idle == [step |-> "idle"]
Over == [step |-> "over"]

Pairs(conf) == UNION {{c} \X Range(conf[c]) : c \in Cameras}

Fresh == [id |-> 0, at |-> Default]

Init ==
  /\ cam = NoCamera
  /\ fetched = [c \in Cameras |-> <<>>] /\ stored = AtStart
  /\ query = Idle /\ puts = <<>>
  /\ draft = Fresh /\ editing = 0
  /\ meant = Pairs(AtStart) /\ hasty = FALSE /\ strayed = FALSE

(* cameraLines, cameraZones.                                               *)
Shown == IF cam = NoCamera THEN <<>> ELSE fetched[cam]

(* A page with a hole in its list throws when it is rendered.              *)
Rendered == cam # NoCamera /\ Hole \notin Range(Shown)

-----------------------------------------------------------------------------
(* The queries.  A refetch joins the one under way.                        *)

Refetched == IF query = Idle THEN [step |-> "asked"] ELSE query

OpenPage ==
  /\ cam = NoCamera
  /\ cam' = First /\ query' = Refetched
  /\ UNCHANGED <<fetched, stored, puts, form, meant, hasty, strayed>>

(* The window gets the focus.                                              *)
Refocus ==
  /\ cam # NoCamera /\ query = Idle
  /\ query' = Refetched
  /\ UNCHANGED <<cam, fetched, stored, puts, form, meant, hasty, strayed>>

Read ==
  /\ query.step = "asked"
  /\ query' = [step |-> "read", conf |-> stored]
  /\ UNCHANGED <<cam, fetched, stored, puts, form, meant, hasty, strayed>>

(* The answer arrives, or the request failed after all retries.            *)
Fetched(ok) ==
  /\ query.step = "read"
  /\ query' = Idle
  /\ fetched' = IF ok THEN query.conf ELSE fetched
  /\ strayed' = (strayed \/ (editing # 0 /\ fetched'[cam] # Shown))
  /\ UNCHANGED <<cam, stored, puts, form, meant, hasty>>

(* The selector of the page leaves the draft and the index alone.          *)
SelectCamera(c) ==
  /\ Rendered
  /\ cam' = c
  /\ strayed' = (strayed \/ (editing # 0 /\ c # cam))
  /\ UNCHANGED <<fetched, query, stored, puts, form, meant, hasty>>

-----------------------------------------------------------------------------
(* The draft.                                                              *)

EditRule(i) ==
  /\ Rendered /\ i \in DOMAIN Shown
  /\ draft' = Shown[i] /\ editing' = i
  /\ UNCHANGED <<cam, fetched, query, stored, puts, meant, hasty, strayed>>

Emptied == draft' = Fresh /\ editing' = 0

(* saveConfig.isLoading: of the PUT sent last.                             *)
Saving == puts # <<>> /\ puts[Len(puts)] # Over

CancelEdit ==
  /\ Rendered /\ editing # 0 /\ ~Saving
  /\ Emptied
  /\ UNCHANGED <<cam, fetched, query, stored, puts, meant, hasty, strayed>>

(* The form and the picture, also while the draft is being saved.          *)
Redraw(x) ==
  /\ Rendered
  /\ draft' = [draft EXCEPT !.at = x]
  /\ UNCHANGED <<cam, fetched, query, stored, puts, editing, meant, hasty, strayed>>

-----------------------------------------------------------------------------
(* Changes.                                                                *)

(* Variant: the rules of this camera only.                                 *)
WithOnly(list) == [c \in Cameras |-> IF c = cam THEN list ELSE <<>>]

(* What is sent: what was fetched, but for the rules of this camera.       *)
With(list) == [fetched EXCEPT ![cam] = list]

Put(list, means, ofForm) ==
  /\ Len(puts) < MaxChanges /\ ~hasty
  /\ puts' = Append(puts, [step |-> "sent", conf |-> With(list), means |-> means, ofForm |-> ofForm])
  /\ hasty' = (hasty \/ (\E i \in DOMAIN puts : puts[i] # Over) \/ fetched # stored)
  /\ UNCHANGED <<cam, fetched, query, stored, form, meant>>

(* nextLines[index] = clean: beyond the end of the list it leaves holes.   *)
SetAt(list, i, rule) ==
  [j \in 1..(IF i > Len(list) THEN i ELSE Len(list)) |->
     IF j = i THEN rule ELSE IF j <= Len(list) THEN list[j] ELSE Hole]

SaveRule ==
  LET clean == IF draft.id = 0 THEN [draft EXCEPT !.id = -1 - Len(puts)] ELSE draft
      old   == {p \in meant : p[2].id = draft.id}
  IN  /\ Rendered /\ ~Saving /\ draft.at \in Savable
      /\ Put(IF editing = 0 THEN Append(Shown, clean) ELSE SetAt(Shown, editing, clean),
             (meant \ old) \cup {<<cam, clean>>}, TRUE)
      /\ UNCHANGED strayed

DeleteRule(i) ==
  /\ Rendered /\ i \in DOMAIN Shown
  /\ Put(SubSeq(Shown, 1, i - 1) \o SubSeq(Shown, i + 1, Len(Shown)),
         meant \ {<<cam, Shown[i]>>}, FALSE)
  /\ strayed' = (strayed \/ editing # 0)

(* The server replaces the configuration of the plugin.                    *)
Apply(i) ==
  /\ puts[i].step = "sent"
  /\ stored' = puts[i].conf /\ meant' = puts[i].means
  /\ puts' = [puts EXCEPT ![i].step = "applied"]
  /\ UNCHANGED <<cam, fetched, query, form, hasty, strayed>>

(* The answer: a refetch, and the form is emptied, whatever is in it now.  *)
Saved(i) ==
  /\ puts[i].step = "applied"
  /\ puts' = [puts EXCEPT ![i] = Over]
  /\ query' = Refetched
  /\ IF puts[i].ofForm THEN Emptied ELSE UNCHANGED form
  /\ UNCHANGED <<cam, fetched, stored, meant, hasty, strayed>>

(* saveError: the PUT was refused, or its answer was lost.                 *)
SaveFailed(i) ==
  /\ puts[i].step \in {"sent", "applied"}
  /\ puts' = [puts EXCEPT ![i] = Over]
  /\ UNCHANGED <<cam, fetched, query, stored, form, meant, hasty, strayed>>

Next ==
  \/ OpenPage \/ Refocus \/ Read \/ Fetched(TRUE) \/ Fetched(FALSE)
  \/ CancelEdit \/ SaveRule
  \/ \E c \in Cameras : SelectCamera(c)
  \/ \E x \in Contents : Redraw(x)
  \/ \E i \in DOMAIN Shown : EditRule(i) \/ DeleteRule(i)
  \/ \E i \in DOMAIN puts : Apply(i) \/ Saved(i) \/ SaveFailed(i)

Spec == Init /\ [][Next]_editor

-----------------------------------------------------------------------------
(* What is stored is what the operator means, of all cameras, as long as   *)
(* no change starts from an outdated list and the list does not change     *)
(* under the rule being edited: the whole configuration goes over the wire *)
(* for every rule (saveLine, deleteLine, saveZone, deleteZone).            *)
AsMeant == ~hasty /\ ~strayed => Pairs(stored) = meant

(* What the code does not do; each is refuted by a demonstration.          *)

(* The rule being edited stays the same when the list changes.             *)
AsMeantStrayed == ~hasty => Pairs(stored) = meant

(* No change of one page undoes another change of that page.               *)
AsMeantHasty == ~strayed => Pairs(stored) = meant
=============================================================================
