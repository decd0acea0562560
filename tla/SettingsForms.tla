--------------------------- MODULE SettingsForms ----------------------------
(***************************************************************************)
(* The forms of the settings (components/settings/{ServerForm, CameraForm, *)
(* UserManagement, SystemConfigPanel}.tsx) and the routes they call: a     *)
(* list that is fetched, a form filled from the list as it was, a PUT of   *)
(* the whole form.  The first three edit in a dialog, one row at a time;   *)
(* the last is one row, in a form that follows what is fetched.            *)
(* A row has a field that is shown and one, the passwords of ServerForm,   *)
(* that the list never carries.                                            *)
(***************************************************************************)
EXTENDS Integers, FiniteSets, Functions

CONSTANTS
  Ids,        \* rows, numbers from 1
  AtStart,    \* those stored when the panel is opened
  Values,     \* of a field; Blank is none of them
  MaxChanges  \* bound: changes of what is stored

Blank  == ""
Fields == {"shown", "hidden"}

Filled == DOMAIN AtStart \subseteq Ids /\ \A r \in DOMAIN AtStart : DOMAIN AtStart[r] = Fields

Nobody == 0
New    == -1

VARIABLES
  dialog,         \* the panel has dialogs: SystemConfigPanel has none
  stored,         \* the rows of the server
  listed, query,  \* the query's data; idle, asked, or the answer
  open, form,     \* editing: a row, New or Nobody; the form
  base, edited,   \* history: what the form was filled with, the fields typed in
  save, create,   \* updateMut, createMut: idle, asked, done or failed
  changes,
  meant, strayed  \* history: what the operators meant; rows where it was lost

dialogs == <<open, form, base, edited>>
writes  == <<save, create>>
history == <<meant, strayed>>
vars    == <<dialog, stored, listed, query, dialogs, writes, changes, history>>

Idle  == [at |-> "idle"]
Asked == [at |-> "asked"]
Unset == [f \in Fields |-> Blank]

(* A row as the list has it, and as openEdit fills the form.               *)
Show(row) == [row EXCEPT !.hidden = Blank]

Init ==
  /\ dialog \in BOOLEAN /\ (~dialog => DOMAIN AtStart # {})
  /\ stored = IF dialog THEN AtStart ELSE Restrict(AtStart, {CHOOSE r \in DOMAIN AtStart : TRUE})
  /\ listed = <<>> /\ query = Asked
  /\ open = Nobody /\ form = Unset /\ base = Unset /\ edited = {}
  /\ save = Idle /\ create = Idle
  /\ changes = 0
  /\ meant = stored /\ strayed = {}

-----------------------------------------------------------------------------
(* The list.                                                               *)

(* invalidateQueries, or the window's focus: a query under way is joined.  *)
Refetched == query' = IF query = Idle THEN Asked ELSE query

Focus ==
  /\ query = Idle /\ Refetched
  /\ UNCHANGED <<dialog, stored, listed, dialogs, writes, changes, history>>

Serve ==
  /\ query = Asked
  /\ query' \in {[at |-> "answer", rows |-> [r \in DOMAIN stored |-> Show(stored[r])]], Idle}
  /\ UNCHANGED <<dialog, stored, listed, dialogs, writes, changes, history>>

(* The data change: the form without a dialog is filled anew.              *)
OnList ==
  /\ query.at = "answer"
  /\ query' = Idle /\ listed' = query.rows
  /\ IF dialog \/ query.rows = listed THEN UNCHANGED dialogs
     ELSE \E r \in DOMAIN query.rows :
            open' = r /\ form' = query.rows[r] /\ base' = query.rows[r] /\ edited' = {}
  /\ UNCHANGED <<dialog, stored, writes, changes, history>>

-----------------------------------------------------------------------------
(* The dialog.                                                             *)

(* openEdit and openCreate.                                                *)
OpenEdit(r) ==
  /\ dialog /\ open = Nobody /\ r \in DOMAIN listed
  /\ open' = r /\ form' = listed[r] /\ base' = listed[r] /\ edited' = {}
  /\ UNCHANGED <<dialog, stored, listed, query, writes, changes, history>>

OpenCreate ==
  /\ dialog /\ open = Nobody
  /\ open' = New /\ form' = Unset /\ base' = Unset /\ edited' = {}
  /\ UNCHANGED <<dialog, stored, listed, query, writes, changes, history>>

(* What the form held is not looked at again.                              *)
Closed == open' = Nobody /\ form' = Unset /\ base' = Unset /\ edited' = {}

Close ==
  /\ dialog /\ open # Nobody /\ Closed
  /\ UNCHANGED <<dialog, stored, listed, query, writes, changes, history>>

(* Each field once.                                                        *)
Type(f, v) ==
  /\ open # Nobody /\ f \notin edited /\ form[f] # v
  /\ form' = [form EXCEPT ![f] = v] /\ edited' = edited \cup {f}
  /\ UNCHANGED <<dialog, stored, listed, query, open, base, writes, changes, history>>

(* handleSubmit, handleEdit: one update at a time.                         *)
Submit ==
  /\ open \in Ids /\ save = Idle
  /\ save' = [at |-> "asked", of |-> open, body |-> form, base |-> base, edited |-> edited]
  /\ UNCHANGED <<dialog, stored, listed, query, dialogs, create, changes, history>>

(* handleCreate, of the name that is typed.                                *)
SubmitNew(r) ==
  /\ open = New /\ create = Idle /\ form.hidden # Blank
  /\ create' = [at |-> "asked", of |-> r, body |-> form]
  /\ UNCHANGED <<dialog, stored, listed, query, dialogs, save, changes, history>>

-----------------------------------------------------------------------------
(* The server.                                                             *)

(* Variant: an empty field is stored.                                      *)
MergedWhole(row, body) == body

(* normalize sends null for an empty field, and a null is not stored.      *)
Merged(row, body) == [f \in Fields |-> IF body[f] = Blank THEN row[f] ELSE body[f]]

(* What was typed is meant; the rest of the form is what it was filled     *)
(* with.  It strays if the row has changed since, or a field was emptied.  *)
Update ==
  /\ save.at = "asked"
  /\ IF save.of \in DOMAIN stored /\ changes < MaxChanges
     THEN LET r == save.of IN
          /\ stored' = [stored EXCEPT ![r] = Merged(@, save.body)]
          /\ meant' = [meant EXCEPT ![r] = [f \in Fields |->
               IF f \in save.edited /\ save.body[f] # Blank THEN save.body[f] ELSE @[f]]]
          /\ strayed' = IF save.base = Show(stored[r]) THEN strayed ELSE strayed \cup {r}
          /\ changes' = changes + 1
          /\ save' = [at |-> "done", of |-> save.of]
     ELSE save' = [at |-> "failed", of |-> save.of] /\ UNCHANGED <<stored, changes, history>>
  /\ UNCHANGED <<dialog, listed, query, dialogs, create>>

Create ==
  /\ create.at = "asked"
  /\ IF create.of \notin DOMAIN stored /\ changes < MaxChanges
     THEN /\ stored' = [r \in DOMAIN stored \cup {create.of} |->
                          IF r = create.of THEN create.body ELSE stored[r]]
          /\ meant' = [r \in DOMAIN stored' |-> IF r = create.of THEN create.body ELSE meant[r]]
          /\ changes' = changes + 1 /\ create' = [at |-> "done"]
     ELSE create' = [at |-> "failed"] /\ UNCHANGED <<stored, changes, meant>>
  /\ UNCHANGED <<dialog, listed, query, dialogs, save, strayed>>

(* onSuccess of the two: the list is asked for and the dialog is closed,   *)
(* whichever it is by now; onError leaves it open.                         *)
Settled(w) ==
  /\ IF w.at = "done" /\ dialog THEN Closed ELSE UNCHANGED dialogs
  /\ IF w.at = "done" THEN Refetched ELSE UNCHANGED query
  /\ UNCHANGED <<dialog, stored, listed, changes, history>>

OnSaved   == save.at \in {"done", "failed"} /\ save' = Idle /\ Settled(save) /\ UNCHANGED create
OnCreated == create.at \in {"done", "failed"} /\ create' = Idle /\ Settled(create) /\ UNCHANGED save

(* confirmDelete, with the server's answer.                                *)
Delete(r) ==
  /\ dialog /\ open = Nobody /\ r \in DOMAIN listed \cap DOMAIN stored /\ changes < MaxChanges
  /\ stored' = Restrict(stored, DOMAIN stored \ {r})
  /\ meant' = Restrict(meant, DOMAIN stored \ {r})
  /\ strayed' = strayed \ {r}
  /\ changes' = changes + 1
  /\ Refetched
  /\ UNCHANGED <<dialog, listed, dialogs, writes>>

(* Another operator's edit.                                                *)
Elsewhere(r, v) ==
  /\ r \in DOMAIN stored /\ stored[r].shown # v /\ changes < MaxChanges
  /\ stored' = [stored EXCEPT ![r].shown = v]
  /\ meant' = [meant EXCEPT ![r].shown = v]
  /\ changes' = changes + 1
  /\ UNCHANGED <<dialog, listed, query, dialogs, writes, strayed>>

-----------------------------------------------------------------------------
User ==
  \/ \E r \in Ids : OpenEdit(r) \/ SubmitNew(r) \/ Delete(r) \/ \E v \in Values : Elsewhere(r, v)
  \/ \E f \in Fields, v \in Values \cup {Blank} : Type(f, v)
  \/ OpenCreate \/ Close \/ Submit \/ Focus

Next == User \/ Serve \/ OnList \/ Update \/ Create \/ OnSaved \/ OnCreated

Spec == Init /\ [][Next]_vars

-----------------------------------------------------------------------------
(* A row holds what the operators typed into it, and nothing else; what    *)
(* the form does not show is left as it was.  But a form filled before the *)
(* row changed puts the old value back, and a field cannot be emptied.     *)
AsMeant == \A r \in DOMAIN stored \ strayed : stored[r] = meant[r]

-----------------------------------------------------------------------------
(* What the code does not do; each is refuted by a demonstration.          *)

AlwaysAsMeant == stored = meant

(* A dialog is closed by its operator or by its own save.                  *)
EditsHeld == [][OnSaved /\ open # Nobody /\ open' = Nobody => save.of = open]_vars
=============================================================================
