------------------------- MODULE NotificationRules --------------------------
(***************************************************************************)
(* The rules of the notifications (pages/plugins/NotificationsPage.tsx):   *)
(* the list as last fetched, a form for a new rule or for the one at an    *)
(* index, and a PUT of the whole list for every change.  What the rules do *)
(* is the plugin's.                                                        *)
(*                                                                         *)
(* A rule is [id, at]: at stands for its contents; id tells the rules      *)
(* apart in the properties only; it is negative in a rule of this visit.   *)
(***************************************************************************)
EXTENDS Integers, Sequences, Functions

CONSTANTS
  AtStart,   \* the rules stored when the page is opened
  Contents,  \* of a rule with a name
  MaxPuts,   \* bound: changes sent, none after a hasty one
  MaxEdits   \* bound: edits made elsewhere

NoName == "nameless"
New    == 0
None   == -1

Marks == {AtStart[i].at : i \in DOMAIN AtStart} \cup Contents \cup {NoName}

ToldApart ==
  /\ AtStart \in Seq([id : Nat \ {0}, at : Marks])
  /\ \A i, j \in DOMAIN AtStart : AtStart[i].id = AtStart[j].id => i = j

VARIABLES
  stored,        \* the rules of the server
  rules, query,  \* the query's data, <<>> before there are any; idle, asked, or the answer
  editing,       \* editingIndex, New where isAdding, None where no form is shown
  formRule,
  puts, sent,    \* saveMut: requests under way; how many were sent
  edits,
  meant,         \* history: the rules as the operators mean them
  behind,        \* history: the list is older than a change which did not ask for it
  hasty          \* history: a change was made to a list that was not what is stored

form    == <<editing, formRule>>
history == <<meant, behind, hasty>>
vars    == <<stored, rules, query, form, puts, sent, edits, history>>

Idle    == [at |-> "idle"]
Asked   == [at |-> "asked"]
Nothing == [id |-> 0, at |-> NoName]

Init ==
  /\ stored = AtStart
  /\ rules = <<>> /\ query = Asked
  /\ editing = None /\ formRule = Nothing
  /\ puts = {} /\ sent = 0 /\ edits = 0
  /\ meant = Range(AtStart) /\ behind = TRUE /\ hasty = FALSE

-----------------------------------------------------------------------------
(* The query.                                                              *)

(* invalidateQueries: a fetch under way is joined.                         *)
Refetched ==
  /\ query' = IF query = Idle THEN Asked ELSE query
  /\ behind' = (behind \/ query.at = "answer")

Focus ==
  /\ query = Idle /\ query' = Asked
  /\ UNCHANGED <<stored, rules, form, puts, sent, edits, history>>

Serve ==
  /\ query = Asked
  /\ \/ query' = [at |-> "answer", rules |-> stored] /\ behind' = FALSE
     \/ query' = Idle /\ behind' = TRUE
  /\ UNCHANGED <<stored, rules, form, puts, sent, edits, meant, hasty>>

OnRules ==
  /\ query.at = "answer" /\ query' = Idle
  /\ rules' = query.rules
  /\ UNCHANGED <<stored, form, puts, sent, edits, history>>

-----------------------------------------------------------------------------
(* The form.                                                               *)

StartAdd ==
  /\ editing # New
  /\ editing' = New /\ formRule' = Nothing
  /\ UNCHANGED <<stored, rules, query, puts, sent, edits, history>>

StartEdit(i) ==
  /\ i \in DOMAIN rules
  /\ editing' = i /\ formRule' = rules[i]
  /\ UNCHANGED <<stored, rules, query, puts, sent, edits, history>>

(* What the form held is not looked at again.                              *)
Cancelled == editing' = None /\ formRule' = Nothing

CancelForm ==
  /\ editing # None /\ Cancelled
  /\ UNCHANGED <<stored, rules, query, puts, sent, edits, history>>

Type(v) ==
  /\ editing # None /\ formRule.at # v
  /\ formRule' = [formRule EXCEPT !.at = v]
  /\ UNCHANGED <<stored, rules, query, editing, puts, sent, edits, history>>

-----------------------------------------------------------------------------
(* Changes.                                                                *)

(* saveMut.isLoading, of the latest call.                                  *)
Saving == \E x \in puts : x.n = sent

(* The page takes its list for what is stored.                             *)
Send(list, means, ofForm) ==
  /\ sent < MaxPuts /\ ~hasty /\ sent' = sent + 1
  /\ puts' = puts \cup {[n |-> sent + 1, at |-> "asked", rules |-> list, means |-> means,
                         ofForm |-> ofForm]}
  /\ hasty' = (hasty \/ puts # {} \/ query # Idle \/ behind \/ (ofForm /\ editing > 0 /\
                 (editing \notin DOMAIN rules \/ rules[editing].id # formRule.id)))
  /\ UNCHANGED <<stored, rules, query, form, edits, meant, behind>>

(* newRules[editingIndex] = formRule: beyond the end it leaves nulls.      *)
SetAt(list, i, rule) ==
  [j \in 1..(IF i > Len(list) THEN i ELSE Len(list)) |->
     IF j = i THEN rule ELSE IF j <= Len(list) THEN list[j] ELSE Nothing]

(* Variant: an edited rule is added.                                       *)
EditedAdds(list, rule) == Append(list, rule)

Edited(list, rule) == IF editing = New THEN Append(list, rule) ELSE SetAt(list, editing, rule)

SaveRule ==
  LET rule == IF editing = New THEN [formRule EXCEPT !.id = -1 - sent] ELSE formRule IN
  /\ editing # None /\ ~Saving /\ formRule.at # NoName
  /\ Send(Edited(rules, rule), {r \in meant : r.id # rule.id} \cup {rule}, TRUE)

DeleteRule(i) ==
  /\ i \in DOMAIN rules
  /\ Send(SubSeq(rules, 1, i - 1) \o SubSeq(rules, i + 1, Len(rules)), meant \ {rules[i]}, FALSE)

(* update_plugin_config replaces the rules; the request or its answer may  *)
(* be lost.                                                                *)
Put(x) ==
  /\ x \in puts /\ x.at = "asked"
  /\ \/ /\ stored' = x.rules /\ meant' = x.means
        /\ \/ puts' = (puts \ {x}) \cup {[x EXCEPT !.at = "done"]} /\ UNCHANGED behind
           \/ puts' = puts \ {x} /\ behind' = TRUE
     \/ puts' = puts \ {x} /\ UNCHANGED <<stored, meant, behind>>
  /\ UNCHANGED <<rules, query, form, sent, edits, hasty>>

(* The mutation's onSuccess, and that of its latest call: cancelForm.      *)
OnPut(x) ==
  /\ x \in puts /\ x.at = "done" /\ puts' = puts \ {x}
  /\ Refetched
  /\ IF x.ofForm /\ x.n = sent THEN Cancelled ELSE UNCHANGED form
  /\ UNCHANGED <<stored, rules, sent, edits, meant, hasty>>

(* Another window changes a rule.                                          *)
Elsewhere(i, v) ==
  /\ edits < MaxEdits /\ i \in DOMAIN stored /\ stored[i].at # v
  /\ edits' = edits + 1
  /\ stored' = [stored EXCEPT ![i].at = v]
  /\ meant' = (meant \ {stored[i]}) \cup {stored'[i]}
  /\ behind' = TRUE /\ hasty' = (hasty \/ puts # {})
  /\ UNCHANGED <<rules, query, form, puts, sent>>

User ==
  \/ StartAdd \/ CancelForm \/ SaveRule \/ Focus
  \/ \E i \in DOMAIN rules : StartEdit(i) \/ DeleteRule(i)
  \/ \E v \in Contents : Type(v)

Next ==
  \/ User \/ Serve \/ OnRules
  \/ \E x \in puts : Put(x) \/ OnPut(x)
  \/ \E i \in DOMAIN stored, v \in Contents : Elsewhere(i, v)

Spec == Init /\ [][Next]_vars

-----------------------------------------------------------------------------
(* What is stored is what the operators mean, as long as each change is    *)
(* made when the one before has been answered and fetched, and none moved  *)
(* the rule that is being edited (saveRule, deleteRule).                   *)
AsMeant == ~hasty => Range(stored) = meant

(* Once nothing is under way the list is the one stored, unless it was     *)
(* last asked for in vain or changed elsewhere since.                      *)
Listed == puts = {} /\ query = Idle /\ ~behind => rules = stored

-----------------------------------------------------------------------------
(* What the code does not do; refuted by a demonstration: a rule added     *)
(* before the list has come is stored alone.                               *)

AlwaysAsMeant == Range(stored) = meant
=============================================================================
