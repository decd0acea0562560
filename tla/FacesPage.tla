----------------------------- MODULE FacesPage ------------------------------
(***************************************************************************)
(* The faces (pages/plugins/FaceRecognitionPage.tsx) with the routes of    *)
(* the plugin that it calls: those with a name, those without, the profile *)
(* of the one that is selected, and the forms that name, rename, add and   *)
(* delete.  A face is unknown as long as its name says so.  The search is  *)
(* a key of the first list, and is left out.                               *)
(***************************************************************************)
EXTENDS Integers, FiniteSets, Functions

CONSTANTS
  Faces,       \* numbers from 1, the latest highest
  AtStart,     \* the names of those there are
  People,      \* names that may be given, Unknown perhaps among them
  MaxChanges   \* bound: requests made

Numbered == Faces \subseteq Nat \ {0} /\ IsFiniteSet(Faces) /\ DOMAIN AtStart \subseteq Faces

Unknown == "unknown"
Empty   == ""
None    == 0

VARIABLES
  stored,              \* the name of each face
  known, unknown,      \* data of the two queries: id and name, and ids
  query,               \* the fetch of both: idle, asked, or the answer
  selected,            \* the face as it was listed, or NoFace
  appearances, tracing,  \* data, and the fetch, of the query for the selected name
  namingFace, nameDraft,
  calls, made,         \* identify, rename, register and delete under way; how many were
  behind               \* history: the lists are older than a change which did not ask
                       \* for them

shown   == <<known, unknown, query>>
profile == <<selected, appearances, tracing>>
dialog  == <<namingFace, nameDraft>>
vars    == <<stored, shown, profile, dialog, calls, made, behind>>

Idle   == [at |-> "idle"]
Asked  == [at |-> "asked"]
NoFace == [id |-> None, name |-> Empty]

Init ==
  /\ stored = AtStart
  /\ known = <<>> /\ unknown = {} /\ query = Asked
  /\ selected = NoFace /\ appearances = Empty /\ tracing = Idle
  /\ namingFace = None /\ nameDraft = Empty
  /\ calls = {} /\ made = 0
  /\ behind = TRUE

-----------------------------------------------------------------------------
(* The lists.                                                              *)

(* refresh: fetches under way are joined, whose answers may be older.      *)
Refetched ==
  /\ query' = IF query = Idle THEN Asked ELSE query
  /\ behind' = (query.at = "answer")

(* refetchInterval, or the window's focus.                                 *)
Focus ==
  /\ query = Idle /\ query' = Asked
  /\ UNCHANGED <<stored, known, unknown, profile, dialog, calls, made, behind>>

(* list_faces and list_unknowns.                                           *)
Serve ==
  /\ query = Asked
  /\ \/ /\ query' = [at |-> "answer",
                     known |-> Restrict(stored, {f \in DOMAIN stored : stored[f] # Unknown}),
                     unknown |-> {f \in DOMAIN stored : stored[f] = Unknown}]
        /\ behind' = FALSE
     \/ query' = Idle /\ behind' = TRUE
  /\ UNCHANGED <<stored, known, unknown, profile, dialog, calls, made>>

Latest(listed) ==
  IF DOMAIN listed = {} THEN NoFace
  ELSE LET f == CHOOSE g \in DOMAIN listed : \A h \in DOMAIN listed : h <= g
       IN  [id |-> f, name |-> listed[f]]

(* The selection's name is a key of the query of appearances.              *)
Chosen(face) ==
  /\ selected' = face
  /\ IF face.name = selected.name THEN UNCHANGED <<appearances, tracing>>
     ELSE /\ appearances' = Empty
          /\ tracing' = IF face = NoFace THEN Idle ELSE [at |-> "asked", of |-> face.name]

(* Variant: the selection is kept.                                         *)
KeptSelected(listed) == IF selected = NoFace THEN Latest(listed) ELSE selected

(* The effect on known: a selection that is not listed is replaced.        *)
Reselected(listed) == IF selected.id \in DOMAIN listed THEN selected ELSE Latest(listed)

OnLists ==
  /\ query.at = "answer" /\ query' = Idle
  /\ known' = query.known /\ unknown' = query.unknown
  /\ Chosen(Reselected(query.known))
  /\ UNCHANGED <<stored, dialog, calls, made, behind>>

Select(f) ==
  /\ f \in DOMAIN known /\ Chosen([id |-> f, name |-> known[f]])
  /\ UNCHANGED <<stored, shown, dialog, calls, made, behind>>

(* The answer for the name that is asked for, whoever has it by now.       *)
Traced ==
  /\ tracing # Idle /\ tracing' = Idle
  /\ appearances' \in {tracing.of, appearances}
  /\ UNCHANGED <<stored, shown, selected, dialog, calls, made, behind>>

-----------------------------------------------------------------------------
(* The forms.                                                              *)

OpenNaming(f) ==
  /\ namingFace = None /\ f \in unknown
  /\ namingFace' = f /\ nameDraft' = Empty
  /\ UNCHANGED <<stored, shown, profile, calls, made, behind>>

TypeName(p) ==
  /\ namingFace # None /\ nameDraft # p
  /\ nameDraft' = p
  /\ UNCHANGED <<stored, shown, profile, namingFace, calls, made, behind>>

CloseNaming ==
  /\ namingFace # None /\ namingFace' = None /\ nameDraft' = Empty
  /\ UNCHANGED <<stored, shown, profile, calls, made, behind>>

Send(op, f, p) ==
  /\ made < MaxChanges /\ made' = made + 1
  /\ calls' = calls \cup {[n |-> made, op |-> op, of |-> f, name |-> p, at |-> "asked"]}
  /\ UNCHANGED <<stored, shown, profile, dialog, behind>>

(* Each form is disabled while its request is under way.                   *)
Busy(op, f) == \E c \in calls : c.op = op /\ (op = "identify" \/ c.of = f)

Ask ==
  \/ /\ namingFace # None /\ nameDraft # Empty /\ ~Busy("identify", namingFace)
     /\ Send("identify", namingFace, nameDraft)
  \/ \E f \in DOMAIN known, p \in People : ~Busy("rename", f) /\ Send("rename", f, p)
  \/ \E f \in DOMAIN known \cup unknown : Send("delete", f, Empty)
  \/ \E f \in Faces \ DOMAIN stored, p \in People :
       (\A c \in calls : c.op # "register") /\ Send("register", f, p)

(* identify_face, rename_face, delete_face and register_face: a face that  *)
(* is gone is not found; a picture may show none.                          *)
Served(c) ==
  /\ c \in calls /\ c.at = "asked"
  /\ \/ /\ (c.of \in DOMAIN stored) <=> (c.op # "register")
        /\ calls' = (calls \ {c}) \cup {[c EXCEPT !.at = "done"]}
        /\ stored' = IF c.op = "delete" THEN Restrict(stored, DOMAIN stored \ {c.of})
                     ELSE [f \in DOMAIN stored \cup {c.of} |->
                             IF f = c.of THEN c.name ELSE stored[f]]
     \/ calls' = (calls \ {c}) \cup {[c EXCEPT !.at = "failed"]} /\ UNCHANGED stored
  /\ UNCHANGED <<shown, profile, dialog, made, behind>>

(* onSuccess: refresh, also of the appearances, and identify closes the    *)
(* dialog, whichever it is by now.                                         *)
Answered(c) ==
  /\ c \in calls /\ c.at # "asked" /\ calls' = calls \ {c}
  /\ IF c.at = "failed" THEN UNCHANGED <<query, behind, tracing, dialog>>
     ELSE /\ Refetched
          /\ tracing' = IF selected = NoFace \/ tracing # Idle THEN tracing
                        ELSE [at |-> "asked", of |-> selected.name]
          /\ IF c.op = "identify" THEN namingFace' = None /\ nameDraft' = Empty
             ELSE UNCHANGED dialog
  /\ UNCHANGED <<stored, known, unknown, selected, appearances, made>>

User ==
  \/ \E f \in Faces : Select(f) \/ OpenNaming(f)
  \/ \E p \in People : TypeName(p)
  \/ CloseNaming \/ Ask \/ Focus

Next ==
  \/ User \/ Serve \/ OnLists \/ Traced
  \/ \E c \in calls : Served(c) \/ Answered(c)

Spec == Init /\ [][Next]_vars

-----------------------------------------------------------------------------
(* Once nothing is under way the lists are those stored, each face in one  *)
(* of them, unless they were last asked for in vain.                       *)
Listed ==
  calls = {} /\ query = Idle /\ ~behind =>
    /\ \A f \in DOMAIN stored :
         IF stored[f] = Unknown THEN f \in unknown \ DOMAIN known
         ELSE f \in DOMAIN known \ unknown /\ known[f] = stored[f]
    /\ DOMAIN known \cup unknown = DOMAIN stored

(* The profile is of a face that is listed, with the appearances of the    *)
(* name it is shown with and of no other.                                  *)
ProfileListed ==
  /\ selected = NoFace <=> DOMAIN known = {}
  /\ selected # NoFace => selected.id \in DOMAIN known
  /\ appearances \in {Empty, selected.name}

-----------------------------------------------------------------------------
(* What the code does not do; each is refuted by a demonstration.          *)

(* The profile has the name that its face has in the list.                 *)
ProfileNamed == selected # NoFace => selected.name = known[selected.id]

(* A dialog is closed by its operator or by its own request.               *)
NamingHeld ==
  [][\A c \in calls : Answered(c) /\ namingFace # namingFace' => c.of = namingFace]_vars
=============================================================================
