---------------------------- MODULE PluginPages -----------------------------
(***************************************************************************)
(* The pages that list what an analytic has found (pages/plugins/          *)
(* {AbandonedObject, Epp, FallDetection, Ocr, LprAdvanced, SmokeFire}Page  *)
(* .tsx).  Each has selects, a query of the first page for what they say,  *)
(* and a "load more" that appends; the first of them drops rows that are   *)
(* not its own as they come, and the last has a query that merges two.     *)
(* The tiles above the list, and the text that a page searches the listed  *)
(* rows for, change nothing and are left out.                              *)
(***************************************************************************)
EXTENDS Integers, FiniteSets, Sequences, Functions

CONSTANTS
  MaxRows,  \* bound: rows ever stored; they are numbered as they come
  Row,      \* a row's label and camera
  Cameras,
  Limit     \* rows of a page, 50 in the code; half as many of each label, merged

Stored == 1..MaxRows

Sizes == MaxRows \in Nat /\ Limit \in Nat \ {0}

VARIABLES
  newest,          \* the rows stored are 1..newest
  page, choice,    \* the page, what its selects say
  items, cursor, hasMore,
  first,           \* the query of one request: idle, asked, or the answer
  both,            \* the query that merges: idle, or what its requests have got
  more,            \* loadMore
  raced            \* history: two answers for different lists met

requests == <<first, both, more>>
table    == <<items, cursor, hasMore>>
vars     == <<newest, page, choice, table, requests, raced>>

Idle  == [at |-> "idle"]
Asked == [at |-> "asked"]
Gone  == 0

-----------------------------------------------------------------------------
(* What can be chosen on each page: the requests it makes, as sets of      *)
(* rows, and the rows it keeps of the answer.                              *)

OfCamera == {{r \in Stored : Row[r].camera = c} : c \in Cameras} \cup {Stored}
Labelled(label) == {r \in Stored : Row[r].label = label}

Single(label) == {[asks |-> {Labelled(label) \cap c}, keeps |-> Stored] : c \in OfCamera}

AbandonedObjectPage == {[asks |-> {c}, keeps |-> Labelled("abandoned_object")] : c \in OfCamera}
EppPage             == Single("epp_violation")
FallDetectionPage   == Single("fall_detected")
OcrPage             == Single("ocr_match")
LprAdvancedPage     == Single("lpr_advanced") \cup Single("blacklisted_plate")
SmokeFirePage ==
  Single("fire_detected") \cup Single("smoke_detected") \cup
  {[asks |-> {Labelled("fire_detected") \cap c, Labelled("smoke_detected") \cap c},
    keeps |-> Stored] : c \in OfCamera}

Pages == {AbandonedObjectPage, EppPage, FallDetectionPage, OcrPage, LprAdvancedPage, SmokeFirePage}

Merges(ch) == Cardinality(ch.asks) > 1
Ask(ch)    == CHOOSE S \in ch.asks : TRUE

Merging(ch) == [at |-> "asked", asks |-> ch.asks, got |-> {}]

Init ==
  /\ newest \in 0..MaxRows
  /\ page \in Pages
  /\ choice \in {ch \in page : UNION ch.asks = UNION UNION {c.asks : c \in page}}
  /\ items = <<>> /\ cursor = Gone /\ hasMore = FALSE
  /\ first = IF Merges(choice) THEN Idle ELSE Asked
  /\ both = IF Merges(choice) THEN Merging(choice) ELSE Idle
  /\ more = Idle
  /\ raced = FALSE

-----------------------------------------------------------------------------
(* The n-th largest of a set of numbers.                                   *)
Nth(S, n) == CHOOSE r \in S : Cardinality({x \in S : x > r}) = n - 1

(* The n newest rows of S, or all of them, the newest first.               *)
Newest(S, n) ==
  [k \in 1..(IF Cardinality(S) < n THEN Cardinality(S) ELSE n) |-> Nth(S, k)]

(* list_events: the answer for the rows of S.                              *)
Answer(S, c) ==
  LET T == {r \in S \cap (1..newest) : c = Gone \/ r < c}
  IN  [at |-> "answer", rows |-> Newest(T, Limit),
       next |-> IF Cardinality(T) > Limit THEN Newest(T, Limit)[Limit] ELSE Gone]

(* What a list keeps, in its order, of the rows of T.                      *)
Filtered(list, T) ==
  LET kept == {i \in DOMAIN list : list[i] \in T}
  IN  [j \in 1..Cardinality(kept) |-> list[Nth(kept, Cardinality(kept) + 1 - j)]]

Kept(rows) == Filtered(rows, choice.keeps)

-----------------------------------------------------------------------------
(* A select is changed: the list is emptied and the query has another key. *)
(* The page's other query is disabled, and still listened to; it keeps its *)
(* key, the camera, when only the label is chosen anew.                    *)
Choose(ch) ==
  /\ ch \in page \ {choice}
  /\ choice' = ch
  /\ items' = <<>> /\ cursor' = Gone
  /\ first' = IF Merges(ch) THEN Idle ELSE Asked
  /\ both' = IF both # Idle /\ ch.asks \subseteq both.asks THEN both
             ELSE IF Merges(ch) THEN Merging(ch) ELSE Idle
  /\ raced' = (raced \/ more # Idle \/ (both' # Idle /\ ~Merges(ch)))
  /\ UNCHANGED <<newest, page, hasMore, more>>

(* The window gets the focus: the query that is enabled is sent again.     *)
Focus ==
  /\ first = Idle /\ both = Idle
  /\ first' = IF Merges(choice) THEN Idle ELSE Asked
  /\ both' = IF Merges(choice) THEN Merging(choice) ELSE Idle
  /\ UNCHANGED <<newest, page, choice, table, more, raced>>

(* The server answers, or the request has failed for good.                 *)
Serve ==
  /\ first = Asked
  /\ first' \in {Answer(Ask(choice), Gone), Idle}
  /\ UNCHANGED <<newest, page, choice, table, both, more, raced>>

OnFirst ==
  /\ first.at = "answer"
  /\ first' = Idle
  /\ items' = Kept(first.rows) /\ cursor' = first.next /\ hasMore' = (first.next # Gone)
  /\ raced' = (both # Idle \/ more # Idle)
  /\ UNCHANGED <<newest, page, choice, both, more>>

(* Each of the two requests is answered in its turn, ...                   *)
ServeHalf(S) ==
  /\ both # Idle /\ S \in both.asks /\ \A g \in both.got : g.of # S
  /\ both' \in {[both EXCEPT !.got = @ \cup
                   {[of |-> S, rows |-> Range(Newest(S \cap (1..newest), Limit \div 2))]}], Idle}
  /\ UNCHANGED <<newest, page, choice, table, first, more, raced>>

(* ... and the answers are merged, latest first; there is no more.         *)
OnBoth ==
  /\ both # Idle /\ Cardinality(both.got) = 2
  /\ both' = Idle
  /\ items' = Newest(UNION {g.rows : g \in both.got}, Limit)
  /\ cursor' = Gone /\ hasMore' = FALSE
  /\ raced' = (more # Idle \/ ~Merges(choice))
  /\ UNCHANGED <<newest, page, choice, first, more>>

(* loadMore, with the choice and the cursor of the click.                  *)
LoadMore ==
  /\ hasMore /\ cursor # Gone /\ more = Idle /\ ~Merges(choice)
  /\ more' = [at |-> "asked", of |-> Ask(choice), cursor |-> cursor]
  /\ UNCHANGED <<newest, page, choice, table, first, both, raced>>

ServeMore ==
  /\ more.at = "asked"
  /\ more' \in {Answer(more.of, more.cursor), Idle}
  /\ UNCHANGED <<newest, page, choice, table, first, both, raced>>

(* Variant: the cursor is left as it is.                                   *)
OnMoreStands ==
  /\ more.at = "answer"
  /\ more' = Idle
  /\ items' = items \o Kept(more.rows) /\ hasMore' = (more.next # Gone)
  /\ UNCHANGED <<newest, page, choice, cursor, first, both, raced>>

OnMore ==
  /\ more.at = "answer"
  /\ more' = Idle
  /\ items' = items \o Kept(more.rows) /\ cursor' = more.next /\ hasMore' = (more.next # Gone)
  /\ UNCHANGED <<newest, page, choice, first, both, raced>>

NewRow ==
  /\ newest < MaxRows /\ newest' = newest + 1
  /\ UNCHANGED <<page, choice, table, requests, raced>>

Next ==
  \/ Focus \/ Serve \/ OnFirst \/ OnBoth \/ LoadMore \/ ServeMore \/ OnMore \/ NewRow
  \/ \E ch \in page : Choose(ch)
  \/ \E S \in UNION {c.asks : c \in page} : ServeHalf(S)

Spec == Init /\ [][Next]_vars

-----------------------------------------------------------------------------
(* Unless answers for two lists met, the list shows, each row once, every  *)
(* stored row of what was asked for that the page keeps, from the latest   *)
(* that it lists down to the cursor, or, merged, to the earliest of the    *)
(* label (onSuccess, loadMore and the selects of each page).               *)
NoSkip ==
  ~raced =>
    /\ IsInjective(items)
    /\ \A S \in choice.asks : \A r \in S \cap choice.keeps \cap (1..newest) :
         LET listed == Range(items) \cap S IN
         (/\ \E x \in listed : r <= x
          /\ IF Merges(choice) THEN \E x \in listed : r >= x ELSE r >= cursor) => r \in listed

-----------------------------------------------------------------------------
(* What the code does not do; each is refuted by a demonstration.          *)

(* The rows listed are of what is chosen.                                  *)
OfChoice == Range(items) \subseteq UNION choice.asks

(* A list with nothing more to load goes back to the first row.            *)
Reaches ==
  items # <<>> /\ ~hasMore /\ more = Idle => \A r \in (UNION choice.asks) \cap choice.keeps :
    r < items[1] => r \in Range(items)
=============================================================================
