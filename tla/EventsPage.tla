----------------------------- MODULE EventsPage -----------------------------
(***************************************************************************)
(* The list of events (pages/Events.tsx, components/events/EventFilters    *)
(* .tsx, api/events.ts): the first page is a query that the window's focus *)
(* and the banner fetch again, "load more" is a plain request that appends *)
(* to what is listed, deletions and protections edit it in place.          *)
(* A row is known by its number, which grows as (start_time, id) does.     *)
(***************************************************************************)
EXTENDS Integers, FiniteSets, Sequences, Functions

CONSTANTS
  Filters,  \* what may be searched for: predicates on rows, as sets
  All,      \* the one without a condition
  Limit,    \* rows of a page, 50 in the code
  MaxRows,  \* bound: rows ever stored
  Precious, \* bound: rows that somebody protects
  OnMount   \* rows stored when the page is opened

PageSizes ==
  /\ Limit \in Nat \ {0} /\ MaxRows \in Nat /\ OnMount \in 0..MaxRows
  /\ All \in Filters /\ All = 1..MaxRows /\ Filters \subseteq SUBSET All

VARIABLES
  rows, newest,   \* the rows stored, the number of the last one
  safe,           \* those that are protected
  visited,        \* the page is mounted
  filter,         \* filters
  items, marked,  \* pages, flattened: the rows; those shown as protected
  cursor, hasMore, loadedAt,
  banner,         \* newCount > 0
  first,          \* the query of the filter: idle, asked, or its answer
  more,           \* loadMore: idle, asked with a filter and a cursor, answer
  doomed,         \* the deletion under way: 0, or a row
  raced           \* history: the list has been replaced under a loadMore, or
                  \* the other way round

requests == <<first, more, doomed>>
table    == <<items, marked, cursor, hasMore, loadedAt>>
server   == <<rows, newest, safe>>
vars     == <<server, visited, filter, table, banner, requests, raced>>

Idle  == [at |-> "idle"]
Asked == [at |-> "asked"]
None == 0

Init ==
  /\ rows = 1..OnMount /\ newest = OnMount /\ safe = {}
  /\ visited = FALSE /\ filter = All
  /\ items = <<>> /\ marked = {} /\ cursor = None /\ hasMore = FALSE
  /\ loadedAt = None /\ banner = FALSE
  /\ first = Idle /\ more = Idle /\ doomed = None
  /\ raced = FALSE

-----------------------------------------------------------------------------
(* The server: list_events.                                                *)

(* The n-th largest of a set of numbers.                                   *)
Nth(S, n) == CHOOSE r \in S : Cardinality({x \in S : x > r}) = n - 1

(* The n newest rows of S, or all of them, the newest first.               *)
Newest(S, n) ==
  [k \in 1..(IF Cardinality(S) < n THEN Cardinality(S) ELSE n) |-> Nth(S, k)]

(* Variant: the cursor is the row that was fetched beyond the page.        *)
NextAhead(S) == IF Cardinality(S) > Limit THEN Newest(S, Limit + 1)[Limit + 1] ELSE None

(* next_cursor: the last row of the page, if there is one beyond it.       *)
NextCursor(S) == IF Cardinality(S) > Limit THEN Newest(S, Limit)[Limit] ELSE None

(* The answer for filter f after cursor c.                                 *)
Answer(f, c) ==
  LET S == {r \in rows \cap f : c = None \/ r < c}
  IN  [at |-> "answer", rows |-> Newest(S, Limit), next |-> NextCursor(S),
       safe |-> safe \cap Range(Newest(S, Limit))]

-----------------------------------------------------------------------------
(* The first page.                                                         *)

(* A query that is under way is not sent twice.                            *)
Sent == first' = IF first = Idle THEN Asked ELSE first

Visit ==
  /\ ~visited /\ visited' = TRUE
  /\ Sent
  /\ UNCHANGED <<server, filter, table, banner, more, doomed, raced>>

(* The window gets the focus.                                              *)
Focus ==
  /\ visited /\ first = Idle /\ Sent
  /\ UNCHANGED <<server, visited, filter, table, banner, more, doomed, raced>>

(* handleRefresh: the banner.                                              *)
Refresh ==
  /\ banner /\ banner' = FALSE
  /\ Sent
  /\ UNCHANGED <<server, visited, filter, table, more, doomed, raced>>

(* handleApplyFilters: the list is emptied; the query has another key, and *)
(* nobody listens to what is under way, or the same, and it is not sent.   *)
Apply(f) ==
  /\ visited
  /\ filter' = f /\ items' = <<>> /\ marked' = {} /\ cursor' = None
  /\ first' = IF f = filter THEN first ELSE Asked
  /\ raced' = (raced \/ more # Idle)
  /\ UNCHANGED <<server, visited, hasMore, loadedAt, banner, more, doomed>>

Serve ==
  /\ first = Asked
  /\ first' \in {Answer(filter, None), Idle}
  /\ UNCHANGED <<server, visited, filter, table, banner, more, doomed, raced>>

(* onSuccess.                                                              *)
OnFirst ==
  /\ first.at = "answer"
  /\ first' = Idle
  /\ items' = first.rows /\ marked' = first.safe
  /\ cursor' = first.next /\ hasMore' = (first.next # None)
  /\ loadedAt' = (IF first.rows = <<>> THEN None ELSE first.rows[1])
  /\ banner' = FALSE
  /\ raced' = (more # Idle)
  /\ UNCHANGED <<server, visited, filter, more, doomed>>

-----------------------------------------------------------------------------
(* loadMore.                                                               *)

LoadMore ==
  /\ hasMore /\ cursor # None /\ more = Idle
  /\ more' = [at |-> "asked", filter |-> filter, cursor |-> cursor]
  /\ UNCHANGED <<server, visited, filter, table, banner, first, doomed, raced>>

(* The server answers, or the request fails.                               *)
ServeMore ==
  /\ more.at = "asked"
  /\ more' \in {Answer(more.filter, more.cursor), Idle}
  /\ UNCHANGED <<server, visited, filter, table, banner, first, doomed, raced>>

OnMore ==
  /\ more.at = "answer"
  /\ more' = Idle
  /\ items' = items \o more.rows /\ marked' = marked \cup more.safe
  /\ cursor' = more.next /\ hasMore' = (more.next # None)
  /\ UNCHANGED <<server, visited, filter, loadedAt, banner, first, doomed, raced>>

-----------------------------------------------------------------------------
(* What a list keeps, in its order, of the rows of T.                      *)
Filtered(list, T) ==
  LET kept == {i \in DOMAIN list : list[i] \in T}
  IN  [j \in 1..Cardinality(kept) |-> list[Nth(kept, Cardinality(kept) + 1 - j)]]

(* Rows: new ones, which the store of events announces, ...                *)

NewRow ==
  /\ newest < MaxRows
  /\ newest' = newest + 1 /\ rows' = rows \cup {newest'}
  /\ banner' = (banner \/ loadedAt # None)
  /\ UNCHANGED <<safe, visited, filter, table, requests, raced>>

(* ... deleteMut, one at a time and not of a row shown as protected, ...   *)
Delete(r) ==
  /\ doomed = None /\ r \in Range(items) \ marked
  /\ doomed' = r
  /\ UNCHANGED <<server, visited, filter, table, banner, first, more, raced>>

(* ... which the server refuses for a protected row, ...                   *)
Deleted ==
  /\ doomed # None
  /\ doomed' = None
  /\ IF doomed \in rows \ safe
     THEN rows' = rows \ {doomed} /\ items' = Filtered(items, All \ {doomed})
     ELSE UNCHANGED <<rows, items>>
  /\ UNCHANGED <<newest, safe, visited, filter, marked, cursor, hasMore, loadedAt, banner, first, more, raced>>

(* ... and protectMut and unprotectMut, by what the row is shown as.       *)
Protect(r) ==
  /\ r \in Range(items) \cap rows \cap Precious
  /\ safe' = IF r \in marked THEN safe \ {r} ELSE safe \cup {r}
  /\ marked' = IF r \in marked THEN marked \ {r} ELSE marked \cup {r}
  /\ UNCHANGED <<rows, newest, visited, filter, items, cursor, hasMore, loadedAt, banner, requests, raced>>

Next ==
  \/ Visit \/ Focus \/ Refresh \/ LoadMore \/ ServeMore \/ OnMore \/ Serve \/ OnFirst \/ NewRow \/ Deleted
  \/ \E f \in Filters : Apply(f)
  \/ \E r \in All : Delete(r) \/ Protect(r)

Spec == Init /\ [][Next]_vars

-----------------------------------------------------------------------------
(* Unless "load more" and a new list met, the list shows, each row once,   *)
(* every stored row that the filter asks for from its first row down to    *)
(* the cursor, under insertions, deletions and refreshes between the       *)
(* pages (the keyset cursor of list_events, onSuccess and loadMore).       *)
NoSkip ==
  ~raced =>
    /\ IsInjective(items)
    /\ \A r \in rows \cap filter :
         items # <<>> /\ r <= items[1] /\ (cursor # None => r >= cursor) => r \in Range(items)

-----------------------------------------------------------------------------
(* What the code does not do; each is refuted by a demonstration.          *)

(* The list has no holes and no strangers.                                 *)
OfFilter == Range(items) \subseteq filter

(* A search is answered: the list is not left empty with no request.       *)
Answered == visited /\ items = <<>> /\ first = Idle => rows \cap filter = {}
=============================================================================
