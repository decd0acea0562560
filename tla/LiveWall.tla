------------------------------ MODULE LiveWall ------------------------------
(***************************************************************************)
(* The live view (pages/LiveView.tsx) and the store of camera states       *)
(* (store/cameraStore.ts): a wall of tiles, each an iframe with a player,  *)
(* and one maximized view.  A tile and the maximized view of one camera    *)
(* are two LiveStream components that read and write one entry of the      *)
(* store.  An iframe is what StreamPlayer promises, less the wording: it   *)
(* is blank, shows the mode it plays in, or shows frames too.              *)
(***************************************************************************)
EXTENDS Integers, Sequences, FiniteSets, SequencesExt

CONSTANTS
  Cameras,
  Audio,      \* those that have audio
  Layouts,    \* how many tiles a layout has
  Default,    \* the layout where localStorage has none
  Batch,      \* tiles mounted at once; the others wait for a timer
  MaxTimers,  \* bound: closing timers under way
  Listings,   \* the answers: lists of cameras in the order of the server
  None

ASSUME Sizes ==
  /\ Layouts \subseteq Nat \ {0} /\ Default \in Layouts /\ Batch \in Nat /\ MaxTimers \in Nat
  /\ Audio \subseteq Cameras /\ \A l \in Listings : l \in Seq(Cameras)
  /\ IsFiniteSet(Cameras) /\ None \notin Cameras \union {"connecting", "online", "offline"}

VARIABLES
  listed,   \* the cameras of the last answer, in the order of the server
  known,    \* the servers have been loaded
  order,    \* cameraOrder
  stored,   \* cameraOrder in localStorage
  layout,   \* layout.max
  status,   \* cameraStatuses: connecting, online, offline, None
  count,    \* onlineCount
  stream,   \* the LiveStream components: <<camera, mode>> to its state
  big,      \* maximizedCamera
  timers,   \* timers of closeMaximized
  primed,   \* audioPrimedCameraIds
  here,     \* the route is /live
  closedBig \* history: cameras whose maximized view went, until their tile
            \* speaks again

wall  == <<listed, known, order, stored, layout>>
store == <<status, count>>
view  == <<big, timers, primed, here>>
core  == <<wall, store, stream, view>>
vars  == <<core, closedBig>>

Tile(c) == <<c, "tile">>
Big(c)  == <<c, "big">>
Streams == Cameras \X {"tile", "big"}

States == {"connecting", "online", "offline"}
Faces  == {"blank", "mode", "frames"}

\* A component that is not there.
Off == [state |-> None, mounted |-> FALSE, watch |-> "none", face |-> "blank"]

Orders == {s \in SeqOf(Cameras, Cardinality(Cameras)) : IsInjective(s)}

Init ==
  /\ listed = <<>> /\ known = FALSE
  /\ order = <<>> /\ stored = <<>>
  /\ layout = Default
  /\ status = [c \in Cameras |-> None] /\ count = 0
  /\ stream = [x \in Streams |-> Off]
  /\ big = None /\ timers = 0 /\ primed = {}
  /\ here = FALSE
  /\ closedBig = {}

-----------------------------------------------------------------------------
(* The store.  Each operator gives the state <<status, count>> after it.   *)

Online(st) == Cardinality({c \in Cameras : st[c] = "online"})

(* setCameraStatus, then updateOnlineCount unless it connects.             *)
SetStatus(st, n, c, v) ==
  LET next == [st EXCEPT ![c] = v] IN
  <<next, IF v # "connecting" THEN Online(next)
          ELSE IF st[c] = "online" THEN (IF n > 0 THEN n - 1 ELSE 0) ELSE n>>

(* Variant: the entries go, the count stays.                               *)
ClearOnly(st, n, C) == <<[c \in Cameras |-> IF c \in C THEN None ELSE st[c]], n>>

(* clearCameraStatus, of each camera of C.                                 *)
ClearStatus(st, n, C) ==
  LET seen == Cardinality({c \in C : st[c] = "online"})
  IN  <<[c \in Cameras |-> IF c \in C THEN None ELSE st[c]],
        IF n > seen THEN n - seen ELSE 0>>

-----------------------------------------------------------------------------
(* LiveStream.  A state change of one component reaches the other one of   *)
(* its camera through the store.                                           *)

Iframe(st) == st.mounted /\ known

(* A component after the entry of its camera went from was to v: "online"   *)
(* is taken over, and it begins to watch its iframe, if that is there, once *)
(* both it and the entry say "online".                                      *)
Told(s, was, v) ==
  IF s = Off THEN s
  ELSE IF v # "online" THEN [s EXCEPT !.watch = "none"]
  ELSE IF was = "online" /\ s.state = "online" THEN s
  ELSE [s EXCEPT !.state = "online", !.watch = IF Iframe(s) THEN "live" ELSE "none"]

Heard(S, c, was, v) ==
  [x \in Streams |-> IF x[1] = c THEN Told(S[x], was, v) ELSE S[x]]

(* Component x goes to state v.                                            *)
Become(S, x, v, face) ==
  LET after == SetStatus(status, count, x[1], v) IN
  /\ status' = after[1] /\ count' = after[2]
  /\ stream' = [Heard(S, x[1], status[x[1]], v) EXCEPT
       ![x] = [@ EXCEPT !.state = v, !.face = face,
         !.watch = IF v = "online" /\ S[x].state # v /\ Iframe(S[x]) THEN "live" ELSE "none"]]

(* monitor: the iframe shows that it plays.                                *)
Monitor(x) ==
  /\ stream[x].state = "connecting" /\ Iframe(stream[x])
  /\ stream[x].face # "blank"
  /\ Become(stream, x, "online", stream[x].face)
  /\ UNCHANGED <<wall, view>>

(* monitor gives up.                                                       *)
GiveUp(x) ==
  /\ stream[x].state = "connecting" /\ stream[x].mounted
  /\ Iframe(stream[x]) => stream[x].face = "blank"
  /\ Become(stream, x, "offline", stream[x].face)
  /\ UNCHANGED <<wall, view>>

(* Variant: there is no timer for a stream that is offline.                *)
RetryNever(x) ==
  /\ stream[x].state = "offline" /\ stream[x].face # "blank"
  /\ Become(stream, x, "connecting", "blank")
  /\ UNCHANGED <<wall, view>>

(* The timer of a stream that is offline: the next attempt has a new key,  *)
(* and so a new iframe.                                                    *)
Retry(x) ==
  /\ stream[x].state = "offline"
  /\ Become(stream, x, "connecting", "blank")
  /\ UNCHANGED <<wall, view>>

(* The check of a stream that is online and watched: no frames, or an      *)
(* iframe that was replaced since.                                         *)
Check(x) ==
  /\ stream[x].watch = "gone" \/ (stream[x].watch = "live" /\ stream[x].face # "frames")
  /\ Become(stream, x, "connecting", stream[x].face)
  /\ UNCHANGED <<wall, view>>

(* The timer of a tile beyond the first ones: its iframe appears.          *)
Mount(x) ==
  /\ stream[x] # Off /\ ~stream[x].mounted
  /\ stream' = [stream EXCEPT ![x].mounted = TRUE]
  /\ UNCHANGED <<wall, store, view>>

(* The player in an iframe.                                                *)
Play(x) ==
  /\ Iframe(stream[x]) /\ stream[x].face # "frames"
  /\ stream' = [stream EXCEPT ![x].face = IF @ = "blank" THEN "mode" ELSE "frames"]
  /\ UNCHANGED <<wall, store, view>>

Reconnects(x) ==
  /\ stream[x].face # "blank"
  /\ stream' = [stream EXCEPT ![x].face = "blank"]
  /\ UNCHANGED <<wall, store, view>>

-----------------------------------------------------------------------------
(* Components come and go.                                                 *)

(* The first state of a component: what the store says of its camera.      *)
First(st, c) == IF st[c] \in {"online", "offline"} THEN st[c] ELSE "connecting"

Begin(st, c, mounted) ==
  [state |-> First(st, c), mounted |-> mounted, face |-> "blank",
   watch |-> IF First(st, c) = "online" /\ mounted /\ known THEN "live" ELSE "none"]

World == <<status, count, stream>>

Goes(world) == status' = world[1] /\ count' = world[2] /\ stream' = world[3]

(* The store and the components after it, once those of X went ...         *)
Unmount(world, X) ==
  LET C == {x[1] : x \in X}
      p == ClearStatus(world[1], world[2], C)
  IN  <<p[1], p[2],
        [x \in Streams |->
           IF x \in X THEN Off
           ELSE IF x[1] \in C THEN Told(world[3][x], world[1][x[1]], None)
           ELSE world[3][x]]>>

(* Variant: a component says nothing until its state changes.              *)
AppearSilent(world, X, ready) ==
  <<world[1], world[2],
    [x \in Streams |-> IF x \in X THEN Begin(world[1], x[1], x \in ready) ELSE world[3][x]]>>

(* ... and once those of X, one of each camera, appeared, some of them with *)
(* their iframe.  Each sets the entry of its camera; one that does not      *)
(* begin as "connecting" has the cameras counted anew.                      *)
Appear(world, X, ready) ==
  LET C == {x[1] : x \in X}
      st == [c \in Cameras |-> IF c \in C THEN First(world[1], c) ELSE world[1][c]]
  IN  <<st,
        IF \A c \in C : st[c] = "connecting" THEN world[2] ELSE Online(st),
        [x \in Streams |->
           IF x \in X THEN Begin(world[1], x[1], x \in ready)
           ELSE IF x[1] \in C THEN Told(world[3][x], world[1][x[1]], st[x[1]])
           ELSE world[3][x]]>>

(* The tiles of a wall: the first cameras of the order.                    *)
Shown(o, n) == SubSeq(o, 1, IF Len(o) < n THEN Len(o) ELSE n)

OnWall(o, n) == {c \in Cameras : Contains(Shown(o, n), c)}

(* The wall shows the first n cameras of o: the effects of components that *)
(* are no longer there are cleaned up before those of new ones run.        *)
Render(o, n) ==
  LET old == {c \in OnWall(order, layout) : stream[Tile(c)] # Off}
      new == OnWall(o, n)
      swept == Unmount(World, {Tile(c) : c \in old \ new})
  IN  Goes(Appear(swept, {Tile(c) : c \in new \ old}, {Tile(c) : c \in OnWall(o, Batch)}))

(* The order after an answer: what is kept of it, or of localStorage, then *)
(* the rest.                                                               *)
Merged(l) ==
  LET base == IF order # <<>> THEN order ELSE stored
      kept == SelectSeq(base, LAMBDA c : Contains(l, c))
  IN  kept \o SelectSeq(l, LAMBDA c : ~Contains(kept, c))

(* An answer to the query for the cameras.                                 *)
Refetch(l) ==
  /\ here
  /\ listed' = l /\ order' = Merged(l)
  /\ stored' = IF order' # <<>> THEN order' ELSE stored
  /\ Render(order', layout)
  /\ UNCHANGED <<known, layout, view>>

(* The answer to the query for the servers: the iframes appear.            *)
LoadServers ==
  /\ here /\ ~known
  /\ known' = TRUE
  /\ UNCHANGED <<listed, order, stored, layout, store, stream, view>>

SetLayout(n) ==
  /\ here /\ n # layout
  /\ layout' = n
  /\ Render(order, n)
  /\ UNCHANGED <<listed, known, order, stored, view>>

Position(o, c) == CHOOSE i \in DOMAIN o : o[i] = c

Moved(o, c, d) == InsertAt(RemoveAt(o, Position(o, c)), Position(o, d), c)

(* moveCamera: tile c is dragged over tile d.                              *)
Drag(c, d) ==
  /\ here /\ c # d /\ {c, d} \subseteq Range(Shown(order, layout))
  /\ order' = Moved(order, c, d) /\ stored' = order'
  /\ Render(order', layout)
  /\ UNCHANGED <<listed, known, layout, view>>

(* selectCamera: with audio its players get another address, and so a new  *)
(* iframe; what watched the old one goes on doing so.                      *)
Primes(S, c) ==
  IF c \in Audio \ primed
  THEN [x \in Streams |-> IF x[1] = c /\ S[x] # Off
          THEN [S[x] EXCEPT !.face = "blank", !.watch = IF @ = "none" THEN @ ELSE "gone"]
          ELSE S[x]]
  ELSE S

Select(c) ==
  /\ here /\ stream[Tile(c)] # Off /\ c \in Audio \ primed
  /\ stream' = Primes(stream, c) /\ primed' = primed \union {c}
  /\ UNCHANGED <<wall, store, big, timers, here>>

(* openMaximized.                                                          *)
Open(c) ==
  /\ here /\ big = None /\ stream[Tile(c)] # Off
  /\ Goes(Appear(<<status, count, Primes(stream, c)>>, {Big(c)}, {Big(c)}))
  /\ big' = c /\ primed' = primed \union ({c} \intersect Audio)
  /\ UNCHANGED <<wall, timers, here>>

(* closeMaximized: Escape, or a double click.                              *)
Close ==
  /\ big # None /\ timers < MaxTimers
  /\ timers' = timers + 1
  /\ UNCHANGED <<wall, store, stream, big, primed, here>>

(* One of its timers.                                                      *)
Closed ==
  /\ timers > 0
  /\ timers' = timers - 1 /\ big' = None
  /\ Goes(Unmount(World, {Big(c) : c \in {big} \ {None}}))
  /\ UNCHANGED <<wall, primed, here>>

(* Another route, and back: what the page keeps of its own is gone, a      *)
(* timer finds nothing to close.  The answers of the queries are kept.     *)
Leave ==
  /\ here /\ here' = FALSE
  /\ Goes(Unmount(World, {x \in Streams : stream[x] # Off}))
  /\ order' = <<>> /\ big' = None /\ timers' = 0 /\ primed' = {}
  /\ UNCHANGED <<listed, known, stored, layout>>

Enter ==
  /\ ~here /\ here' = TRUE
  /\ order' = Merged(listed)
  /\ stored' = IF order' # <<>> THEN order' ELSE stored
  /\ Render(order', layout)
  /\ UNCHANGED <<listed, known, layout, big, timers, primed>>

(* The page is loaded anew: the store comes from sessionStorage, the order *)
(* and the layout from localStorage.                                       *)
Reload ==
  /\ stream' = [x \in Streams |-> Off]
  /\ listed' = <<>> /\ known' = FALSE /\ order' = <<>>
  /\ big' = None /\ timers' = 0 /\ primed' = {}
  /\ UNCHANGED <<stored, layout, status, count, here>>

-----------------------------------------------------------------------------
Player(x) == Mount(x) \/ Play(x) \/ Reconnects(x)

Act ==
  \/ \E x \in Streams :
       Monitor(x) \/ GiveUp(x) \/ Retry(x) \/ Check(x) \/ Player(x)
  \/ \E l \in Listings : Refetch(l)
  \/ \E n \in Layouts : SetLayout(n)
  \/ \E c, d \in Cameras : Drag(c, d)
  \/ \E c \in Cameras : Select(c) \/ Open(c)
  \/ LoadServers \/ Close \/ Closed \/ Leave \/ Enter \/ Reload

Quiet(c) == stream'[Tile(c)].state = stream[Tile(c)].state /\ stream'[Tile(c)] # Off

History ==
  closedBig' = {c \in Cameras : (c \in closedBig \/ (c = big /\ c # big')) /\ Quiet(c)}

Next == Act /\ History

Spec == Init /\ [][Next]_vars

(* An attempt has time for a player that can play.                         *)
PlayInTime(x) == stream[x].state = "connecting" /\ Play(x)

Fairness ==
  /\ WF_vars(LoadServers /\ History)
  /\ \A c \in Cameras :
       /\ WF_vars(Mount(Tile(c)) /\ History)
       /\ WF_vars(Retry(Tile(c)) /\ History)
       /\ SF_vars(Monitor(Tile(c)) /\ History)
       /\ SF_vars(PlayInTime(Tile(c)) /\ History)

FairSpec == Spec /\ Fairness

-----------------------------------------------------------------------------
TypeOK ==
  /\ {listed, order, stored} \subseteq Orders
  /\ layout \in Layouts /\ known \in BOOLEAN /\ here \in BOOLEAN
  /\ status \in [Cameras -> States \union {None}] /\ count \in Nat
  /\ stream \in [Streams -> [state : States \union {None}, mounted : BOOLEAN,
                             watch : {"none", "live", "gone"}, face : Faces]]
  /\ big \in Cameras \union {None} /\ timers \in 0..MaxTimers
  /\ primed \subseteq Audio /\ closedBig \subseteq Cameras

(* The number in the tool bar is the number of cameras that are online,    *)
(* however tiles, maximized views, answers and reloads follow each other   *)
(* (onlineCount, kept by increments in setCameraStatus and                 *)
(* clearCameraStatus and by updateOnlineCount).                            *)
CountRight == count = Online(status)

(* While a tile is on the wall and no maximized view has touched its       *)
(* camera, the store says of the camera what the tile shows.               *)
TileTold ==
  \A c \in Cameras :
    stream[Tile(c)] # Off /\ stream[Big(c)] = Off /\ c \notin closedBig
      => status[c] = stream[Tile(c)].state

(* A tile that stays on the wall shows its camera again and again, also    *)
(* after it was given up (the timer of 30 s, the monitor of LiveStream).   *)
ComesOnline ==
  \A c \in Cameras : []<>(stream[Tile(c)] = Off \/ stream[Tile(c)].state = "online")

-----------------------------------------------------------------------------
(* What the code does not do; each is refuted by a demonstration run.      *)

(* The sidebar lists the tiles of the wall (gridCameraIds, which the page  *)
(* sets from the answer and not from its order).                           *)
GridMatches ==
  here /\ order # <<>> => Range(Shown(listed, layout)) = Range(Shown(order, layout))

(* A maximized view that was not closed stays open: only a key or a click  *)
(* on it begins a timer.                                                   *)
StaysOpen == timers > 0 => big # None

(* A tile that shows its camera is counted.                                *)
OnlineCounted ==
  \A c \in Cameras : stream[Tile(c)].state = "online" => status[c] # None
=============================================================================
