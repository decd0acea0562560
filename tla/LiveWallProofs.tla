--------------------------- MODULE LiveWallProofs ---------------------------
(***************************************************************************)
(* What the live wall and its store of statuses keep in step, for any      *)
(* number of cameras, tiles and answers.                                   *)
(***************************************************************************)
EXTENDS LiveWall, TLAPS, FiniteSetTheorems

Component == [state : States, mounted : BOOLEAN, watch : {"none", "live", "gone"}, face : Faces]
Statuses  == [Cameras -> States \union {None}]
Walls     == [Streams -> Component \union {Off}]

WallType ==
  /\ status \in Statuses /\ stream \in Walls
  /\ known \in BOOLEAN /\ big \in Cameras \union {None}

(* Only the maximized camera has a maximized view.                         *)
BigOnly == \A c \in Cameras : stream[Big(c)] # Off => big = c

WallInv == WallType /\ CountRight /\ BigOnly /\ TileTold

-----------------------------------------------------------------------------
(* The count.                                                              *)

(* The number of cameras online is a number.                               *)
LEMMA OnlineIsFinite ==
  ASSUME NEW st \in Statuses
  PROVE  /\ IsFiniteSet({c \in Cameras : st[c] = "online"})
         /\ Online(st) \in Nat
<1>1. IsFiniteSet({c \in Cameras : st[c] = "online"})
  BY Sizes, FS_Subset
<1> QED BY <1>1, FS_CardinalityType DEF Online

(* setCameraStatus and updateOnlineCount keep the count.                   *)
LEMMA SetStatusCounts ==
  ASSUME NEW st \in Statuses, NEW c \in Cameras, NEW v \in States
  PROVE  /\ SetStatus(st, Online(st), c, v)[1] = [st EXCEPT ![c] = v]
         /\ SetStatus(st, Online(st), c, v)[2] = Online([st EXCEPT ![c] = v])
<1>1. PICK next \in Statuses : next = [st EXCEPT ![c] = v]
  BY DEF Statuses
<1>2. SetStatus(st, Online(st), c, v) =
        <<next, IF v # "connecting" THEN Online(next)
                ELSE IF st[c] = "online" THEN (IF Online(st) > 0 THEN Online(st) - 1 ELSE 0)
                ELSE Online(st)>>
  BY <1>1 DEF SetStatus
<1>3. CASE v # "connecting"
  BY <1>1, <1>2, <1>3
<1>4. CASE v = "connecting"
  <2>1. {d \in Cameras : next[d] = "online"} = {d \in Cameras : st[d] = "online"} \ {c}
    BY <1>1, <1>4 DEF Statuses
  <2>2. Online(next) = IF st[c] = "online" THEN Online(st) - 1 ELSE Online(st)
    BY <2>1, OnlineIsFinite, FS_RemoveElement DEF Online
  <2>3. Online(next) \in Nat /\ Online(st) \in Nat
    BY OnlineIsFinite
  <2> QED BY <1>1, <1>2, <1>4, <2>2, <2>3
<1> QED BY <1>3, <1>4

(* clearCameraStatus keeps the count.                                      *)
LEMMA ClearStatusCounts ==
  ASSUME NEW st \in Statuses, NEW C \in SUBSET Cameras
  PROVE  /\ ClearStatus(st, Online(st), C)[1] = [c \in Cameras |-> IF c \in C THEN None ELSE st[c]]
         /\ ClearStatus(st, Online(st), C)[2] =
              Online([c \in Cameras |-> IF c \in C THEN None ELSE st[c]])
<1>1. PICK next \in Statuses : next = [c \in Cameras |-> IF c \in C THEN None ELSE st[c]]
  BY DEF Statuses
<1> PICK before : before = {c \in Cameras : st[c] = "online"}
  OBVIOUS
<1> PICK seen : seen = {c \in C : st[c] = "online"}
  OBVIOUS
<1>2. IsFiniteSet(before) /\ Online(st) = Cardinality(before) /\ Online(st) \in Nat
  BY OnlineIsFinite DEF Online
<1>3. {c \in Cameras : next[c] = "online"} = before \ seen
  BY <1>1, Sizes
<1>4. before \cap seen = seen /\ seen \in SUBSET before
  OBVIOUS
<1>5. Online(next) = Cardinality(before) - Cardinality(seen)
  <2>1. Cardinality(before \ seen) = Cardinality(before) - Cardinality(before \cap seen)
    BY <1>2, FS_Difference
  <2> QED BY <1>3, <1>4, <2>1 DEF Online
<1>6. Cardinality(seen) \in Nat
  <2>1. IsFiniteSet(seen)
    BY <1>2, <1>4, FS_Subset
  <2> QED BY <2>1, FS_CardinalityType
<1>7. Online(next) \in Nat
  BY OnlineIsFinite
<1>8. ClearStatus(st, Online(st), C) =
        <<next, IF Online(st) > Cardinality(seen) THEN Online(st) - Cardinality(seen) ELSE 0>>
  BY <1>1 DEF ClearStatus
<1>9. ASSUME NEW a \in Nat, NEW b \in Nat, a - b \in Nat
      PROVE  (IF a > b THEN a - b ELSE 0) = a - b
  BY <1>9
<1>10. (IF Online(st) > Cardinality(seen) THEN Online(st) - Cardinality(seen) ELSE 0) = Online(next)
  BY <1>2, <1>5, <1>6, <1>7, <1>9
<1> QED BY <1>1, <1>8, <1>10

(* What appears changes no entry to or from "online" unless it counts.     *)
LEMMA FirstCounts ==
  ASSUME NEW st \in Statuses, NEW C \in SUBSET Cameras,
         NEW next, next = [c \in Cameras |-> IF c \in C THEN First(st, c) ELSE st[c]]
  PROVE  /\ next \in Statuses
         /\ (IF \A c \in C : next[c] = "connecting" THEN Online(st) ELSE Online(next)) = Online(next)
<1>1. next \in Statuses
  BY DEF Statuses, First, States
<1>2. CASE \A c \in C : next[c] = "connecting"
  <2>1. {c \in Cameras : next[c] = "online"} = {c \in Cameras : st[c] = "online"}
    BY <1>2 DEF First
  <2> QED BY <1>1, <2>1 DEF Online
<1> QED BY <1>1, <1>2

-----------------------------------------------------------------------------
(* The components.                                                         *)

(* What a component hears keeps its type; only "online" changes its state. *)
LEMMA ToldStep ==
  ASSUME known \in BOOLEAN, NEW s \in Component \union {Off}, NEW was, NEW v
  PROVE  /\ Told(s, was, v) \in Component \union {Off}
         /\ Told(s, was, v) = Off <=> s = Off
         /\ v # "online" => Told(s, was, v).state = s.state
<1>1. Off.state = None /\ None \notin States
  BY Sizes DEF Off, States
<1>2. CASE s = Off
  BY <1>2 DEF Told
<1>3. CASE s \in Component
  <2>1. Iframe(s) \in BOOLEAN /\ s # Off
    BY <1>1, <1>3 DEF Iframe, Component
  <2>2. Told(s, was, v) \in Component
    BY <1>3, <2>1 DEF Told, Component, States
  <2>3. Told(s, was, v) # Off
    BY <1>1, <2>2 DEF Component
  <2>4. v # "online" => Told(s, was, v).state = s.state
    BY <1>3, <2>1 DEF Told, Component
  <2> QED BY <2>1, <2>2, <2>3, <2>4
<1> QED BY <1>2, <1>3

(* A component of the type is there exactly when it has a state.           *)
LEMMA ThereByState ==
  ASSUME NEW s \in Component \union {Off}
  PROVE  s # Off <=> s.state # None
BY Sizes DEF Component, Off, States

(* The first state of a component.                                         *)
LEMMA BeginType ==
  ASSUME known \in BOOLEAN, NEW st, NEW c, NEW mounted \in BOOLEAN
  PROVE  /\ Begin(st, c, mounted) \in Component /\ Begin(st, c, mounted) # Off
         /\ Begin(st, c, mounted).state = First(st, c)
<1>1. First(st, c) \in States
  BY DEF First, States
<1>2. Begin(st, c, mounted) \in Component /\ Begin(st, c, mounted).state = First(st, c)
  BY <1>1 DEF Begin, Component, Faces
<1>3. Off.state = None /\ None \notin States
  BY Sizes DEF Off, States
<1> QED BY <1>1, <1>2, <1>3

(* Components go: their entries go, the count is that of what is left, the *)
(* others stay in their states.                                            *)
LEMMA UnmountStep ==
  ASSUME known \in BOOLEAN, NEW st \in Statuses, NEW S \in Walls, NEW X \in SUBSET Streams,
         NEW w, w = Unmount(<<st, Online(st), S>>, X)
  PROVE  /\ w[1] \in Statuses /\ w[2] = Online(w[1]) /\ w[3] \in Walls
         /\ \A x \in X : w[3][x] = Off
         /\ \A x \in Streams \ X : (w[3][x] = Off <=> S[x] = Off) /\ w[3][x].state = S[x].state
         /\ \A c \in Cameras : (\A x \in X : x[1] # c) => w[1][c] = st[c]
<1> PICK C : C = {x[1] : x \in X}
  OBVIOUS
<1>1. C \in SUBSET Cameras
  BY DEF Streams
<1> PICK next : next = [c \in Cameras |-> IF c \in C THEN None ELSE st[c]]
  OBVIOUS
<1>2. next \in Statuses
  BY DEF Statuses
<1>3. w[1] = next /\ w[2] = Online(next)
  BY <1>1, ClearStatusCounts DEF Unmount
<1>4. \A x \in Streams :
        w[3][x] = IF x \in X THEN Off
                  ELSE IF x[1] \in C THEN Told(S[x], st[x[1]], None) ELSE S[x]
  BY DEF Unmount
<1>5. \A x \in Streams : S[x] \in Component \union {Off}
  BY DEF Walls
<1>6. None # "online"
  BY Sizes
<1>7. ASSUME NEW x \in Streams \ X
      PROVE  /\ w[3][x] \in Component \union {Off}
             /\ (w[3][x] = Off <=> S[x] = Off) /\ w[3][x].state = S[x].state
  BY <1>4, <1>5, <1>6, <1>7, ToldStep
<1>8. \A x \in X : w[3][x] = Off
  BY <1>4
<1>9. w[3] \in Walls
  <2>1. w[3] = [x \in Streams |-> w[3][x]]
    BY DEF Unmount
  <2>2. \A x \in Streams : w[3][x] \in Component \union {Off}
    BY <1>7, <1>8
  <2> QED BY <2>1, <2>2 DEF Walls
<1>10. \A c \in Cameras : (\A x \in X : x[1] # c) => next[c] = st[c]
  OBVIOUS
<1> QED BY <1>2, <1>3, <1>7, <1>8, <1>9, <1>10

(* What w is of the components S and the store st, once those of X appeared: *)
(* each of them says what its camera has from now on.                        *)
Appeared(st, S, X, w) ==
  /\ w[1] \in Statuses /\ w[2] = Online(w[1]) /\ w[3] \in Walls
  /\ \A x \in X : w[3][x] # Off /\ w[3][x].state = w[1][x[1]]
  /\ \A x \in Streams \ X : w[3][x] = Off <=> S[x] = Off
  /\ \A x \in Streams : (\A y \in X : y[1] # x[1]) => w[3][x] = S[x] /\ w[1][x[1]] = st[x[1]]

(* Components appear.                                                      *)
LEMMA AppearStep ==
  ASSUME known \in BOOLEAN, NEW st \in Statuses, NEW S \in Walls, NEW X \in SUBSET Streams,
         NEW ready, NEW w, w = Appear(<<st, Online(st), S>>, X, ready)
  PROVE  Appeared(st, S, X, w)
<1> PICK C : C = {x[1] : x \in X}
  OBVIOUS
<1>1. C \in SUBSET Cameras
  BY DEF Streams
<1> PICK next : next = [c \in Cameras |-> IF c \in C THEN First(st, c) ELSE st[c]]
  OBVIOUS
<1>2. /\ next \in Statuses
      /\ (IF \A c \in C : next[c] = "connecting" THEN Online(st) ELSE Online(next)) = Online(next)
  BY <1>1, FirstCounts
<1>3. w[1] = next /\ w[2] = Online(next)
  BY <1>2 DEF Appear
<1>4. \A x \in Streams :
        w[3][x] = IF x \in X THEN Begin(st, x[1], x \in ready)
                  ELSE IF x[1] \in C THEN Told(S[x], st[x[1]], next[x[1]]) ELSE S[x]
  BY DEF Appear
<1>5. \A x \in Streams : S[x] \in Component \union {Off}
  BY DEF Walls
<1>6. ASSUME NEW x \in X
      PROVE  w[3][x] \in Component /\ w[3][x] # Off /\ w[3][x].state = next[x[1]]
  <2>1. x \in Streams /\ x[1] \in C /\ x[1] \in Cameras
    BY <1>1
  <2>2. PICK mounted \in BOOLEAN : mounted = (x \in ready)
    <3>1. (x \in ready) \in BOOLEAN
      OBVIOUS
    <3> QED BY <3>1, Zenon
  <2>3. w[3][x] = Begin(st, x[1], mounted)
    BY <1>4, <2>1, <2>2
  <2>4. next[x[1]] = First(st, x[1])
    BY <2>1
  <2> QED BY <2>3, <2>4, BeginType
<1>7. ASSUME NEW x \in Streams \ X
      PROVE  /\ w[3][x] \in Component \union {Off}
             /\ w[3][x] = Off <=> S[x] = Off
  <2>1. w[3][x] = S[x] \/ w[3][x] = Told(S[x], st[x[1]], next[x[1]])
    BY <1>4, <1>7
  <2> QED BY <1>5, <1>7, <2>1, ToldStep
<1>8. w[3] \in Walls
  <2>1. w[3] = [x \in Streams |-> w[3][x]]
    BY DEF Appear
  <2>2. \A x \in Streams : w[3][x] \in Component \union {Off}
    BY <1>6, <1>7
  <2> QED BY <2>1, <2>2 DEF Walls
<1>9. ASSUME NEW x \in Streams, \A y \in X : y[1] # x[1]
      PROVE  w[3][x] = S[x] /\ next[x[1]] = st[x[1]]
  <2>1. x \notin X /\ x[1] \notin C /\ x[1] \in Cameras
    BY <1>9 DEF Streams
  <2> QED BY <1>4, <2>1
<1> QED BY <1>2, <1>3, <1>6, <1>7, <1>8, <1>9 DEF Appeared

-----------------------------------------------------------------------------
(* The actions.                                                            *)

(* A tile that is there after a step agrees with the store if the step set *)
(* both, or left both of a tile that agreed.  A tile whose maximized view  *)
(* has just gone does not count until it speaks again.                     *)
LEMMA TellStep ==
  ASSUME WallInv, History,
         \A c \in Cameras :
           stream'[Tile(c)] # Off /\ stream'[Big(c)] = Off =>
             \/ status'[c] = stream'[Tile(c)].state
             \/ /\ stream[Tile(c)] # Off /\ stream'[Tile(c)].state = stream[Tile(c)].state
                /\ (stream[Big(c)] = Off /\ status'[c] = status[c]) \/ (c = big /\ c # big')
  PROVE  TileTold'
<1> SUFFICES ASSUME NEW c \in Cameras, stream'[Tile(c)] # Off, stream'[Big(c)] = Off,
                    c \notin closedBig'
             PROVE  status'[c] = stream'[Tile(c)].state
  BY DEF TileTold, Tile, Big, Off
<1>1. CASE status'[c] # stream'[Tile(c)].state
  <2>1. Quiet(c)
    BY <1>1 DEF Quiet
  <2>2. c \notin closedBig /\ ~(c = big /\ c # big')
    BY <2>1 DEF History
  <2>3. /\ stream[Tile(c)] # Off /\ stream'[Tile(c)].state = stream[Tile(c)].state
        /\ stream[Big(c)] = Off /\ status'[c] = status[c]
    BY <1>1, <2>2
  <2>4. status[c] = stream[Tile(c)].state
    BY <2>2, <2>3 DEF WallInv, TileTold
  <2> QED BY <1>1, <2>3, <2>4
<1> QED BY <1>1

(* A step that leaves the store and, of the components, who is there and   *)
(* in which state.                                                         *)
LEMMA QuietStep ==
  ASSUME WallInv, History, status' = status, count' = count, stream' \in Walls,
         known' \in BOOLEAN, big' = big,
         \A x \in Streams : (stream'[x] = Off <=> stream[x] = Off) /\ stream'[x].state = stream[x].state
  PROVE  WallInv'
<1>1. \A c \in Cameras : Tile(c) \in Streams /\ Big(c) \in Streams
  BY DEF Tile, Big, Streams
<1>2. WallType'
  BY DEF WallInv, WallType
<1>3. CountRight'
  BY DEF WallInv, CountRight, Online
<1>4. BigOnly'
  BY <1>1 DEF WallInv, BigOnly, Big, Off
<1>5. TileTold'
  <2>1. ASSUME NEW c \in Cameras, stream'[Tile(c)] # Off, stream'[Big(c)] = Off
        PROVE  /\ stream[Tile(c)] # Off /\ stream'[Tile(c)].state = stream[Tile(c)].state
               /\ stream[Big(c)] = Off /\ status'[c] = status[c]
    BY <1>1, <2>1
  <2> QED BY <2>1, TellStep
<1> QED BY <1>2, <1>3, <1>4, <1>5 DEF WallInv

(* A component goes to another state.                                      *)
LEMMA BecomeStep ==
  ASSUME WallInv, History, NEW x \in Streams, NEW v \in States, NEW face \in Faces,
         stream[x] # Off, Become(stream, x, v, face), UNCHANGED <<known, big>>
  PROVE  WallInv'
<1>1. /\ status \in Statuses /\ stream \in Walls /\ known \in BOOLEAN
      /\ count = Online(status) /\ x[1] \in Cameras /\ v # None
  BY Sizes DEF WallInv, WallType, CountRight, Streams, States
<1>2. status' = [status EXCEPT ![x[1]] = v] /\ count' = Online(status')
  BY <1>1, SetStatusCounts DEF Become
<1>3. PICK told : told = Heard(stream, x[1], status[x[1]], v)
  OBVIOUS
<1>4. PICK watch \in {"none", "live"} :
        stream' = [told EXCEPT ![x] = [told[x] EXCEPT !.state = v, !.face = face, !.watch = watch]]
  <2>1. x \in DOMAIN told
    BY <1>3 DEF Heard
  <2> QED BY <1>3, <2>1 DEF Become
<1>5. told \in Walls /\ \A y \in Streams : told[y] = Off <=> stream[y] = Off
  <2>1. \A y \in Streams : told[y] = stream[y] \/ told[y] = Told(stream[y], status[x[1]], v)
    BY <1>3 DEF Heard
  <2>2. \A y \in Streams : stream[y] \in Component \union {Off}
    BY <1>1 DEF Walls
  <2>3. \A y \in Streams :
          told[y] \in Component \union {Off} /\ (told[y] = Off <=> stream[y] = Off)
    BY <1>1, <2>1, <2>2, ToldStep
  <2>4. told = [y \in Streams |-> told[y]]
    BY <1>3 DEF Heard
  <2> QED BY <2>3, <2>4 DEF Walls
<1>6. told[x] \in Component
  BY <1>5 DEF Walls
<1>7. PICK s : s = [told[x] EXCEPT !.state = v, !.face = face, !.watch = watch]
  OBVIOUS
<1>7a. s \in Component /\ s.state = v
  BY <1>6, <1>7 DEF Component
<1>8. stream' = [told EXCEPT ![x] = s]
  BY <1>4, <1>7
<1>9. stream' \in Walls
  BY <1>5, <1>7a, <1>8 DEF Walls
<1>10. \A y \in Streams : stream'[y] = Off <=> stream[y] = Off
  <2>1. s # Off
    BY <1>1, <1>7a DEF Off
  <2> QED BY <1>5, <1>8, <2>1 DEF Walls
<1>11. stream'[x].state = v
  BY <1>5, <1>7a, <1>8 DEF Walls
<1>12. \A y \in Streams : y[1] # x[1] => stream'[y] = stream[y]
  BY <1>3, <1>5, <1>8 DEF Heard, Walls
<1>13. WallType'
  BY <1>1, <1>2, <1>9 DEF WallInv, WallType, Statuses
<1>14. CountRight'
  BY <1>2 DEF CountRight, Online
<1>15. \A c \in Cameras : Tile(c) \in Streams /\ Big(c) \in Streams
                          /\ Tile(c)[1] = c /\ Big(c)[1] = c
  BY DEF Tile, Big, Streams
<1>16. BigOnly'
  BY <1>10, <1>15 DEF WallInv, BigOnly, Big, Off
<1>17. TileTold'
  <2>1. ASSUME NEW c \in Cameras, stream'[Tile(c)] # Off, stream'[Big(c)] = Off
        PROVE  \/ status'[c] = stream'[Tile(c)].state
               \/ /\ stream[Tile(c)] # Off /\ stream'[Tile(c)].state = stream[Tile(c)].state
                  /\ stream[Big(c)] = Off /\ status'[c] = status[c]
    <3>1. CASE c = x[1]
      <4>1. x = Tile(c) \/ x = Big(c)
        BY <3>1 DEF Streams, Tile, Big
      <4>2. x # Big(c)
        BY <1>10, <1>15, <2>1
      <4> QED BY <1>1, <1>2, <1>11, <3>1, <4>1, <4>2 DEF Statuses
    <3>2. CASE c # x[1]
      BY <1>1, <1>2, <1>10, <1>12, <1>15, <2>1, <3>2 DEF Statuses
    <3> QED BY <3>1, <3>2
  <2> QED BY <2>1, TellStep
<1> QED BY <1>13, <1>14, <1>16, <1>17 DEF WallInv

(* Components of tiles come and go.                                        *)
LEMMA RenderStep ==
  ASSUME WallInv, History, NEW o, NEW n, Render(o, n), UNCHANGED <<known, big>>
  PROVE  WallInv'
<1> PICK gone, come, ready :
      /\ gone \subseteq Cameras /\ come \subseteq Cameras
      /\ Goes(Appear(Unmount(World, {Tile(c) : c \in gone}), {Tile(c) : c \in come}, ready))
  <2> DEFINE old == {c \in OnWall(order, layout) : stream[Tile(c)] # Off}
             new == OnWall(o, n)
  <2>1. old \ new \subseteq Cameras /\ new \ old \subseteq Cameras
    BY DEF OnWall
  <2>2. Goes(Appear(Unmount(World, {Tile(c) : c \in old \ new}),
                    {Tile(c) : c \in new \ old}, {Tile(c) : c \in OnWall(o, Batch)}))
    BY DEF Render
  <2> HIDE DEF old, new
  <2> QED BY <2>1, <2>2
<1> PICK X : X = {Tile(c) : c \in gone}
  OBVIOUS
<1> PICK Y : Y = {Tile(c) : c \in come}
  OBVIOUS
<1> PICK u : u = Unmount(World, X)
  OBVIOUS
<1> PICK w : w = Appear(u, Y, ready)
  OBVIOUS
<1>1. /\ status \in Statuses /\ stream \in Walls /\ known \in BOOLEAN /\ count = Online(status)
      /\ X \in SUBSET Streams /\ Y \in SUBSET Streams
  BY DEF WallInv, WallType, CountRight, Streams, Tile
<1>2. World = <<status, Online(status), stream>>
  BY <1>1 DEF World
<1>3. /\ u[1] \in Statuses /\ u[2] = Online(u[1]) /\ u[3] \in Walls
      /\ \A x \in X : u[3][x] = Off
      /\ \A x \in Streams \ X : (u[3][x] = Off <=> stream[x] = Off) /\ u[3][x].state = stream[x].state
      /\ \A c \in Cameras : (\A x \in X : x[1] # c) => u[1][c] = status[c]
  BY <1>1, <1>2, UnmountStep
<1>4. w = Appear(<<u[1], Online(u[1]), u[3]>>, Y, ready)
  <2>1. u = <<u[1], Online(u[1]), u[3]>>
    BY <1>3 DEF Unmount
  <2> QED BY <2>1
<1>4a. Appeared(u[1], u[3], Y, w)
  BY <1>1, <1>3, <1>4, AppearStep
<1>5. /\ w[1] \in Statuses /\ w[2] = Online(w[1]) /\ w[3] \in Walls
      /\ \A x \in Y : w[3][x] # Off /\ w[3][x].state = w[1][x[1]]
      /\ \A x \in Streams \ Y : w[3][x] = Off <=> u[3][x] = Off
      /\ \A x \in Streams : (\A y \in Y : y[1] # x[1]) => w[3][x] = u[3][x] /\ w[1][x[1]] = u[1][x[1]]
  BY <1>4a DEF Appeared
<1>6. status' = w[1] /\ count' = w[2] /\ stream' = w[3]
  BY DEF Goes
<1>7. WallType' /\ CountRight'
  BY <1>1, <1>5, <1>6 DEF WallInv, WallType, CountRight, Online
<1>8. \A c \in Cameras : /\ Tile(c) \in Streams /\ Big(c) \in Streams
                         /\ Tile(c)[1] = c /\ Big(c)[1] = c
                         /\ Big(c) \notin X \cup Y
                         /\ (Tile(c) \in X => c \in gone) /\ (Tile(c) \in Y => c \in come)
                         /\ (c \in come => Tile(c) \in Y)
                         /\ (c \in gone => Tile(c) \in X)
                         /\ (c \notin come => \A y \in Y : y[1] # c)
                         /\ (c \notin gone => \A x \in X : x[1] # c)
  BY DEF Tile, Big, Streams
<1>9. \A c \in Cameras : stream'[Big(c)] = Off <=> stream[Big(c)] = Off
  BY <1>3, <1>5, <1>6, <1>8
<1>10. BigOnly'
  BY <1>9 DEF WallInv, BigOnly, Big, Off
<1>11. TileTold'
  <2>1. ASSUME NEW c \in Cameras, stream'[Tile(c)] # Off, stream'[Big(c)] = Off
        PROVE  \/ status'[c] = stream'[Tile(c)].state
               \/ /\ stream[Tile(c)] # Off /\ stream'[Tile(c)].state = stream[Tile(c)].state
                  /\ stream[Big(c)] = Off /\ status'[c] = status[c]
    <3>1. CASE c \in come
      BY <1>5, <1>6, <1>8, <3>1
    <3>2. CASE c \notin come
      <4>1. stream'[Tile(c)] = u[3][Tile(c)] /\ status'[c] = u[1][c]
        BY <1>5, <1>6, <1>8, <3>2
      <4>2. Tile(c) \notin X /\ c \notin gone
        BY <1>3, <1>8, <2>1, <4>1
      <4>3. u[1][c] = status[c]
        BY <1>3, <1>8, <4>2
      <4> QED BY <1>3, <1>8, <1>9, <2>1, <4>1, <4>2, <4>3
    <3> QED BY <3>1, <3>2
  <2> QED BY <2>1, TellStep
<1> QED BY <1>7, <1>10, <1>11 DEF WallInv

(* Another address leaves a component where it is and in its state.        *)
LEMMA PrimesKeep ==
  ASSUME NEW S \in Walls, NEW c
  PROVE  /\ Primes(S, c) \in Walls
         /\ \A x \in Streams :
              (Primes(S, c)[x] = Off <=> S[x] = Off) /\ Primes(S, c)[x].state = S[x].state
<1> PICK P : P = Primes(S, c)
  OBVIOUS
<1>1. CASE c \in Audio \ primed
  <2>1. P = [x \in Streams |-> IF x[1] = c /\ S[x] # Off
              THEN [S[x] EXCEPT !.face = "blank", !.watch = IF @ = "none" THEN @ ELSE "gone"]
              ELSE S[x]]
    BY <1>1 DEF Primes
  <2>2. ASSUME NEW s \in Component
        PROVE  LET t == [s EXCEPT !.face = "blank", !.watch = IF @ = "none" THEN @ ELSE "gone"]
               IN  t \in Component /\ t.state = s.state
    BY DEF Component, Faces
  <2>3. ASSUME NEW x \in Streams
        PROVE  P[x] \in Component \union {Off} /\ (P[x] = Off <=> S[x] = Off)
               /\ P[x].state = S[x].state
    <3>1. S[x] \in Component \union {Off}
      BY DEF Walls
    <3>2. CASE x[1] = c /\ S[x] # Off
      <4>1. P[x] \in Component /\ P[x].state = S[x].state
        BY <2>1, <2>2, <3>1, <3>2
      <4> QED BY <3>1, <3>2, <4>1, ThereByState
    <3>3. CASE ~(x[1] = c /\ S[x] # Off)
      BY <2>1, <3>1, <3>3
    <3> QED BY <3>2, <3>3
  <2> QED BY <2>1, <2>3 DEF Walls
<1>2. CASE c \notin Audio \ primed
  BY <1>2 DEF Primes
<1> QED BY <1>1, <1>2

(* A maximized view appears, and its players get another address where     *)
(* there is audio.                                                         *)
LEMMA OpenStep ==
  ASSUME WallInv, History, NEW c \in Cameras, Open(c)
  PROVE  WallInv'
<1> PICK S : S = Primes(stream, c)
  OBVIOUS
<1> PICK w : w = Appear(<<status, count, S>>, {Big(c)}, {Big(c)})
  OBVIOUS
<1>1. /\ status \in Statuses /\ stream \in Walls /\ known \in BOOLEAN /\ count = Online(status)
      /\ {Big(c)} \in SUBSET Streams
  BY DEF WallInv, WallType, CountRight, Streams, Big
<1>2. S \in Walls /\ \A x \in Streams : (S[x] = Off <=> stream[x] = Off) /\ S[x].state = stream[x].state
  BY <1>1, PrimesKeep
<1>3a. Appeared(status, S, {Big(c)}, w)
  <2>1. w = Appear(<<status, Online(status), S>>, {Big(c)}, {Big(c)})
    BY <1>1
  <2> QED BY <1>1, <1>2, <2>1, AppearStep
<1>3. /\ w[1] \in Statuses /\ w[2] = Online(w[1]) /\ w[3] \in Walls
      /\ \A x \in {Big(c)} : w[3][x] # Off /\ w[3][x].state = w[1][x[1]]
      /\ \A x \in Streams \ {Big(c)} : w[3][x] = Off <=> S[x] = Off
      /\ \A x \in Streams : (\A y \in {Big(c)} : y[1] # x[1]) => w[3][x] = S[x] /\ w[1][x[1]] = status[x[1]]
  BY <1>3a DEF Appeared
<1>4. /\ status' = w[1] /\ count' = w[2] /\ stream' = w[3] /\ known' = known
      /\ big = None /\ big' = c
  BY DEF Open, Goes, wall
<1>5. WallType' /\ CountRight'
  BY <1>1, <1>3, <1>4 DEF WallInv, WallType, CountRight, Online
<1>6. \A d \in Cameras : /\ Tile(d) \in Streams /\ Big(d) \in Streams
                         /\ Tile(d)[1] = d /\ Big(d)[1] = d /\ (Big(d) = Big(c) => d = c)
                         /\ Tile(d) # Big(c)
  BY DEF Tile, Big, Streams
<1>7. None \notin Cameras
  BY Sizes
<1>8. BigOnly'
  <2>1. \A d \in Cameras : stream'[Big(d)] # Off => d = c
    BY <1>2, <1>3, <1>4, <1>6, <1>7 DEF WallInv, BigOnly
  <2> QED BY <1>4, <2>1 DEF BigOnly, Big, Off
<1>9. TileTold'
  <2>1. ASSUME NEW d \in Cameras, stream'[Tile(d)] # Off, stream'[Big(d)] = Off
        PROVE  /\ stream[Tile(d)] # Off /\ stream'[Tile(d)].state = stream[Tile(d)].state
               /\ stream[Big(d)] = Off /\ status'[d] = status[d]
    <3>1. d # c
      BY <1>3, <1>4, <2>1
    <3>2. \A x \in {Tile(d), Big(d)} : /\ x \in Streams /\ x[1] = d
                            /\ \A y \in {Big(c)} : y[1] # x[1]
      BY <1>6, <3>1
    <3>3. \A x \in {Tile(d), Big(d)} : stream'[x] = S[x] /\ status'[d] = status[d]
      BY <1>3, <1>4, <3>2
    <3>4. stream'[Tile(d)] = S[Tile(d)] /\ stream'[Big(d)] = S[Big(d)] /\ status'[d] = status[d]
      BY <3>3
    <3> QED BY <1>2, <1>6, <2>1, <3>4
  <2> QED BY <2>1, TellStep
<1> QED BY <1>5, <1>8, <1>9 DEF WallInv

(* The maximized view goes, by a timer, or every component with the route. *)
LEMMA GoStep ==
  ASSUME WallInv, History, NEW X \in SUBSET Streams, Goes(Unmount(World, X)),
         known' = known, big' = None,
         \A x \in X : x = Tile(x[1]) \/ x[1] = big,
         \A c \in Cameras : c = big => Big(c) \in X \/ stream[Big(c)] = Off
  PROVE  WallInv'
<1> PICK w : w = Unmount(World, X)
  OBVIOUS
<1>1. /\ status \in Statuses /\ stream \in Walls /\ known \in BOOLEAN /\ count = Online(status)
  BY DEF WallInv, WallType, CountRight
<1>2. World = <<status, Online(status), stream>>
  BY <1>1 DEF World
<1>3. /\ w[1] \in Statuses /\ w[2] = Online(w[1]) /\ w[3] \in Walls
      /\ \A x \in X : w[3][x] = Off
      /\ \A x \in Streams \ X : (w[3][x] = Off <=> stream[x] = Off) /\ w[3][x].state = stream[x].state
      /\ \A c \in Cameras : (\A x \in X : x[1] # c) => w[1][c] = status[c]
  BY <1>1, <1>2, UnmountStep
<1>4. status' = w[1] /\ count' = w[2] /\ stream' = w[3]
  BY DEF Goes
<1>5. WallType' /\ CountRight'
  BY <1>1, <1>3, <1>4 DEF WallInv, WallType, CountRight, Online
<1>6. \A c \in Cameras : Tile(c) \in Streams /\ Big(c) \in Streams
  BY DEF Tile, Big, Streams
<1>7. \A c \in Cameras : stream'[Big(c)] = Off
  BY <1>3, <1>4, <1>6 DEF WallInv, BigOnly
<1>8. BigOnly'
  BY <1>7 DEF BigOnly, Big, Off
<1>9. TileTold'
  <2>1. ASSUME NEW c \in Cameras, stream'[Tile(c)] # Off
        PROVE  /\ stream[Tile(c)] # Off /\ stream'[Tile(c)].state = stream[Tile(c)].state
               /\ (stream[Big(c)] = Off /\ status'[c] = status[c]) \/ (c = big /\ c # big')
    <3>1. Tile(c) \notin X
      BY <1>3, <1>4, <2>1
    <3>2. CASE c = big
      BY <1>3, <1>4, <1>6, <2>1, <3>1, <3>2, Sizes
    <3>3. CASE c # big
      <4>1. \A x \in X : x[1] # c
        BY <3>1, <3>3
      <4> QED BY <1>3, <1>4, <1>6, <2>1, <3>1, <3>3, <4>1 DEF WallInv, BigOnly
    <3> QED BY <3>2, <3>3
  <2> QED BY <2>1, TellStep
<1> QED BY <1>5, <1>8, <1>9 DEF WallInv

(* What one component goes through keeps the wall.                         *)
LEMMA StreamStep ==
  ASSUME WallInv, History, NEW x \in Streams,
         Monitor(x) \/ GiveUp(x) \/ Retry(x) \/ Check(x) \/ Player(x)
  PROVE  WallInv'
<1>1. stream \in Walls /\ stream[x] \in Component \union {Off}
  BY DEF WallInv, WallType, Walls
<1>2. Off.state = None /\ Off.watch = "none" /\ Off.face = "blank" /\ None \notin States
  BY Sizes DEF Off, States
<1>3. {"connecting", "online", "offline"} \subseteq States
  BY DEF States
<1>4. stream[x] # Off => stream[x].face \in Faces
  BY <1>1 DEF Component
<1>5. CASE Monitor(x)
  <2>1. stream[x] # Off /\ Become(stream, x, "online", stream[x].face) /\ UNCHANGED <<known, big>>
    BY <1>2, <1>5 DEF Monitor, wall, view
  <2> QED BY <1>3, <1>4, <2>1, BecomeStep
<1>6. CASE GiveUp(x)
  <2>1. stream[x] # Off /\ Become(stream, x, "offline", stream[x].face) /\ UNCHANGED <<known, big>>
    BY <1>2, <1>6, Sizes DEF GiveUp, wall, view
  <2> QED BY <1>3, <1>4, <2>1, BecomeStep
<1>7. CASE Retry(x)
  <2>1. stream[x] # Off /\ Become(stream, x, "connecting", "blank") /\ UNCHANGED <<known, big>>
    BY <1>2, <1>7, Sizes DEF Retry, wall, view
  <2> QED BY <1>3, <2>1, BecomeStep DEF Faces
<1>8. CASE Check(x)
  <2>1. stream[x] # Off /\ Become(stream, x, "connecting", stream[x].face) /\ UNCHANGED <<known, big>>
    BY <1>2, <1>8 DEF Check, wall, view
  <2> QED BY <1>3, <1>4, <2>1, BecomeStep
<1>9. CASE Player(x)
  <2>1. PICK m \in BOOLEAN, f \in Faces :
          /\ stream[x] # Off
          /\ stream' = [stream EXCEPT ![x] = [stream[x] EXCEPT !.mounted = m, !.face = f]]
          /\ UNCHANGED <<known, big, status, count>>
    <3>1. CASE Mount(x)
      <4>1. stream[x] \in Component /\ stream' = [stream EXCEPT ![x].mounted = TRUE]
            /\ UNCHANGED <<known, big, status, count>>
        BY <1>1, <3>1 DEF Mount, wall, view, store
      <4>2. [stream[x] EXCEPT !.mounted = TRUE]
              = [stream[x] EXCEPT !.mounted = TRUE, !.face = stream[x].face]
        BY <4>1 DEF Component
      <4> QED BY <1>2, <1>4, <3>1, <4>1, <4>2 DEF Mount, Walls
    <3>2. CASE Play(x)
      <4>1. stream[x].mounted
        BY <3>2 DEF Play, Iframe
      <4>2. stream[x] \in Component /\ stream[x] # Off
        BY <1>1, <4>1 DEF Off
      <4>3. PICK f \in Faces : stream' = [stream EXCEPT ![x].face = f]
        BY <1>1, <3>2 DEF Play, Faces, Walls
      <4>4. [stream[x] EXCEPT !.face = f]
              = [stream[x] EXCEPT !.mounted = stream[x].mounted, !.face = f]
        BY <4>2 DEF Component
      <4>5. stream[x].mounted \in BOOLEAN
        BY <4>2 DEF Component
      <4> QED BY <1>1, <3>2, <4>2, <4>3, <4>4, <4>5 DEF Play, Walls, wall, view, store
    <3>3. CASE Reconnects(x)
      <4>1. stream[x] \in Component /\ stream[x] # Off
        BY <1>1, <1>2, <3>3 DEF Reconnects
      <4>2. stream' = [stream EXCEPT ![x].face = "blank"]
        BY <3>3 DEF Reconnects
      <4>3. [stream[x] EXCEPT !.face = "blank"]
              = [stream[x] EXCEPT !.mounted = stream[x].mounted, !.face = "blank"]
        BY <4>1 DEF Component
      <4>4. stream[x].mounted \in BOOLEAN
        BY <4>1 DEF Component
      <4> QED BY <1>1, <3>3, <4>1, <4>2, <4>3, <4>4 DEF Reconnects, Walls, wall, view, store, Faces
    <3> QED BY <1>9, <3>1, <3>2, <3>3 DEF Player
  <2>2. PICK s : s = [stream[x] EXCEPT !.mounted = m, !.face = f]
    OBVIOUS
  <2>3. s \in Component /\ s.state = stream[x].state
    BY <1>1, <2>1, <2>2 DEF Component
  <2>4. s # Off
    BY <1>2, <2>3 DEF Component
  <2>5. stream' = [stream EXCEPT ![x] = s]
    BY <2>1, <2>2
  <2>6. stream' \in Walls
    BY <1>1, <2>3, <2>5 DEF Walls
  <2>7. \A y \in Streams : (stream'[y] = Off <=> stream[y] = Off) /\ stream'[y].state = stream[y].state
    BY <1>1, <2>1, <2>3, <2>4, <2>5 DEF Walls
  <2>8. known' \in BOOLEAN
    BY <2>1 DEF WallInv, WallType
  <2> QED BY <2>1, <2>6, <2>7, <2>8, QuietStep
<1> QED BY <1>5, <1>6, <1>7, <1>8, <1>9

(* Whatever happens to the page keeps the wall.                            *)
LEMMA WallStep ==
  ASSUME WallInv, [Next]_vars
  PROVE  WallInv'
<1>1. /\ stream \in Walls /\ known \in BOOLEAN /\ big \in Cameras \union {None}
      /\ None \notin Cameras
  BY Sizes DEF WallInv, WallType
<1>2. ASSUME NEW l \in Listings, Refetch(l), History
      PROVE  WallInv'
  <2>1. Render(order', layout) /\ UNCHANGED <<known, big>>
    BY <1>2 DEF Refetch, view
  <2> QED BY <1>2, <2>1, RenderStep
<1>3. ASSUME NEW n \in Layouts, SetLayout(n), History
      PROVE  WallInv'
  <2>1. Render(order, n) /\ UNCHANGED <<known, big>>
    BY <1>3 DEF SetLayout, view
  <2> QED BY <1>3, <2>1, RenderStep
<1>4. ASSUME NEW c \in Cameras, NEW d \in Cameras, Drag(c, d), History
      PROVE  WallInv'
  <2>1. Render(order', layout) /\ UNCHANGED <<known, big>>
    BY <1>4 DEF Drag, view
  <2> QED BY <1>4, <2>1, RenderStep
<1>5. CASE Enter /\ History
  <2>1. Render(order', layout) /\ UNCHANGED <<known, big>>
    BY <1>5 DEF Enter
  <2> QED BY <1>5, <2>1, RenderStep
<1>6. ASSUME NEW c \in Cameras, Select(c), History
      PROVE  WallInv'
  <2>1. stream' = Primes(stream, c) /\ UNCHANGED <<known, big, status, count>>
    BY <1>6 DEF Select, wall, store
  <2>2. /\ stream' \in Walls /\ known' \in BOOLEAN
        /\ \A x \in Streams : (stream'[x] = Off <=> stream[x] = Off) /\ stream'[x].state = stream[x].state
    BY <1>1, <2>1, PrimesKeep
  <2> QED BY <1>6, <2>1, <2>2, QuietStep
<1>7. CASE (LoadServers \/ Close) /\ History
  <2>1. stream' = stream /\ known' \in BOOLEAN /\ UNCHANGED <<big, status, count>>
    BY <1>1, <1>7 DEF LoadServers, Close, view, store, wall
  <2> QED BY <1>1, <1>7, <2>1, QuietStep
<1>8. CASE Closed /\ History
  <2> PICK X : X = {Big(c) : c \in {big} \ {None}}
    OBVIOUS
  <2>1. Goes(Unmount(World, X)) /\ known' = known /\ big' = None
    BY <1>8 DEF Closed, wall
  <2>2. X \in SUBSET Streams
    BY <1>1 DEF Streams, Big
  <2>3. \A x \in X : x = Tile(x[1]) \/ x[1] = big
    BY DEF Big
  <2>4. \A c \in Cameras : c = big => Big(c) \in X \/ stream[Big(c)] = Off
    BY <1>1
  <2> QED BY <1>8, <2>1, <2>2, <2>3, <2>4, GoStep
<1>9. CASE Leave /\ History
  <2> PICK X : X = {x \in Streams : stream[x] # Off}
    OBVIOUS
  <2>1. Goes(Unmount(World, X)) /\ known' = known /\ big' = None
    BY <1>9 DEF Leave
  <2>2. X \in SUBSET Streams
    OBVIOUS
  <2>3. \A x \in X : x = Tile(x[1]) \/ x[1] = big
    <3> SUFFICES ASSUME NEW x \in X, x # Tile(x[1])
                 PROVE  x[1] = big
      OBVIOUS
    <3>1. x[1] \in Cameras /\ x = Big(x[1]) /\ stream[x] # Off
      BY DEF Streams, Tile, Big
    <3> QED BY <3>1 DEF WallInv, BigOnly
  <2>4. \A c \in Cameras : c = big => Big(c) \in X \/ stream[Big(c)] = Off
    BY DEF Streams, Big
  <2> QED BY <1>9, <2>1, <2>2, <2>3, <2>4, GoStep
<1>10. CASE Reload /\ History
  <2>1. /\ stream' = [x \in Streams |-> Off] /\ known' = FALSE /\ big' = None
        /\ status' = status /\ count' = count
    BY <1>10 DEF Reload
  <2>2. \A c \in Cameras : stream'[Tile(c)] = Off /\ stream'[Big(c)] = Off
    BY <2>1 DEF Streams, Tile, Big
  <2>3. stream' \in Walls
    BY <2>1 DEF Walls
  <2>4. WallType' /\ CountRight'
    BY <1>1, <2>1, <2>3 DEF WallInv, WallType, CountRight, Online
  <2>5. BigOnly' /\ TileTold'
    BY <2>2 DEF BigOnly, TileTold, Tile, Big, Off
  <2> QED BY <2>4, <2>5 DEF WallInv
<1>11. CASE UNCHANGED vars
  <2>1. UNCHANGED <<status, count, stream, known, big, closedBig>>
    BY <1>11 DEF vars, core, wall, store, view
  <2> QED BY <2>1 DEF WallInv, WallType, CountRight, Online, BigOnly, TileTold
<1>12. CASE Act /\ History
  <2>1. \/ \E x \in Streams : Monitor(x) \/ GiveUp(x) \/ Retry(x) \/ Check(x) \/ Player(x)
        \/ \E l \in Listings : Refetch(l)
        \/ \E n \in Layouts : SetLayout(n)
        \/ \E c, d \in Cameras : Drag(c, d)
        \/ \E c \in Cameras : Select(c) \/ Open(c)
        \/ LoadServers \/ Close \/ Closed \/ Leave \/ Enter \/ Reload
    BY <1>12, Zenon DEF Act
  <2> QED BY <1>2, <1>3, <1>4, <1>5, <1>6, <1>7, <1>8, <1>9, <1>10, <1>12, <2>1, StreamStep, OpenStep
<1> QED BY <1>11, <1>12 DEF Next

-----------------------------------------------------------------------------
(* The page begins with no component and an empty store.                   *)
LEMMA WallInit ==
  ASSUME Init
  PROVE  WallInv
<1>1. /\ status = [c \in Cameras |-> None] /\ count = 0 /\ known = FALSE /\ big = None
      /\ stream = [x \in Streams |-> Off]
  BY DEF Init
<1>2. WallType
  BY <1>1 DEF WallType, Statuses, Walls
<1>3. CountRight
  <2>1. {c \in Cameras : status[c] = "online"} = {}
    BY <1>1, Sizes
  <2> QED BY <1>1, <2>1, FS_EmptySet DEF CountRight, Online
<1>4. \A c \in Cameras : stream[Tile(c)] = Off /\ stream[Big(c)] = Off
  BY <1>1 DEF Streams, Tile, Big
<1> QED BY <1>2, <1>3, <1>4 DEF WallInv, BigOnly, TileTold

(* The invariant of the wall holds in every behaviour.                     *)
LEMMA WallInvariant == Spec => []WallInv
<1>1. Init => WallInv
  BY WallInit
<1>2. WallInv /\ [Next]_vars => WallInv'
  BY WallStep
<1> QED BY <1>1, <1>2, PTL DEF Spec

(* The number in the tool bar is the number of cameras that are online,    *)
(* for any cameras, layouts and answers, though setCameraStatus and        *)
(* clearCameraStatus keep it by increments and a floor of zero.            *)
THEOREM CountIsRight == Spec => []CountRight
<1>1. WallInv => CountRight
  BY DEF WallInv
<1> QED BY <1>1, WallInvariant, PTL

(* The store says of a camera what its tile shows, while no maximized view *)
(* has touched it: two components write one entry, but a tile that appears, *)
(* changes or stays is never contradicted by another tile.                 *)
THEOREM TileIsTold == Spec => []TileTold
<1>1. WallInv => TileTold
  BY DEF WallInv
<1> QED BY <1>1, WallInvariant, PTL
=============================================================================
