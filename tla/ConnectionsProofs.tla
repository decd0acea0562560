------------------------- MODULE ConnectionsProofs -------------------------
(***************************************************************************)
(* What the connections of a tab promise, for any number of sockets and    *)
(* events and every way to set a player up.                                *)
(***************************************************************************)
EXTENDS Connections, SequenceTheorems, TLAPS

SocketStates == {"unused", "connecting", "accepted", "open", "closing", "retry"}

(* The part of the feed's type that its properties rest on.                *)
FeedType ==
  /\ stored \in 0..MaxEvents
  /\ feed \in [Sockets -> SocketStates]
  /\ queue \in [Sockets -> Seq(Feed!Events)]
  /\ heard \in [Sockets -> SUBSET Feed!Events]
  /\ list \in Seq(Feed!Events)

FeedInv == FeedType /\ ListedOnce /\ Delivered

-----------------------------------------------------------------------------
(* The list.                                                               *)

(* Cut keeps the newest Shown of a list.                                   *)
LEMMA CutKeeps ==
  ASSUME NEW q \in Seq(Feed!Events)
  PROVE  /\ Feed!Cut(q) \in Seq(Feed!Events)
         /\ Len(Feed!Cut(q)) = IF Len(q) < Shown THEN Len(q) ELSE Shown
         /\ \A i \in 1..Len(Feed!Cut(q)) : Feed!Cut(q)[i] = q[i]
<1> DEFINE n == IF Len(q) < Shown THEN Len(q) ELSE Shown
<1>1. Shown \in Nat \ {0}
  BY Parameters DEF Feed!Parameters
<1>2. n \in 0..Len(q)
  BY <1>1
<1>3. Feed!Cut(q) = SubSeq(q, 1, n)
  BY DEF Feed!Cut
<1>4. /\ SubSeq(q, 1, n) \in Seq(Feed!Events)
      /\ Len(SubSeq(q, 1, n)) = n
      /\ \A i \in 1..n : SubSeq(q, 1, n)[i] = q[i]
  BY <1>2
<1> QED BY <1>3, <1>4

(* A list without duplicates stays one when it is cut.                     *)
LEMMA CutListedOnce ==
  ASSUME NEW q \in Seq(Feed!Events),
         \A i, j \in 1..Len(q) : q[i] = q[j] => i = j,
         list' = Feed!Cut(q)
  PROVE  ListedOnce' /\ list' \in Seq(Feed!Events)
<1>1. Shown \in Nat \ {0}
  BY Parameters DEF Feed!Parameters
<1>2. /\ list' \in Seq(Feed!Events) /\ Len(list') <= Shown /\ Len(list') <= Len(q)
      /\ \A i \in 1..Len(list') : list'[i] = q[i]
  BY <1>1, CutKeeps
<1>3. \A i, j \in DOMAIN list' : list'[i] = list'[j] => i = j
  BY <1>2
<1> QED BY <1>2, <1>3 DEF ListedOnce, Feed!ListedOnce, Feed!IsInjective

(* What is added to a list, in front or behind, pushes something out only  *)
(* when the list is full.                                                  *)
LEMMA CutDelivers ==
  ASSUME NEW q \in Seq(Feed!Events), list' = Feed!Cut(q),
         NEW x, \E i \in 1..Len(q) : q[i] = x
  PROVE  Feed!Contains(list', x) \/ Len(list') = Shown
<1>1. Shown \in Nat \ {0}
  BY Parameters DEF Feed!Parameters
<1>2. /\ list' \in Seq(Feed!Events)
      /\ Len(list') = IF Len(q) < Shown THEN Len(q) ELSE Shown
      /\ \A i \in 1..Len(list') : list'[i] = q[i]
  BY CutKeeps
<1> QED BY <1>1, <1>2 DEF Feed!Contains

(* An event is pushed: the list is as sound as before, it has the event,   *)
(* and what it had, unless it is full.                                     *)
LEMMA PushStep ==
  ASSUME FeedType, ListedOnce, NEW e \in Feed!Events, list' = Feed!Pushed(e)
  PROVE  /\ ListedOnce' /\ list' \in Seq(Feed!Events)
         /\ Feed!Contains(list', e)
         /\ \A x : Feed!Contains(list, x) => Feed!Contains(list', x) \/ Len(list') = Shown
         /\ Len(list) = Shown => Len(list') = Shown
<1>1. Shown \in Nat \ {0}
  BY Parameters DEF Feed!Parameters
<1>2. list \in Seq(Feed!Events)
  BY DEF FeedType
<1>3. CASE Feed!Contains(list, e)
  <2>1. list' = list
    BY <1>3 DEF Feed!Pushed
  <2> QED BY <1>2, <1>3, <2>1 DEF ListedOnce, Feed!ListedOnce, Feed!IsInjective, Feed!Contains
<1>4. CASE ~Feed!Contains(list, e)
  <2>1. PICK q : q = <<e>> \o list
    OBVIOUS
  <2>2. /\ q \in Seq(Feed!Events) /\ Len(q) = Len(list) + 1 /\ q[1] = e
        /\ \A i \in 1..Len(list) : q[i + 1] = list[i]
        /\ \A i \in 2..Len(q) : q[i] = list[i - 1]
    BY <1>2, <2>1
  <2>3. list' = Feed!Cut(q)
    BY <1>4, <2>1 DEF Feed!Pushed
  <2>4. \A i \in 1..Len(list) : list[i] # e
    BY <1>2, <1>4 DEF Feed!Contains
  <2>5. \A i, j \in 1..Len(list) : list[i] = list[j] => i = j
    BY <1>2 DEF ListedOnce, Feed!ListedOnce, Feed!IsInjective
  <2>6. \A i, j \in 1..Len(q) : q[i] = q[j] => i = j
    <3> SUFFICES ASSUME NEW i \in 1..Len(q), NEW j \in 1..Len(q), q[i] = q[j]
                 PROVE  i = j
      OBVIOUS
    <3>1. CASE i = 1 /\ j = 1
      BY <3>1
    <3>2. CASE i = 1 /\ j # 1
      <4>1. j \in 2..Len(q) /\ j - 1 \in 1..Len(list)
        BY <1>2, <2>2, <3>2
      <4> QED BY <2>2, <2>4, <3>2, <4>1
    <3>3. CASE i # 1 /\ j = 1
      <4>1. i \in 2..Len(q) /\ i - 1 \in 1..Len(list)
        BY <1>2, <2>2, <3>3
      <4> QED BY <2>2, <2>4, <3>3, <4>1
    <3>4. CASE i # 1 /\ j # 1
      <4>1. /\ i \in 2..Len(q) /\ i - 1 \in 1..Len(list)
            /\ j \in 2..Len(q) /\ j - 1 \in 1..Len(list)
        BY <1>2, <2>2, <3>4
      <4>2. list[i - 1] = list[j - 1]
        BY <2>2, <4>1
      <4>3. i - 1 = j - 1
        BY <2>5, <4>1, <4>2
      <4> QED BY <4>1, <4>3
    <3> QED BY <3>1, <3>2, <3>3, <3>4
  <2>7. ListedOnce' /\ list' \in Seq(Feed!Events)
    BY <2>2, <2>3, <2>6, CutListedOnce
  <2>8. /\ Len(list') = IF Len(q) < Shown THEN Len(q) ELSE Shown
        /\ \A i \in 1..Len(list') : list'[i] = q[i]
    BY <2>2, <2>3, CutKeeps
  <2>9. 1 \in 1..Len(list') /\ list'[1] = e
    BY <1>1, <1>2, <2>2, <2>8
  <2>10. ASSUME NEW x, Feed!Contains(list, x)
         PROVE  Feed!Contains(list', x) \/ Len(list') = Shown
    <3>1. PICK i \in 1..Len(list) : list[i] = x
      BY <2>10 DEF Feed!Contains
    <3>2. i + 1 \in 1..Len(q) /\ q[i + 1] = x
      BY <1>2, <2>2, <3>1
    <3> QED BY <2>2, <2>3, <3>2, CutDelivers
  <2>11. Feed!Contains(list', e)
    BY <2>9 DEF Feed!Contains
  <2>12. Len(list) = Shown => Len(list') = Shown
    BY <1>1, <1>2, <2>2, <2>8
  <2> QED BY <2>7, <2>10, <2>11, <2>12
<1> QED BY <1>3, <1>4

(* The history is appended: the rows that are not listed come behind.      *)
LEMMA AppendStep ==
  ASSUME FeedType, ListedOnce, Feed!AppendHistory
  PROVE  /\ ListedOnce' /\ list' \in Seq(Feed!Events)
         /\ \A x : Feed!Contains(list, x) => Feed!Contains(list', x) \/ Len(list') = Shown
         /\ Len(list) = Shown => Len(list') = Shown
<1>1. Shown \in Nat \ {0} /\ Page \in Nat \ {0}
  BY Parameters DEF Feed!Parameters
<1>2. list \in Seq(Feed!Events) /\ stored \in 0..MaxEvents /\ MaxEvents \in Nat
  BY Parameters DEF FeedType, Feed!Parameters
<1>3. PICK fresh \in Feed!Pages :
        /\ Feed!ToSet(fresh) = Feed!ToSet(page) \ Feed!ToSet(list)
        /\ list' = Feed!Cut(list \o fresh)
  BY DEF Feed!AppendHistory, Feed!Appended
<1>4. fresh \in Seq(1..stored) /\ \A i, j \in 1..Len(fresh) : i < j => fresh[i] > fresh[j]
  <2>1. PICK m \in 0..Page : fresh \in [1..m -> 1..stored]
    BY <1>3, Zenon DEF Feed!Pages, Feed!SeqOf
  <2>2. m \in Nat
    BY <1>1, <2>1
  <2>3. fresh \in Seq(1..stored)
    BY <2>1, <2>2, SeqDef, Zenon
  <2> QED BY <1>3, <2>3 DEF Feed!Pages
<1>5. fresh \in Seq(Feed!Events)
  BY <1>2, <1>4 DEF Feed!Events
<1>6. \A i, j \in 1..Len(fresh) : fresh[i] = fresh[j] => i = j
  <2> SUFFICES ASSUME NEW i \in 1..Len(fresh), NEW j \in 1..Len(fresh), i # j
               PROVE  fresh[i] # fresh[j]
    OBVIOUS
  <2>1. fresh[i] \in Int /\ fresh[j] \in Int
    BY <1>2, <1>4
  <2>2. i < j \/ j < i
    BY <1>4
  <2> QED BY <1>4, <2>1, <2>2
<1>7. \A i \in 1..Len(list), j \in 1..Len(fresh) : list[i] # fresh[j]
  <2> SUFFICES ASSUME NEW i \in 1..Len(list), NEW j \in 1..Len(fresh)
               PROVE  list[i] # fresh[j]
    OBVIOUS
  <2>1. list[i] \in Feed!ToSet(list) /\ fresh[j] \in Feed!ToSet(fresh)
    BY <1>2, <1>4 DEF Feed!ToSet
  <2> QED BY <1>3, <2>1
<1>8. PICK q : q = list \o fresh
  OBVIOUS
<1>9. /\ q \in Seq(Feed!Events) /\ Len(q) = Len(list) + Len(fresh)
      /\ \A i \in 1..Len(list) : q[i] = list[i]
      /\ \A i \in 1..Len(q) : i > Len(list) => q[i] = fresh[i - Len(list)]
  BY <1>2, <1>5, <1>8
<1>10. \A i, j \in 1..Len(list) : list[i] = list[j] => i = j
  BY <1>2 DEF ListedOnce, Feed!ListedOnce, Feed!IsInjective
<1>11. Len(list) \in Nat /\ Len(fresh) \in Nat
  BY <1>2, <1>5
<1>12. \A i, j \in 1..Len(q) : q[i] = q[j] => i = j
  <2> SUFFICES ASSUME NEW i \in 1..Len(q), NEW j \in 1..Len(q), q[i] = q[j]
               PROVE  i = j
    OBVIOUS
  <2>1. CASE i <= Len(list) /\ j <= Len(list)
    BY <1>9, <1>10, <1>11, <2>1
  <2>2. CASE i <= Len(list) /\ j > Len(list)
    <3>1. i \in 1..Len(list) /\ j - Len(list) \in 1..Len(fresh)
      BY <1>9, <1>11, <2>2
    <3> QED BY <1>7, <1>9, <2>2, <3>1
  <2>3. CASE i > Len(list) /\ j <= Len(list)
    <3>1. j \in 1..Len(list) /\ i - Len(list) \in 1..Len(fresh)
      BY <1>9, <1>11, <2>3
    <3> QED BY <1>7, <1>9, <2>3, <3>1
  <2>4. CASE i > Len(list) /\ j > Len(list)
    <3>1. i - Len(list) \in 1..Len(fresh) /\ j - Len(list) \in 1..Len(fresh)
      BY <1>9, <1>11, <2>4
    <3>2. i - Len(list) = j - Len(list)
      BY <1>6, <1>9, <2>4, <3>1
    <3> QED BY <1>11, <3>2
  <2> QED BY <1>11, <2>1, <2>2, <2>3, <2>4
<1>13. list' = Feed!Cut(q)
  BY <1>3, <1>8
<1>14. ListedOnce' /\ list' \in Seq(Feed!Events)
  BY <1>9, <1>12, <1>13, CutListedOnce
<1>15. ASSUME NEW x, Feed!Contains(list, x)
       PROVE  Feed!Contains(list', x) \/ Len(list') = Shown
  <2>1. PICK i \in 1..Len(list) : list[i] = x
    BY <1>15 DEF Feed!Contains
  <2>2. i \in 1..Len(q) /\ q[i] = x
    BY <1>9, <1>11, <2>1
  <2> QED BY <1>9, <1>13, <2>2, CutDelivers
<1>16. Len(list) = Shown => Len(list') = Shown
  <2>1. Len(list') = IF Len(q) < Shown THEN Len(q) ELSE Shown
    BY <1>9, <1>13, CutKeeps
  <2> QED BY <1>1, <1>9, <1>11, <2>1
<1> QED BY <1>14, <1>15, <1>16

-----------------------------------------------------------------------------
(* The feed.                                                               *)

(* A step that leaves the list alone keeps what was delivered, if every    *)
(* socket open after it was open before and lost nothing of its queue, or  *)
(* has just been subscribed.                                               *)
LEMMA SocketStep ==
  ASSUME FeedInv, list' = list, stored' = stored,
         feed' \in [Sockets -> SocketStates],
         queue' \in [Sockets -> Seq(Feed!Events)],
         heard' \in [Sockets -> SUBSET Feed!Events],
         \A s \in Sockets :
           feed'[s] = "open" =>
             \/ heard'[s] = {}
             \/ feed[s] = "open" /\ heard'[s] = heard[s] /\ queue'[s] = queue[s]
  PROVE  FeedInv'
<1>1. FeedType' /\ ListedOnce'
  BY DEF FeedInv, FeedType, ListedOnce, Feed!ListedOnce, Feed!IsInjective
<1>2. ASSUME NEW s \in Sockets, feed'[s] = "open", NEW e \in heard'[s]
      PROVE  Feed!Contains(list', e) \/ Feed!Contains(queue'[s], e) \/ Len(list') = Shown
  <2>1. feed[s] = "open" /\ heard'[s] = heard[s] /\ queue'[s] = queue[s]
    BY <1>2
  <2>2. Feed!Contains(list, e) \/ Feed!Contains(queue[s], e) \/ Len(list) = Shown
    BY <1>2, <2>1 DEF FeedInv, Delivered, Feed!Delivered, Feed!Open
  <2> QED BY <2>1, <2>2
<1>3. Delivered'
  <2> SUFFICES ASSUME NEW s \in Feed!Open', NEW e \in heard'[s]
               PROVE  \/ Feed!Contains(list, e)' \/ Feed!Contains(queue[s], e)'
                      \/ (Len(list) = Shown)'
    BY DEF Delivered, Feed!Delivered
  <2>1. s \in Sockets /\ feed'[s] = "open"
    BY DEF Feed!Open
  <2> QED BY <1>2, <2>1 DEF Feed!Contains
<1> QED BY <1>1, <1>3 DEF FeedInv

(* Whatever is turned to another state is heard of no more.                *)
LEMMA TurnStep ==
  ASSUME FeedInv, NEW s \in Sockets, NEW state \in SocketStates, Feed!Turn(s, state),
         list' = list, stored' = stored
  PROVE  FeedInv'
<1>1. feed \in [Sockets -> SocketStates]
  BY DEF FeedInv, FeedType
<1>2. queue \in [Sockets -> Seq(Feed!Events)]
  BY DEF FeedInv, FeedType
<1>3. heard \in [Sockets -> SUBSET Feed!Events]
  BY DEF FeedInv, FeedType
<1>4. feed' = [feed EXCEPT ![s] = state] /\ queue' = [queue EXCEPT ![s] = <<>>]
      /\ heard' = [heard EXCEPT ![s] = {}]
  BY DEF Feed!Turn
<1>5. feed' \in [Sockets -> SocketStates] /\ queue' \in [Sockets -> Seq(Feed!Events)]
      /\ heard' \in [Sockets -> SUBSET Feed!Events]
  BY <1>1, <1>2, <1>3, <1>4
<1>6. \A u \in Sockets :
        \/ heard'[u] = {}
        \/ feed'[u] = feed[u] /\ heard'[u] = heard[u] /\ queue'[u] = queue[u]
  BY <1>1, <1>2, <1>3, <1>4
<1> QED BY <1>5, <1>6, SocketStep

(* The effect is cleaned up and perhaps set up again.                      *)
LEMMA CleanStep ==
  ASSUME FeedInv, Feed!CloseCurrent, list' = list, stored' = stored,
         feed' \in [Sockets -> SocketStates],
         \A s \in Sockets : feed'[s] = "open" => Feed!Cleaned[s] = "open"
  PROVE  FeedInv'
<1>1. queue' \in [Sockets -> Seq(Feed!Events)] /\ heard' \in [Sockets -> SUBSET Feed!Events]
  BY DEF FeedInv, FeedType, Feed!CloseCurrent
<1>2. ASSUME NEW s \in Sockets, feed'[s] = "open"
      PROVE  feed[s] = "open" /\ heard'[s] = heard[s] /\ queue'[s] = queue[s]
  <2>1. feed[s] = "open" /\ s # current
    BY <1>2 DEF Feed!Cleaned
  <2> QED BY <2>1 DEF Feed!CloseCurrent
<1> QED BY <1>1, <1>2, SocketStep

(* A new socket is connecting, the others are in the states given.         *)
LEMMA ConnectKeeps ==
  ASSUME NEW states \in [Sockets -> SocketStates], Feed!Connect(states)
  PROVE  /\ feed' \in [Sockets -> SocketStates]
         /\ \A s \in Sockets : feed'[s] = "open" => states[s] = "open"
<1>1. PICK u \in Sockets : feed' = [states EXCEPT ![u] = "connecting"]
  BY Zenon DEF Feed!Connect
<1> QED BY <1>1 DEF SocketStates

(* What the cleanup leaves are states of sockets.                          *)
LEMMA CleanedType ==
  ASSUME FeedInv
  PROVE  Feed!Cleaned \in [Sockets -> SocketStates]
  BY DEF FeedInv, FeedType, Feed!Cleaned, SocketStates

(* An announcement goes to the queue of every open socket.                 *)
LEMMA AnnounceStep ==
  ASSUME FeedInv, NEW e \in Feed!Events, Feed!Announce(e)
  PROVE  FeedInv'
<1>1. /\ queue \in [Sockets -> Seq(Feed!Events)]
      /\ heard \in [Sockets -> SUBSET Feed!Events]
      /\ stored \in 0..MaxEvents
  BY DEF FeedInv, FeedType
<1>2. feed' = feed /\ list' = list /\ stored' \in {stored, e}
  BY DEF Feed!Announce
<1>3. \A s \in Sockets :
        /\ s \in Feed!Open => queue'[s] = Append(queue[s], e) /\ heard'[s] = heard[s] \cup {e}
        /\ s \notin Feed!Open => queue'[s] = queue[s] /\ heard'[s] = heard[s]
  BY DEF Feed!Announce
<1>4. FeedType'
  <2>1. queue' \in [Sockets -> Seq(Feed!Events)]
    BY <1>1 DEF Feed!Announce
  <2>2. heard' \in [Sockets -> SUBSET Feed!Events]
    BY <1>1 DEF Feed!Announce
  <2>3. stored' \in 0..MaxEvents
    BY <1>1, <1>2 DEF Feed!Events
  <2> QED BY <1>2, <2>1, <2>2, <2>3 DEF FeedInv, FeedType
<1>5. ListedOnce'
  BY <1>2 DEF FeedInv, ListedOnce, Feed!ListedOnce, Feed!IsInjective
<1>6. ASSUME NEW s \in Feed!Open, NEW x \in heard'[s]
      PROVE  Feed!Contains(list, x) \/ Feed!Contains(Append(queue[s], e), x) \/ Len(list) = Shown
  <2>1. s \in Sockets /\ queue[s] \in Seq(Feed!Events)
    BY <1>1 DEF Feed!Open
  <2>2. CASE x = e
    <3>1. Len(queue[s]) + 1 \in 1..Len(Append(queue[s], e)) /\ Append(queue[s], e)[Len(queue[s]) + 1] = e
      BY <2>1
    <3> QED BY <2>2, <3>1 DEF Feed!Contains
  <2>3. CASE x \in heard[s]
    <3>1. Feed!Contains(list, x) \/ Feed!Contains(queue[s], x) \/ Len(list) = Shown
      BY <2>3 DEF FeedInv, Delivered, Feed!Delivered
    <3>2. ASSUME Feed!Contains(queue[s], x)
          PROVE  Feed!Contains(Append(queue[s], e), x)
      <4>1. PICK i \in 1..Len(queue[s]) : queue[s][i] = x
        BY <3>2 DEF Feed!Contains
      <4>2. i \in 1..Len(Append(queue[s], e)) /\ Append(queue[s], e)[i] = x
        BY <2>1, <4>1
      <4> QED BY <4>2 DEF Feed!Contains
    <3> QED BY <3>1, <3>2
  <2> QED BY <1>3, <1>6, <2>1, <2>2, <2>3
<1>7. Delivered'
  <2> SUFFICES ASSUME NEW s \in Feed!Open', NEW x \in heard'[s]
               PROVE  \/ Feed!Contains(list, x)' \/ Feed!Contains(queue[s], x)'
                      \/ (Len(list) = Shown)'
    BY DEF Delivered, Feed!Delivered
  <2>1. s \in Feed!Open /\ s \in Sockets
    BY <1>2 DEF Feed!Open
  <2>2. Feed!Contains(list, x) \/ Feed!Contains(Append(queue[s], e), x) \/ Len(list) = Shown
    BY <1>6, <2>1
  <2>3. queue'[s] = Append(queue[s], e)
    BY <1>3, <2>1
  <2> QED BY <1>2, <2>2, <2>3 DEF Feed!Contains
<1> QED BY <1>4, <1>5, <1>7 DEF FeedInv

(* A message goes from a queue to the list.                                *)
LEMMA MessageStep ==
  ASSUME FeedInv, NEW s \in Sockets, Feed!Message(s)
  PROVE  FeedInv'
<1>1. /\ queue \in [Sockets -> Seq(Feed!Events)] /\ queue[s] \in Seq(Feed!Events)
      /\ queue[s] # <<>> /\ FeedType /\ ListedOnce
  BY DEF FeedInv, FeedType, Feed!Message
<1>2. PICK e : e = Head(queue[s])
  OBVIOUS
<1>3. e \in Feed!Events /\ list' = Feed!Pushed(e)
  BY <1>1, <1>2 DEF Feed!Message
<1>4. /\ ListedOnce' /\ list' \in Seq(Feed!Events)
      /\ Feed!Contains(list', e)
      /\ \A x : Feed!Contains(list, x) => Feed!Contains(list', x) \/ Len(list') = Shown
      /\ Len(list) = Shown => Len(list') = Shown
  BY <1>1, <1>3, PushStep
<1>5. /\ feed' = feed /\ heard' = heard /\ stored' = stored
      /\ queue' = [queue EXCEPT ![s] = Tail(queue[s])]
  BY DEF Feed!Message
<1>6. FeedType'
  <2>1. queue' \in [Sockets -> Seq(Feed!Events)]
    BY <1>1, <1>5
  <2> QED BY <1>4, <1>5, <2>1 DEF FeedInv, FeedType
<1>7. ASSUME NEW u \in Feed!Open, NEW x \in heard[u]
      PROVE  Feed!Contains(list', x) \/ Feed!Contains(queue'[u], x) \/ Len(list') = Shown
  <2>1. u \in Sockets
    BY DEF Feed!Open
  <2>2. Feed!Contains(list, x) \/ Feed!Contains(queue[u], x) \/ Len(list) = Shown
    BY DEF FeedInv, Delivered, Feed!Delivered
  <2>3. CASE Feed!Contains(queue[u], x) /\ u = s
    <3>1. PICK i \in 1..Len(queue[s]) : queue[s][i] = x
      BY <2>3 DEF Feed!Contains
    <3>2. CASE i = 1
      BY <1>1, <1>2, <1>4, <3>1, <3>2
    <3>3. CASE i # 1
      <4>1. /\ Len(Tail(queue[s])) = Len(queue[s]) - 1
            /\ \A j \in 1..Len(Tail(queue[s])) : Tail(queue[s])[j] = queue[s][j + 1]
        BY <1>1
      <4>2. i - 1 \in 1..Len(Tail(queue[s])) /\ Tail(queue[s])[i - 1] = x
        BY <1>1, <3>1, <3>3, <4>1
      <4>3. queue'[u] = Tail(queue[s])
        BY <1>1, <1>5, <2>3
      <4> QED BY <4>2, <4>3 DEF Feed!Contains
    <3> QED BY <3>2, <3>3
  <2>4. CASE Feed!Contains(queue[u], x) /\ u # s
    BY <1>1, <1>5, <2>1, <2>4
  <2> QED BY <1>4, <2>2, <2>3, <2>4
<1>8. Delivered'
  <2> SUFFICES ASSUME NEW u \in Feed!Open', NEW x \in heard'[u]
               PROVE  \/ Feed!Contains(list, x)' \/ Feed!Contains(queue[u], x)'
                      \/ (Len(list) = Shown)'
    BY DEF Delivered, Feed!Delivered
  <2>1. u \in Feed!Open /\ x \in heard[u]
    BY <1>5 DEF Feed!Open
  <2>2. Feed!Contains(list', x) \/ Feed!Contains(queue'[u], x) \/ Len(list') = Shown
    BY <1>7, <2>1
  <2> QED BY <2>2 DEF Feed!Contains
<1> QED BY <1>4, <1>6, <1>8 DEF FeedInv

(* The history comes behind what is listed.                                *)
LEMMA HistoryStep ==
  ASSUME FeedInv, Feed!AppendHistory
  PROVE  FeedInv'
<1>1. /\ ListedOnce' /\ list' \in Seq(Feed!Events)
      /\ \A x : Feed!Contains(list, x) => Feed!Contains(list', x) \/ Len(list') = Shown
      /\ Len(list) = Shown => Len(list') = Shown
  BY AppendStep DEF FeedInv
<1>2. feed' = feed /\ queue' = queue /\ heard' = heard /\ stored' = stored
  BY DEF Feed!AppendHistory, Feed!socketVars
<1>3. FeedType'
  BY <1>1, <1>2 DEF FeedInv, FeedType
<1>4. Delivered'
  <2> SUFFICES ASSUME NEW s \in Feed!Open', NEW x \in heard'[s]
               PROVE  \/ Feed!Contains(list, x)' \/ Feed!Contains(queue[s], x)'
                      \/ (Len(list) = Shown)'
    BY DEF Delivered, Feed!Delivered
  <2>1. s \in Feed!Open /\ x \in heard[s]
    BY <1>2 DEF Feed!Open
  <2>2. Feed!Contains(list, x) \/ Feed!Contains(queue[s], x) \/ Len(list) = Shown
    BY <2>1 DEF FeedInv, Delivered, Feed!Delivered
  <2>3. Feed!Contains(list', x) \/ Feed!Contains(queue'[s], x) \/ Len(list') = Shown
    BY <1>1, <1>2, <2>2
  <2> QED BY <2>3 DEF Feed!Contains
<1> QED BY <1>1, <1>3, <1>4 DEF FeedInv

(* A retry timer runs out.                                                 *)
LEMMA FireStep ==
  ASSUME FeedInv, NEW s \in Sockets, Feed!Fire(s)
  PROVE  FeedInv'
<1>1. list' = list /\ stored' = stored /\ feed[s] = "retry"
  BY DEF Feed!Fire
<1>2. feed \in [Sockets -> SocketStates]
  BY DEF FeedInv, FeedType
<1>3. CASE ~alive
  BY <1>1, <1>3, TurnStep DEF Feed!Fire, SocketStates
<1>4. CASE alive /\ token = "none"
  <2>1. feed' = [Feed!Cleaned EXCEPT ![s] = "unused"] /\ Feed!CloseCurrent
    BY <1>4 DEF Feed!Fire
  <2>2. Feed!Cleaned \in [Sockets -> SocketStates]
    BY CleanedType
  <2>3. /\ feed' \in [Sockets -> SocketStates]
        /\ \A u \in Sockets : feed'[u] = "open" => Feed!Cleaned[u] = "open"
    BY <2>1, <2>2 DEF SocketStates
  <2> QED BY <1>1, <2>1, <2>3, CleanStep
<1>5. CASE alive /\ token # "none"
  <2>1. PICK states : states = [feed EXCEPT ![s] = "unused"]
    OBVIOUS
  <2>2. Feed!Connect(states) /\ queue' = queue /\ heard' = heard
    BY <1>5, <2>1 DEF Feed!Fire
  <2>3. states \in [Sockets -> SocketStates]
    BY <1>2, <2>1 DEF SocketStates
  <2>4. /\ feed' \in [Sockets -> SocketStates]
        /\ \A u \in Sockets : feed'[u] = "open" => states[u] = "open"
    BY <2>2, <2>3, ConnectKeeps
  <2>5. \A u \in Sockets : states[u] = "open" => feed[u] = "open"
    BY <1>2, <2>1
  <2>6. queue' \in [Sockets -> Seq(Feed!Events)] /\ heard' \in [Sockets -> SUBSET Feed!Events]
    BY <2>2 DEF FeedInv, FeedType
  <2> QED BY <1>1, <2>2, <2>4, <2>5, <2>6, SocketStep
<1> QED BY <1>3, <1>4, <1>5

(* Whatever happens keeps the list and what was delivered.                 *)
LEMMA FeedStep ==
  ASSUME FeedInv, Feed!Next
  PROVE  FeedInv'
<1>1. feed \in [Sockets -> SocketStates]
  BY DEF FeedInv, FeedType
<1>2. queue \in [Sockets -> Seq(Feed!Events)] /\ heard \in [Sockets -> SUBSET Feed!Events]
  BY DEF FeedInv, FeedType
<1>3. ASSUME feed' = feed, queue' = queue, heard' = heard, list' = list, stored' = stored
      PROVE  FeedInv'
  BY <1>1, <1>2, <1>3, SocketStep
<1>4. ASSUME NEW e \in Feed!Events, Feed!Announce(e)
      PROVE  FeedInv'
  BY <1>4, AnnounceStep
<1>5. CASE Feed!Weather \/ Feed!AskHistory
  BY <1>3, <1>5 DEF Feed!Weather, Feed!AskHistory, Feed!socketVars
<1>6. ASSUME NEW s \in Sockets, Feed!Socket(s) \/ Feed!Lose(s)
      PROVE  FeedInv'
  <2>1. CASE Feed!Accept(s)
    BY <2>1, TurnStep DEF Feed!Accept, SocketStates
  <2>2. CASE Feed!Subscribe(s)
    BY <2>2, TurnStep DEF Feed!Subscribe, SocketStates
  <2>3. CASE Feed!Refuse(s)
    BY <2>3, TurnStep DEF Feed!Refuse, SocketStates
  <2>4. CASE Feed!OnClose(s)
    BY <2>4, TurnStep DEF Feed!OnClose, SocketStates
  <2>5. CASE Feed!Lose(s)
    BY <2>5, TurnStep DEF Feed!Lose, SocketStates
  <2> QED BY <1>6, <2>1, <2>2, <2>3, <2>4, <2>5, MessageStep, FireStep DEF Feed!Socket
<1>7. CASE Feed!Leave
  <2>1. Feed!CloseCurrent /\ feed' = Feed!Cleaned /\ list' = list /\ stored' = stored
    BY <1>7 DEF Feed!Leave
  <2> QED BY <2>1, CleanedType, CleanStep
<1>8. CASE Feed!AppendHistory
  BY <1>8, HistoryStep
<1>9. CASE Feed!Enter
  <2>1. Feed!Connect(feed) /\ queue' = queue /\ heard' = heard /\ list' = list /\ stored' = stored
    BY <1>9 DEF Feed!Enter
  <2>2. /\ feed' \in [Sockets -> SocketStates]
        /\ \A s \in Sockets : feed'[s] = "open" => feed[s] = "open"
    BY <1>1, <2>1, ConnectKeeps
  <2> QED BY <1>2, <2>1, <2>2, SocketStep
<1>10. CASE Feed!Rerun
  <2>1. Feed!Connect(Feed!Cleaned) /\ Feed!CloseCurrent /\ list' = list /\ stored' = stored
    BY <1>10 DEF Feed!Rerun
  <2>2. /\ feed' \in [Sockets -> SocketStates]
        /\ \A s \in Sockets : feed'[s] = "open" => Feed!Cleaned[s] = "open"
    BY <2>1, CleanedType, ConnectKeeps
  <2> QED BY <2>1, <2>2, CleanStep
<1> QED BY <1>4, <1>5, <1>6, <1>7, <1>8, <1>9, <1>10 DEF Feed!Next, Feed!Step

-----------------------------------------------------------------------------
(* The player.                                                             *)

PlayerType ==
  /\ setup \in Setups \cup {Player!NoSetup}
  /\ ws \in Sockets \cup {NoSocket}
  /\ socket \in [Sockets -> {"unused", "connecting", "open", "closing"}]
  /\ retrying \subseteq Sockets /\ lapped \in BOOLEAN

(* Before the element is made nothing has happened.                        *)
NotMade ==
  setup = Player!NoSetup =>
    /\ \A s \in Sockets : socket[s] = "unused"
    /\ ws = NoSocket /\ peer = "none" /\ retrying = {} /\ ms = "none"
    /\ ~leaving /\ ~hidden /\ ~lapped /\ text = ""

(* The player of LiveView.tsx: not hidden with its page, and no WebRTC.    *)
Simple == setup.background /\ "webrtc" \notin setup.modes

(* It has no peer connection and no disconnect timer, every socket that it *)
(* uses is the one it knows, and that one is not taken for closed.         *)
SimpleKnows ==
  Simple =>
    /\ peer = "none" /\ ~leaving /\ ~hidden
    /\ \A s \in Sockets : socket[s] # "unused" => s = ws
    /\ ws # NoSocket => wsState # "closed"

InUse(state) == state \in {"connecting", "open"}

(* While no connection was begun too early, none is in use next to one     *)
(* whose close event is still to come.                                     *)
AloneInUse ==
  ~lapped /\ ws # NoSocket /\ InUse(socket[ws]) =>
    \A s \in Sockets : socket[s] # "closing"

OneInUse == ~lapped \/ Simple => \A s \in Sockets : InUse(socket[s]) => s = ws

SocketInv == PlayerType /\ NotMade /\ SimpleKnows /\ AloneInUse /\ OneInUse

(* The player has one connection by its invariant.                         *)
LEMMA OneByInvariant ==
  ASSUME SocketInv
  PROVE  OneConnection
BY DEF SocketInv, OneInUse, InUse, Simple, OneConnection, Player!OneConnection, Player!Live

(* Nothing of the connection changes.                                      *)
LEMMA StillStep ==
  ASSUME SocketInv, setup # Player!NoSetup,
         UNCHANGED <<setup, ws, wsState, socket, leaving, hidden, lapped>>,
         retrying' \subseteq Sockets, peer' = peer \/ peer # "none"
  PROVE  SocketInv'
BY DEF SocketInv, PlayerType, NotMade, SimpleKnows, AloneInUse, OneInUse, InUse, Simple

(* A connection is begun, where there is none.                             *)
LEMMA BeginStep ==
  ASSUME SocketInv, NEW s \in Sockets, ws = NoSocket, socket[s] = "unused",
         setup' \in Setups, setup' = setup \/ setup = Player!NoSetup,
         ws' = s, wsState' = "connecting",
         socket' = [socket EXCEPT ![s] = "connecting"],
         retrying' \subseteq Sockets, peer' = "none" \/ peer # "none",
         leaving' = leaving \/ ~leaving', hidden' = hidden \/ ~hidden',
         lapped' = (lapped \/ "closing" \in Player!Range(socket'))
  PROVE  SocketInv'
<1>1. NoSocket \notin Sockets /\ Player!NoSetup \notin Setups
  BY Parameters DEF Player!Sizes
<1>2. socket \in [Sockets -> {"unused", "connecting", "open", "closing"}] /\ s # NoSocket
  BY <1>1 DEF SocketInv, PlayerType
<1>3. \A u \in Sockets : u # s => socket'[u] = socket[u]
  BY <1>2
<1>4. socket'[s] = "connecting"
  BY <1>2
<1>5. ~lapped' => ~lapped /\ \A u \in Sockets : socket'[u] # "closing"
  <2>1. DOMAIN socket' = Sockets
    BY <1>2
  <2> QED BY <2>1 DEF Player!Range
<1>6. PlayerType'
  BY <1>2 DEF PlayerType
<1>7. NotMade'
  BY <1>1 DEF NotMade
<1>8. Simple' => ~lapped \/ Simple
  BY DEF SocketInv, NotMade, Simple
<1>9. \A u \in Sockets : ~lapped \/ Simple => ~InUse(socket[u])
  BY <1>1 DEF SocketInv, OneInUse
<1>10. SimpleKnows'
  <2> SUFFICES ASSUME Simple'
               PROVE  /\ peer' = "none" /\ ~leaving' /\ ~hidden'
                      /\ \A u \in Sockets : socket'[u] # "unused" => u = ws'
                      /\ ws' # NoSocket => wsState' # "closed"
    BY DEF SimpleKnows
  <2>1. peer = "none" /\ ~leaving /\ ~hidden
    BY DEF SocketInv, NotMade, SimpleKnows, Simple
  <2>2. \A u \in Sockets : socket[u] = "unused"
    BY <1>1 DEF SocketInv, NotMade, SimpleKnows, Simple
  <2> QED BY <1>3, <2>1, <2>2
<1>11. AloneInUse'
  BY <1>5 DEF AloneInUse
<1>12. OneInUse'
  <2>1. ASSUME ~lapped' \/ Simple', NEW u \in Sockets, u # s
        PROVE  ~InUse(socket'[u])
    BY <1>3, <1>5, <1>8, <1>9, <2>1
  <2> QED BY <2>1 DEF OneInUse
<1> QED BY <1>6, <1>7, <1>10, <1>11, <1>12 DEF SocketInv

(* A connection in use, or the one that the player knows, ends: the player *)
(* knows it until its close event, or has forgotten it.                    *)
LEMMA EndStep ==
  ASSUME SocketInv, NEW s \in Sockets, setup # Player!NoSetup, setup' = setup,
         socket' = [socket EXCEPT ![s] = "closing"],
         \/ ws' = ws /\ wsState' = wsState /\ (s = ws \/ InUse(socket[s]))
         \/ ws' = NoSocket /\ s = ws /\ ~Simple,
         Simple => peer' = peer /\ leaving' = leaving /\ hidden' = hidden,
         retrying' \subseteq Sockets, lapped' = lapped
  PROVE  SocketInv'
<1>1. NoSocket \notin Sockets
  BY Parameters DEF Player!Sizes
<1>2. socket \in [Sockets -> {"unused", "connecting", "open", "closing"}]
  BY DEF SocketInv, PlayerType
<1>3. socket'[s] = "closing" /\ \A u \in Sockets : u # s => socket'[u] = socket[u]
  BY <1>2
<1>4. PlayerType' /\ NotMade'
  BY <1>2 DEF SocketInv, PlayerType, NotMade
<1>5. SimpleKnows'
  BY <1>3 DEF SocketInv, SimpleKnows, Simple, OneInUse
<1>6. AloneInUse'
  <2> SUFFICES ASSUME ~lapped, ws' # NoSocket
               PROVE  ~InUse(socket'[ws'])
    BY DEF AloneInUse
  <2>1. ws' = ws /\ s = ws
    BY DEF SocketInv, OneInUse
  <2> QED BY <1>3, <2>1 DEF InUse
<1>7. OneInUse'
  BY <1>3 DEF SocketInv, OneInUse, InUse, Simple
<1> QED BY <1>4, <1>5, <1>6, <1>7 DEF SocketInv

(* The player forgets a connection that it has none of.                    *)
LEMMA ForgetStep ==
  ASSUME SocketInv, setup # Player!NoSetup, setup' = setup, ws = NoSocket, ws' = ws,
         socket' = socket, ~Simple, retrying' \subseteq Sockets, lapped' = lapped
  PROVE  SocketInv'
BY DEF SocketInv, PlayerType, NotMade, SimpleKnows, AloneInUse, OneInUse, InUse, Simple

(* The close event of a socket.                                            *)
LEMMA OnCloseStep ==
  ASSUME SocketInv, NEW s \in Sockets, Player!OnClose(s), lapped' = lapped
  PROVE  SocketInv'
<1>1. NoSocket \notin Sockets
  BY Parameters DEF Player!Sizes
<1>2. socket \in [Sockets -> {"unused", "connecting", "open", "closing"}]
  BY DEF SocketInv, PlayerType
<1>3. socket[s] = "closing" /\ socket' = [socket EXCEPT ![s] = "unused"]
  BY DEF Player!OnClose, Player!Closed
<1>4. socket'[s] = "unused" /\ \A u \in Sockets : u # s => socket'[u] = socket[u]
  BY <1>2, <1>3
<1>5. setup # Player!NoSetup /\ setup' = setup /\ peer' = peer /\ leaving' = leaving /\ hidden' = hidden
  BY <1>3 DEF SocketInv, NotMade, Player!OnClose, Player!rtc
<1>6. \/ wsState = "closed" /\ ws' = ws /\ wsState' = wsState /\ retrying' = retrying
      \/ wsState # "closed" /\ ws' = NoSocket /\ retrying' = retrying \cup {s}
  BY DEF Player!OnClose
<1>7. PlayerType' /\ NotMade'
  <2>1. socket' \in [Sockets -> {"unused", "connecting", "open", "closing"}]
    BY <1>2, <1>3
  <2> QED BY <1>5, <1>6, <2>1 DEF SocketInv, PlayerType, NotMade
<1>8. Simple => wsState # "closed" /\ s = ws
  BY <1>1, <1>3 DEF SocketInv, SimpleKnows
<1>9. SimpleKnows'
  BY <1>4, <1>5, <1>6, <1>8 DEF SocketInv, SimpleKnows, Simple
<1>10. AloneInUse'
  BY <1>1, <1>4, <1>6 DEF SocketInv, PlayerType, AloneInUse, InUse
<1>11. OneInUse'
  <2> SUFFICES ASSUME ~lapped \/ Simple, NEW u \in Sockets, InUse(socket'[u])
               PROVE  u = ws'
    BY <1>5 DEF OneInUse, Simple
  <2>1. u # s /\ u = ws /\ InUse(socket[u])
    BY <1>4 DEF SocketInv, OneInUse, InUse
  <2>2. ~Simple /\ ~lapped
    BY <1>8, <2>1
  <2>3. ws # NoSocket /\ \A v \in Sockets : socket[v] # "closing"
    BY <1>1, <2>1, <2>2 DEF SocketInv, AloneInUse
  <2> QED BY <1>3, <2>3
<1> QED BY <1>7, <1>9, <1>10, <1>11 DEF SocketInv

(* A connection opens, with this.ws or without.                            *)
LEMMA OnOpenStep ==
  ASSUME SocketInv, NEW s \in Sockets, Player!OnOpen(s) \/ Player!OnOpenOrphan(s),
         lapped' = lapped
  PROVE  SocketInv'
<1>1. NoSocket \notin Sockets
  BY Parameters DEF Player!Sizes
<1>2. socket \in [Sockets -> {"unused", "connecting", "open", "closing"}]
  BY DEF SocketInv, PlayerType
<1>3. /\ socket[s] = "connecting" /\ socket' = [socket EXCEPT ![s] = "open"]
      /\ wsState' = "open" /\ ws' = ws
  BY DEF Player!OnOpen, Player!OnOpenOrphan
<1>4. socket'[s] = "open" /\ \A u \in Sockets : u # s => socket'[u] = socket[u]
  BY <1>2, <1>3
<1>5. setup # Player!NoSetup /\ setup' = setup /\ leaving' = leaving /\ hidden' = hidden
      /\ retrying' = retrying /\ (Simple => peer' = peer)
  BY <1>3 DEF SocketInv, NotMade, Player!OnOpen, Player!OnOpenOrphan, Player!rtc, Simple
<1>6. PlayerType' /\ NotMade'
  <2>1. socket' \in [Sockets -> {"unused", "connecting", "open", "closing"}]
    BY <1>2, <1>3
  <2> QED BY <1>3, <1>5, <2>1 DEF SocketInv, PlayerType, NotMade
<1>7. SimpleKnows'
  BY <1>3, <1>4, <1>5 DEF SocketInv, SimpleKnows, Simple
<1>8. AloneInUse'
  BY <1>1, <1>3, <1>4 DEF SocketInv, PlayerType, AloneInUse, InUse
<1>9. OneInUse'
  BY <1>3, <1>4, <1>5 DEF SocketInv, OneInUse, InUse, Simple
<1> QED BY <1>6, <1>7, <1>8, <1>9 DEF SocketInv

(* onconnect begins a connection or does nothing.                          *)
LEMMA OnConnectStep ==
  ASSUME SocketInv, setup # Player!NoSetup, setup' = setup, Player!OnConnect(socket),
         retrying' \subseteq Sockets, peer' = peer,
         leaving' = leaving \/ ~leaving', hidden' = hidden \/ ~hidden',
         lapped' = (lapped \/ (ws' \notin {ws, NoSocket} /\ "closing" \in Player!Range(socket')))
  PROVE  SocketInv'
<1>1. NoSocket \notin Sockets /\ setup \in Setups
  BY Parameters DEF Player!Sizes, SocketInv, PlayerType
<1>2. CASE ws # NoSocket \/ peer # "none"
  <2>1. socket' = socket /\ ws' = ws /\ wsState' = wsState /\ lapped' = lapped
    BY <1>2 DEF Player!OnConnect, SocketInv, PlayerType
  <2>2. PlayerType' /\ NotMade'
    BY <2>1 DEF SocketInv, PlayerType, NotMade
  <2>3. SimpleKnows'
    BY <2>1 DEF SocketInv, SimpleKnows, Simple
  <2>4. AloneInUse' /\ OneInUse'
    BY <2>1 DEF SocketInv, AloneInUse, OneInUse, InUse, Simple
  <2> QED BY <2>2, <2>3, <2>4 DEF SocketInv
<1>3. CASE ~(ws # NoSocket \/ peer # "none")
  <2>1. PICK s \in Sockets : /\ socket[s] = "unused" /\ ws' = s /\ wsState' = "connecting"
                             /\ socket' = [socket EXCEPT ![s] = "connecting"]
    BY <1>3 DEF Player!OnConnect
  <2>2. lapped' = (lapped \/ "closing" \in Player!Range(socket'))
    BY <1>1, <1>3, <2>1
  <2> QED BY <1>1, <1>3, <2>1, <2>2, BeginStep
<1> QED BY <1>2, <1>3

(* Whatever the player, its sockets and its page do.                       *)
LEMMA PlayerStep ==
  ASSUME SocketInv, Player!Next
  PROVE  SocketInv'
<1>1. NoSocket \notin Sockets /\ Player!NoSetup \notin Setups
  BY Parameters DEF Player!Sizes
<1>2. lapped' = (lapped \/ (ws' \notin {ws, NoSocket} /\ "closing" \in Player!Range(socket')))
  BY DEF Player!Next
<1>3. PlayerType
  BY DEF SocketInv
<1>4. ws' \in {ws, NoSocket} => lapped' = lapped
  BY <1>2, <1>3 DEF PlayerType
<1>5. ASSUME NEW u \in Setups, Player!Attach(u)
      PROVE  SocketInv'
  <2>1. setup = Player!NoSetup /\ ws = NoSocket /\ peer = "none"
        /\ peer' = peer /\ retrying' = retrying /\ leaving' = leaving /\ hidden' = hidden
    BY <1>5 DEF Player!Attach, Player!rtc, SocketInv, NotMade
  <2>2. PICK s \in Sockets : /\ socket[s] = "unused" /\ ws' = s /\ wsState' = "connecting"
                             /\ socket' = [socket EXCEPT ![s] = "connecting"]
    BY <1>5, <2>1 DEF Player!Attach, Player!OnConnect
  <2>3. lapped' = (lapped \/ "closing" \in Player!Range(socket'))
    BY <1>1, <1>2, <2>1, <2>2
  <2>4. setup' \in Setups /\ retrying' \subseteq Sockets
    BY <1>3, <1>5, <2>1 DEF Player!Attach, PlayerType
  <2> QED BY <2>1, <2>2, <2>3, <2>4, BeginStep
<1>6. CASE Player!SourceOpen \/ Player!UpdateEnd
  <2>1. CASE setup # Player!NoSetup
    <3>1. UNCHANGED <<setup, ws, wsState, socket, leaving, hidden, lapped, retrying, peer>>
      BY <1>4, <1>6 DEF Player!SourceOpen, Player!UpdateEnd, Player!rtc
    <3> QED BY <1>3, <2>1, <3>1, StillStep DEF PlayerType
  <2>2. CASE setup = Player!NoSetup
    <3>1. /\ UNCHANGED <<setup, ws, wsState, socket, leaving, hidden, retrying, peer, text, ms>>
          /\ lapped' = lapped
      BY <1>4, <1>6, <2>2 DEF Player!SourceOpen, Player!UpdateEnd, Player!rtc, SocketInv, NotMade
    <3> QED BY <3>1 DEF SocketInv, PlayerType, NotMade, SimpleKnows, AloneInUse, OneInUse,
                        InUse, Simple
  <2> QED BY <2>1, <2>2
<1>7. CASE Player!VideoError
  <2>1. /\ ws \in Sockets /\ setup # Player!NoSetup /\ socket' = [socket EXCEPT ![ws] = "closing"]
        /\ UNCHANGED <<setup, ws, wsState, leaving, hidden, retrying, peer>>
    BY <1>3, <1>7 DEF Player!VideoError, Player!rtc, SocketInv, NotMade, PlayerType
  <2> QED BY <1>3, <1>4, <2>1, EndStep DEF PlayerType
<1>8. CASE Player!PeerUp
  <2>1. /\ setup # Player!NoSetup /\ peer # "none"
        /\ UNCHANGED <<setup, ws, wsState, socket, leaving, hidden, retrying>>
    BY <1>8 DEF Player!PeerUp, SocketInv, NotMade
  <2> QED BY <1>3, <1>4, <2>1, StillStep DEF PlayerType
<1>9. CASE Player!OnPcVideo
  <2>1. /\ setup # Player!NoSetup /\ peer # "none" /\ ~Simple
        /\ UNCHANGED <<setup, leaving, hidden, retrying>>
    BY <1>9 DEF Player!OnPcVideo, SocketInv, NotMade, SimpleKnows
  <2>2. CASE ws' = NoSocket /\ socket' = IF ws = NoSocket THEN socket ELSE [socket EXCEPT ![ws] = "closing"]
    <3>1. CASE ws = NoSocket
      BY <1>3, <1>4, <2>1, <2>2, <3>1, ForgetStep DEF PlayerType
    <3>2. CASE ws # NoSocket
      <4>1. ws \in Sockets
        BY <1>3, <3>2 DEF PlayerType
      <4> QED BY <1>3, <1>4, <2>1, <2>2, <3>2, <4>1, EndStep DEF PlayerType
    <3> QED BY <3>1, <3>2
  <2>3. CASE UNCHANGED <<ws, wsState, socket>>
    BY <1>3, <1>4, <2>1, <2>3, StillStep DEF PlayerType
  <2> QED BY <1>9, <2>2, <2>3 DEF Player!OnPcVideo
<1>10. CASE Player!PeerFails
  <2>1. /\ setup # Player!NoSetup /\ peer # "none"
        /\ UNCHANGED <<setup, leaving, hidden, retrying>>
    BY <1>10 DEF Player!PeerFails, SocketInv, NotMade
  <2>2. CASE ws # NoSocket
    <3>1. UNCHANGED <<ws, wsState, socket>>
      BY <1>10, <2>2 DEF Player!PeerFails
    <3> QED BY <1>3, <1>4, <2>1, <3>1, StillStep DEF PlayerType
  <2>3. CASE ws = NoSocket
    <3>1. PICK s \in Sockets : /\ socket[s] = "unused" /\ ws' = s /\ wsState' = "connecting"
                               /\ socket' = [socket EXCEPT ![s] = "connecting"]
      BY <1>10, <2>3 DEF Player!PeerFails
    <3>2. lapped' = (lapped \/ "closing" \in Player!Range(socket'))
      BY <1>1, <1>2, <2>3, <3>1
    <3>3. setup' \in Setups /\ retrying' \subseteq Sockets
      BY <1>3, <2>1 DEF PlayerType
    <3> QED BY <2>1, <2>3, <3>1, <3>2, <3>3, BeginStep
  <2> QED BY <2>2, <2>3
<1>11. CASE Player!Hide
  <2>1. /\ setup # Player!NoSetup /\ ~Simple
        /\ UNCHANGED <<setup, ws, wsState, socket, retrying, peer>>
    BY <1>11 DEF Player!Hide, Player!rtc, SocketInv, NotMade, Simple
  <2>2. lapped' = lapped
    BY <1>4, <2>1
  <2> QED BY <2>1, <2>2 DEF SocketInv, PlayerType, NotMade, SimpleKnows, AloneInUse, OneInUse,
                            InUse, Simple
<1>12. CASE Player!Show
  <2>1. /\ setup # Player!NoSetup /\ ~hidden' /\ ~leaving' /\ Player!OnConnect(socket)
        /\ UNCHANGED <<setup, retrying, peer>>
    BY <1>12 DEF Player!Show, Player!rtc, SocketInv, NotMade
  <2> QED BY <1>2, <1>3, <2>1, OnConnectStep DEF PlayerType
<1>13. CASE Player!Disconnect
  <2>1. /\ setup # Player!NoSetup /\ ~Simple /\ setup' = setup /\ ws' = NoSocket
        /\ socket' = IF ws = NoSocket THEN socket ELSE [socket EXCEPT ![ws] = "closing"]
        /\ retrying' \subseteq Sockets
    BY <1>3, <1>13 DEF Player!Disconnect, SocketInv, PlayerType, NotMade, SimpleKnows
  <2>2. CASE ws = NoSocket
    BY <1>4, <2>1, <2>2, ForgetStep
  <2>3. CASE ws # NoSocket
    <3>1. ws \in Sockets
      BY <1>3, <2>3 DEF PlayerType
    <3> QED BY <1>4, <2>1, <2>3, <3>1, EndStep
  <2> QED BY <2>2, <2>3
<1>14. ASSUME NEW s \in Sockets, Player!OnOpen(s) \/ Player!OnOpenOrphan(s)
       PROVE  SocketInv'
  <2>1. ws' = ws
    BY <1>14 DEF Player!OnOpen, Player!OnOpenOrphan
  <2> QED BY <1>4, <1>14, <2>1, OnOpenStep
<1>15. ASSUME NEW s \in Sockets, Player!Lose(s)
       PROVE  SocketInv'
  <2>1. /\ InUse(socket[s]) /\ socket' = [socket EXCEPT ![s] = "closing"]
        /\ UNCHANGED <<setup, ws, wsState, leaving, hidden, retrying, peer>>
    BY <1>15 DEF Player!Lose, Player!rtc, InUse
  <2>2. setup # Player!NoSetup
    BY <2>1 DEF SocketInv, NotMade, InUse
  <2> QED BY <1>3, <1>4, <2>1, <2>2, EndStep DEF PlayerType
<1>16. ASSUME NEW s \in Sockets, Player!OnClose(s)
       PROVE  SocketInv'
  <2>1. ws' \in {ws, NoSocket}
    BY <1>16 DEF Player!OnClose
  <2> QED BY <1>4, <1>16, <2>1, OnCloseStep
<1>17. ASSUME NEW s \in Sockets, Player!Reconnect(s)
       PROVE  SocketInv'
  <2>1. /\ setup # Player!NoSetup /\ Player!OnConnect(socket) /\ retrying' \subseteq Sockets
        /\ UNCHANGED <<setup, leaving, hidden, peer>>
    BY <1>3, <1>17 DEF Player!Reconnect, Player!rtc, SocketInv, PlayerType, NotMade
  <2> QED BY <1>2, <2>1, OnConnectStep
<1>18. ASSUME NEW s \in Sockets, NEW m,
              Player!OnData(s) \/ Player!Answer(s, m) \/ Player!Error(s, m)
       PROVE  SocketInv'
  <2>1. /\ setup # Player!NoSetup
        /\ UNCHANGED <<setup, ws, wsState, socket, leaving, hidden, retrying>>
        /\ peer' = peer \/ peer # "none"
    BY <1>18 DEF Player!OnData, Player!Answer, Player!Error, Player!rtc, SocketInv, NotMade
  <2> QED BY <1>3, <1>4, <2>1, StillStep DEF PlayerType
<1> QED
  BY <1>5, <1>6, <1>7, <1>8, <1>9, <1>10, <1>11, <1>12, <1>13, <1>14, <1>15, <1>16, <1>17, <1>18
     DEF Player!Next, Player!Act

-----------------------------------------------------------------------------
(* The tab.                                                                *)

(* Before the element is made the invariant holds.                         *)
LEMMA InitSocketInv ==
  ASSUME Init
  PROVE  SocketInv
<1>1. Player!Init
  BY DEF Init
<1>2. PlayerType
  BY <1>1 DEF Player!Init, PlayerType
<1>3. NotMade
  BY <1>1 DEF Player!Init, NotMade
<1>4. SimpleKnows /\ AloneInUse /\ OneInUse
  BY <1>1 DEF Player!Init, SimpleKnows, AloneInUse, OneInUse, InUse
<1> QED BY <1>2, <1>3, <1>4 DEF SocketInv

(* Every step of the tab keeps it.                                         *)
LEMMA NextSocketInv ==
  ASSUME SocketInv, [Next]_vars
  PROVE  SocketInv'
<1>1. CASE Player!Next
  BY <1>1, PlayerStep
<1>2. CASE UNCHANGED player
  BY <1>2 DEF player, SocketInv, PlayerType, NotMade, SimpleKnows, AloneInUse, OneInUse,
              InUse, Simple
<1> QED BY <1>1, <1>2 DEF Next, vars

(* A player streams over one connection, the one it knows, whatever its    *)
(* setup, as long as it begins none before the close event of its last     *)
(* one; the player of LiveView.tsx always.                                 *)
THEOREM PlayerHasOneConnection == Spec => []OneConnection
<1>1. Init => SocketInv
  BY InitSocketInv
<1>2. SocketInv /\ [Next]_vars => SocketInv'
  BY NextSocketInv
<1>3. SocketInv => OneConnection
  BY OneByInvariant
<1> QED BY <1>1, <1>2, <1>3, PTL DEF Spec

(* The invariant of the feed holds in every behaviour.                     *)
LEMMA FeedInvariant == Spec => []FeedInv
<1>1. Init => FeedInv
  <2> SUFFICES ASSUME Init PROVE FeedInv
    OBVIOUS
  <2>1. Feed!Init /\ MaxEvents \in Nat \ {0} /\ Shown \in Nat
    BY Parameters DEF Init, Feed!Parameters
  <2>2. stored \in 0..MaxEvents
    BY <2>1 DEF Feed!Init
  <2>3. FeedType
    BY <2>1, <2>2 DEF Feed!Init, FeedType, SocketStates
  <2>4. list = <<>> /\ \A s \in Sockets : feed[s] = "unused"
    BY <2>1 DEF Feed!Init
  <2> QED BY <2>1, <2>3, <2>4 DEF FeedInv, ListedOnce, Feed!ListedOnce, Feed!IsInjective,
                                  Delivered, Feed!Delivered, Feed!Open
<1>2. FeedInv /\ [Next]_vars => FeedInv'
  <2> SUFFICES ASSUME FeedInv, [Next]_vars PROVE FeedInv'
    OBVIOUS
  <2>1. CASE Feed!Next
    BY <2>1, FeedStep
  <2>2. CASE UNCHANGED events
    <3>1. UNCHANGED <<stored, feed, queue, heard, list>>
      BY <2>2 DEF events
    <3> QED BY <3>1, SocketStep DEF FeedInv, FeedType
  <2> QED BY <2>1, <2>2 DEF Next, vars
<1> QED BY <1>1, <1>2, PTL DEF Spec

(* Whatever the sockets, the token, the server and the history request do, *)
(* the list has every event once and keeps its bound.                      *)
THEOREM EventsAreListedOnce == Spec => []ListedOnce
<1>1. FeedInv => ListedOnce
  BY DEF FeedInv
<1> QED BY <1>1, FeedInvariant, PTL

(* An event announced to a socket that is still open is listed, on its way *)
(* or pushed out by later ones, however many sockets fill the list.        *)
THEOREM EventsAreDelivered == Spec => []Delivered
<1>1. FeedInv => Delivered
  BY DEF FeedInv
<1> QED BY <1>1, FeedInvariant, PTL

-----------------------------------------------------------------------------
(* What the player shows.                                                  *)

(* Once the element is made it shows something.                            *)
FaceInv ==
  /\ SocketInv
  /\ text \in Player!Texts \cup {"", "loading", "error"}
  /\ setup # Player!NoSetup => text # ""

(* A step of the player leaves its text, or is one of PlayerFace.          *)
LEMMA TextStep ==
  ASSUME FaceInv, Player!Next
  PROVE  /\ text' = text \/ Player!Face!Next
         /\ text' \in Player!Texts \cup {"", "loading", "error"}
         /\ setup' # Player!NoSetup => text' # ""
<1>1. /\ text \in Player!Texts \cup {"", "loading", "error"}
      /\ setup # Player!NoSetup => text # ""
  BY DEF FaceInv
<1>2. SUFFICES
        \/ text' = text /\ setup' = setup
        \/ text' = "loading"
        \/ text = "loading" /\ text' = "error"
        \/ text # "" /\ text' \in Player!Texts
  <2>1. CASE text' = text /\ setup' = setup
    BY <1>1, <2>1
  <2>2. CASE text' = "loading"
    BY <2>2 DEF Player!Face!Next, Player!Face!Load
  <2>3. CASE text = "loading" /\ text' = "error"
    BY <2>3 DEF Player!Face!Next, Player!Face!Fail
  <2>4. CASE text # "" /\ text' \in Player!Texts
    BY <1>1, <2>4 DEF Player!Face!Next, Player!Face!Play, Player!Texts
  <2> QED BY <1>2, <2>1, <2>2, <2>3, <2>4
<1>3. NotMade
  BY DEF FaceInv, SocketInv
<1>4. ASSUME NEW u \in Setups, Player!Attach(u)
      PROVE  text' = "loading"
  BY <1>3, <1>4 DEF Player!Attach, Player!OnConnect, NotMade
<1>5. ASSUME NEW s \in Sockets, NEW m \in Player!Modes, Player!Answer(s, m)
      PROVE  (text' = text /\ setup' = setup) \/ (text # "" /\ text' \in Player!Texts)
  <2>1. text # "" /\ setup' = setup
    BY <1>1, <1>3, <1>5 DEF Player!Answer, NotMade
  <2>2. text' = text \/ text' = Player!Name[m] \/ text' = "MSE"
    BY <1>5 DEF Player!Answer
  <2>3. Player!Name[m] \in Player!Texts /\ "MSE" \in Player!Texts
    BY DEF Player!Name, Player!Modes, Player!Texts
  <2> QED BY <2>1, <2>2, <2>3
<1>6. ASSUME NEW s \in Sockets, NEW m, Player!Error(s, m)
      PROVE  (text' = text /\ setup' = setup) \/ (text = "loading" /\ text' = "error")
  BY <1>6 DEF Player!Error
<1>7. CASE Player!OnPcVideo
  <2>1. text # "" /\ setup' = setup
    BY <1>1, <1>3, <1>7 DEF Player!OnPcVideo, NotMade
  <2>2. text' = text \/ text' = "RTC"
    BY <1>7 DEF Player!OnPcVideo
  <2> QED BY <2>1, <2>2 DEF Player!Texts
<1>8. CASE Player!PeerFails
  BY <1>8 DEF Player!PeerFails
<1>9. CASE Player!Show
  BY <1>9 DEF Player!Show, Player!OnConnect
<1>10. CASE Player!SourceOpen \/ Player!VideoError \/ Player!UpdateEnd \/ Player!PeerUp
            \/ Player!Hide \/ Player!Disconnect
  BY <1>10 DEF Player!SourceOpen, Player!VideoError, Player!UpdateEnd, Player!PeerUp,
               Player!Hide, Player!Disconnect
<1>11. ASSUME NEW s \in Sockets, Player!Reconnect(s)
       PROVE  (text' = text /\ setup' = setup) \/ text' = "loading"
  BY <1>11 DEF Player!Reconnect, Player!OnConnect
<1>12. ASSUME NEW s \in Sockets,
              Player!OnOpen(s) \/ Player!OnOpenOrphan(s) \/ Player!Lose(s) \/ Player!OnClose(s)
              \/ Player!OnData(s)
       PROVE  text' = text /\ setup' = setup
  BY <1>12 DEF Player!OnOpen, Player!OnOpenOrphan, Player!Lose, Player!OnClose, Player!OnData
<1> QED
  BY <1>4, <1>5, <1>6, <1>7, <1>8, <1>9, <1>10, <1>11, <1>12 DEF Player!Next, Player!Act

(* What LiveView.tsx reads from a player changes as PlayerFace promises:   *)
(* the player implements it, for every setup and number of sockets.        *)
THEOREM PlayerImplementsFace == Spec => ShowsFace
<1>1. Init => FaceInv /\ Player!Face!Init
  <2> SUFFICES ASSUME Init PROVE FaceInv /\ Player!Face!Init
    OBVIOUS
  <2>1. SocketInv
    BY InitSocketInv
  <2>2. text = "" /\ setup = Player!NoSetup
    BY DEF Init, Player!Init
  <2> QED BY <2>1, <2>2 DEF FaceInv, Player!Face!Init
<1>2. FaceInv /\ [Next]_vars => FaceInv' /\ [Player!Face!Next]_text
  <2> SUFFICES ASSUME FaceInv, [Next]_vars PROVE FaceInv' /\ [Player!Face!Next]_text
    OBVIOUS
  <2>1. SocketInv'
    BY NextSocketInv DEF FaceInv
  <2>2. CASE Player!Next
    BY <2>1, <2>2, TextStep DEF FaceInv
  <2>3. CASE UNCHANGED player
    BY <2>1, <2>3 DEF player, FaceInv
  <2> QED BY <2>2, <2>3 DEF Next, vars
<1> QED BY <1>1, <1>2, PTL DEF Spec, ShowsFace, Player!ShowsFace, Player!Face!Spec
=============================================================================
