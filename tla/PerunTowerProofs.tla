-------------------------- MODULE PerunTowerProofs --------------------------
(***************************************************************************)
(* Proofs about the Ethereum tower and its feed, PerunTower, for every set *)
(* of leaves, every queue size and any number of versions.                 *)
(***************************************************************************)
EXTENDS PerunTower, TLAPS, WellFoundedInduction, SequenceTheorems

\* A block's register calls have a highest version.
LEMMA HighestIs ==
  ASSUME NEW S \in SUBSET Version, S # {}
  PROVE  Highest(S) \in S /\ \A w \in S : w <= Highest(S)
<1> DEFINE T == {MaxVersion - v : v \in S}
           R == OpToRel(<, Nat)
<1>1. T \subseteq Nat /\ T # {}
  <2>1. \A v \in S : MaxVersion - v \in Nat
    BY PerunAssumption DEF Version
  <2>2. PICK v : v \in S
    OBVIOUS
  <2>3. MaxVersion - v \in T
    BY <2>2
  <2> QED BY <2>1, <2>3
<1>2. IsWellFoundedOn(R, Nat)
  BY NatLessThanWellFounded
<1>3. PICK x \in T : \A y \in T : ~ (<<y, x>> \in R)
  <2> HIDE DEF T, R
  <2> QED BY <1>1, <1>2, WFMin
<1>4. PICK v \in S : x = MaxVersion - v
  OBVIOUS
<1>5. \A w \in S : ~ (MaxVersion - w < MaxVersion - v)
  BY <1>1, <1>3, <1>4 DEF OpToRel
<1>6. \A w \in S : w <= v
  BY <1>5, PerunAssumption DEF Version
<1> QED BY <1>6 DEF Highest

-----------------------------------------------------------------------------
(* Types.                                                                  *)

\* The tower gets events of a channel it watches and of a dispute.
Subscribed == event => towerUp /\ seen # None /\ disp.version # None

\* No time runs before a registration, and nothing is concluded.
Opened == disp.version = None => disp.left = 0 /\ ~disp.concluded

TypeInv == TypeOK /\ Subscribed /\ Opened

\* The initial state.
LEMMA InitType == Init => TypeInv
<1> SUFFICES ASSUME Init PROVE TypeInv
  OBVIOUS
<1>1. queue \in [Leaf -> Seq(Item)] /\ \A l \in Leaf : Len(queue[l]) <= QueueCap
  BY PerunAssumption DEF Init
<1>2. newest \in Version /\ have \in [Leaf -> Version]
  BY PerunAssumption DEF Init, Version
<1>3. disp \in [version : Version \cup {None}, left : Nat, concluded : BOOLEAN]
  BY DEF Init, NoDispute
<1> QED BY <1>1, <1>2, <1>3 DEF Init, TypeInv, TypeOK, Subscribed, Opened, NoDispute

\* What Enqueue leaves behind.
LEMMA EnqueueType ==
  ASSUME TypeOK, NEW l \in Leaf, NEW k \in {"start", "update", "stop"}, NEW v \in Version,
         Enqueue(l, k, v)
  PROVE  /\ queue' \in [Leaf -> Seq(Item)]
         /\ \A x \in Leaf : Len(queue'[x]) <= QueueCap
         /\ gap' \in BOOLEAN
<1> DEFINE item == [kind |-> k, version |-> v]
<1>1. item \in Item
  BY DEF Item
<1>2. CASE Len(queue[l]) < QueueCap
  <2> HIDE DEF item
  <2>1. queue' = [queue EXCEPT ![l] = Append(queue[l], item)] /\ gap' = gap
    BY <1>2 DEF Enqueue, item
  <2>2. Append(queue[l], item) \in Seq(Item) /\ Len(Append(queue[l], item)) <= QueueCap
    BY <1>1, <1>2, PerunAssumption DEF TypeOK
  <2> QED BY <2>1, <2>2 DEF TypeOK
<1>3. CASE ~(Len(queue[l]) < QueueCap)
  BY <1>3 DEF Enqueue, TypeOK
<1> QED BY <1>2, <1>3

\* A request whose connection is gone is still a request.
LEMMA OrphanType ==
  ASSUME TypeOK, NEW l
  PROVE  Orphaned(l) \subseteq Request
<1>1. ASSUME NEW m \in Request, NEW x \in Leaf \cup {None}
      PROVE  [m EXCEPT !.from = x] \in Request
  BY DEF Request
<1>2. \A m \in net : m \in Request /\ (IF m.from = l THEN None ELSE m.from) \in Leaf \cup {None}
  BY DEF TypeOK, Request
<1> QED BY <1>1, <1>2 DEF Orphaned

\* What an answer leaves behind.
LEMMA AnswerType ==
  ASSUME TypeOK, NEW m \in net, NEW ok \in BOOLEAN, Answer(m, ok)
  PROVE  /\ net' \subseteq Request
         /\ cur' \in [Leaf -> Item \cup {None}]
         /\ oked' \in [Leaf -> Version \cup {None}]
         /\ gap' \in BOOLEAN
<1>1. m \in Request /\ m.item.version \in Version
  BY DEF TypeOK, Request, Item
<1>2. net' \subseteq Request /\ cur' \in [Leaf -> Item \cup {None}] /\ gap' \in BOOLEAN
  BY <1>1 DEF TypeOK, Answer, Request
<1>3. oked' \in [Leaf -> Version \cup {None}]
  BY <1>1 DEF TypeOK, Answer, Request
<1> QED BY <1>2, <1>3

\* What a registration leaves behind; a later one changes the version only.
LEMMA RegisteredType ==
  ASSUME TypeOK, pool # {}
  PROVE  /\ Registered \in [version : Version, left : Nat, concluded : BOOLEAN]
         /\ disp.version # None => Registered = [disp EXCEPT !.version = Registered.version]
<1>1. CASE disp.version = None
  BY <1>1, HighestIs, PerunAssumption DEF Registered, TypeOK
<1>2. CASE disp.version # None
  <2>1. pool \cup {disp.version} \in SUBSET Version /\ pool \cup {disp.version} # {}
    BY <1>2 DEF TypeOK
  <2>2. Highest(pool \cup {disp.version}) \in Version
    BY <2>1, HighestIs
  <2> QED BY <1>2, <2>2 DEF Registered, TypeOK
<1> QED BY <1>1, <1>2

\* Each action keeps the types.
LEMMA TypeStep == TypeInv /\ [Next]_vars => TypeOK'
<1> SUFFICES ASSUME TypeOK, Subscribed, Opened, [Next]_vars PROVE TypeOK'
  BY DEF TypeInv
<1> USE PerunAssumption
<1>1. ASSUME Update PROVE TypeOK'
  BY <1>1 DEF Update, TypeOK, leafVars, towerVars, chainVars, history, Version
<1>2. ASSUME NEW l \in Leaf, Publish(l) PROVE TypeOK'
  <2>1. have' \in [Leaf -> Version]
    BY <1>2 DEF Publish, TypeOK
  <2>2. /\ queue' \in [Leaf -> Seq(Item)]
        /\ \A x \in Leaf : Len(queue'[x]) <= QueueCap
        /\ gap' \in BOOLEAN
    <3>1. CASE watch[l] = "on"
      <4>1. Enqueue(l, "update", newest) /\ newest \in Version
        BY <1>2, <3>1 DEF Publish, TypeOK
      <4> QED BY <4>1, EnqueueType
    <3>2. CASE watch[l] # "on"
      BY <1>2, <3>2 DEF Publish, TypeOK
    <3> QED BY <3>1, <3>2
  <2> QED BY <1>2, <2>1, <2>2 DEF Publish, TypeOK, towerVars, chainVars
<1>3. ASSUME NEW l \in Leaf, StartWatching(l) PROVE TypeOK'
  <2>1. /\ queue' \in [Leaf -> Seq(Item)]
        /\ \A x \in Leaf : Len(queue'[x]) <= QueueCap
        /\ gap' \in BOOLEAN
    <3>1. Enqueue(l, "start", have[l]) /\ have[l] \in Version
      BY <1>3 DEF StartWatching, TypeOK
    <3> QED BY <3>1, EnqueueType
  <2> QED BY <1>3, <2>1 DEF StartWatching, TypeOK, towerVars, chainVars
<1>4. ASSUME NEW l \in Leaf, StartWatchingFails(l) PROVE TypeOK'
  BY <1>4 DEF StartWatchingFails, TypeOK, towerVars, chainVars, history
<1>5. ASSUME NEW l \in Leaf, StopWatching(l) PROVE TypeOK'
  <2>1. /\ queue' \in [Leaf -> Seq(Item)]
        /\ \A x \in Leaf : Len(queue'[x]) <= QueueCap
        /\ gap' \in BOOLEAN
    <3>1. Enqueue(l, "stop", have[l]) /\ have[l] \in Version
      BY <1>5 DEF StopWatching, TypeOK
    <3> QED BY <3>1, EnqueueType
  <2> QED BY <1>5, <2>1 DEF StopWatching, TypeOK, towerVars, chainVars
<1>6. ASSUME NEW l \in Leaf, Take(l) PROVE TypeOK'
  <2>1. /\ Head(queue[l]) \in Item
        /\ Tail(queue[l]) \in Seq(Item)
        /\ Len(Tail(queue[l])) <= QueueCap
    <3>1. queue[l] \in Seq(Item) /\ queue[l] # <<>> /\ Len(queue[l]) <= QueueCap
      BY <1>6 DEF Take, TypeOK
    <3> QED BY <3>1
  <2>2. cur' \in [Leaf -> Item \cup {None}]
    BY <1>6, <2>1 DEF Take, TypeOK
  <2>3. queue' \in [Leaf -> Seq(Item)] /\ \A x \in Leaf : Len(queue'[x]) <= QueueCap
    BY <1>6, <2>1 DEF Take, TypeOK
  <2> QED BY <1>6, <2>2, <2>3 DEF Take, TypeOK, towerVars, chainVars, history
<1>7. ASSUME NEW l \in Leaf, Send(l) PROVE TypeOK'
  <2>1. [item |-> cur[l], from |-> l] \in Request
    BY <1>7 DEF Send, TypeOK, Request
  <2> QED BY <1>7, <2>1 DEF Send, TypeOK, leafVars, towerVars, chainVars, history
<1>8. ASSUME NEW l \in Leaf, RoundTripFails(l) PROVE TypeOK'
  BY <1>8, OrphanType DEF RoundTripFails, TypeOK, leafVars, towerVars, chainVars, history
<1>9. ASSUME NEW m \in net, TowerApply(m) PROVE TypeOK'
  <2>1. m.item.version \in Version
    BY DEF TypeOK, Request, Item
  <2>2. PICK ok \in BOOLEAN : Answer(m, ok)
    BY <1>9 DEF TowerApply, ApplyState, ApplyStart, ApplyStartFails, ApplyUnknown, ApplyStop
  <2>3. seen' \in Version \cup {None} /\ event' \in BOOLEAN /\ towerUp' = towerUp
    <3>1. event' \in BOOLEAN /\ towerUp' = towerUp
      BY <1>9 DEF TowerApply, ApplyState, ApplyStart, ApplyStartFails, ApplyUnknown, ApplyStop,
                  TypeOK, towerVars
    <3>2. seen' = None \/ seen' = seen \/ seen' = m.item.version
      BY <1>9 DEF TowerApply, ApplyState, ApplyStart, ApplyStartFails, ApplyUnknown, ApplyStop,
                  NewerSeen, towerVars
    <3> QED BY <2>1, <3>1, <3>2 DEF TypeOK
  <2>4. UNCHANGED <<newest, up, have, watch, queue, disp, pool, covered, lost>>
    BY <1>9 DEF TowerApply, ApplyState, ApplyStart, ApplyStartFails, ApplyUnknown, ApplyStop,
                chainVars
  <2>5. /\ net' \subseteq Request
        /\ cur' \in [Leaf -> Item \cup {None}]
        /\ oked' \in [Leaf -> Version \cup {None}]
        /\ gap' \in BOOLEAN
    BY <2>2, AnswerType
  <2> QED BY <2>3, <2>4, <2>5 DEF TypeOK
<1>10. ASSUME Refute PROVE TypeOK'
  <2>1. seen \in Version
    BY <1>10 DEF Refute, TypeOK, Subscribed
  <2> QED BY <1>10, <2>1 DEF Refute, TypeOK, leafVars, history
<1>11. ASSUME TowerCrash PROVE TypeOK'
  BY <1>11 DEF TowerCrash, TypeOK, leafVars, chainVars
<1>12. ASSUME TowerRestart PROVE TypeOK'
  BY <1>12 DEF TowerRestart, TypeOK, leafVars, chainVars, history
<1>13. ASSUME NEW l \in Leaf, LeafCrash(l) PROVE TypeOK'
  <2>1. net' \subseteq Request
    BY <1>13, OrphanType DEF LeafCrash
  <2>2. /\ queue' \in [Leaf -> Seq(Item)]
        /\ \A x \in Leaf : Len(queue'[x]) <= QueueCap
    BY <1>13 DEF LeafCrash, TypeOK
  <2>3. cur' \in [Leaf -> Item \cup {None}] /\ up' \in [Leaf -> BOOLEAN]
    BY <1>13 DEF LeafCrash, TypeOK
  <2> QED BY <1>13, <2>1, <2>2, <2>3 DEF LeafCrash, TypeOK, towerVars, chainVars, history
<1>14. ASSUME NEW l \in Leaf, LeafRestart(l) PROVE TypeOK'
  BY <1>14 DEF LeafRestart, TypeOK, towerVars, chainVars, history
<1>15. ASSUME NEW v \in Version, Register(v) PROVE TypeOK'
  BY <1>15 DEF Register, TypeOK, leafVars, towerVars, history
<1>16. ASSUME Block PROVE TypeOK'
  <2> DEFINE open == disp.version = None \/ disp.left > 0
             d == IF open /\ pool # {} THEN Registered ELSE disp
  <2>1. d \in [version : Version \cup {None}, left : Nat, concluded : BOOLEAN]
    BY RegisteredType DEF TypeOK
  <2>2. disp.left > 0 => d.left > 0
    <3>1. CASE d = disp
      BY <3>1
    <3>2. CASE d = Registered /\ pool # {} /\ disp.version # None
      BY <3>2, RegisteredType DEF TypeOK
    <3>3. CASE d = Registered /\ pool # {} /\ disp.version = None
      <4>1. disp.left = 0
        BY <3>3 DEF Opened
      <4> QED BY <4>1
    <3> QED BY <3>1, <3>2, <3>3
  <2>3. disp' = IF disp.left > 0 THEN [d EXCEPT !.left = @ - 1] ELSE d
    BY <1>16 DEF Block
  <2>4. disp' \in [version : Version \cup {None}, left : Nat, concluded : BOOLEAN]
    <3> HIDE DEF d
    <3> QED BY <2>1, <2>2, <2>3
  <2>5. event' \in BOOLEAN
    BY <1>16 DEF Block
  <2>6. covered' \in Version \cup {None} /\ lost' \in BOOLEAN
    <3>1. \/ covered' = seen /\ lost' = FALSE
          \/ covered' = covered /\ lost' = lost
      BY <1>16 DEF Block
    <3>2. lost' \in BOOLEAN
      BY <3>1, Zenon DEF TypeOK
    <3> QED BY <3>1, <3>2 DEF TypeOK
  <2>7. pool' \subseteq Version
    BY <1>16 DEF Block
  <2>8. UNCHANGED <<newest, up, have, watch, queue, cur, net, towerUp, seen, oked, gap>>
    BY <1>16 DEF Block, leafVars
  <2> HIDE DEF d
  <2> QED BY <2>4, <2>5, <2>6, <2>7, <2>8 DEF TypeOK
<1>17. ASSUME Conclude PROVE TypeOK'
  BY <1>17 DEF Conclude, TypeOK, leafVars, towerVars, history
<1>18. CASE UNCHANGED vars
  BY <1>18 DEF vars, TypeOK, leafVars, towerVars, chainVars, history
<1> QED
  BY <1>1, <1>2, <1>3, <1>4, <1>5, <1>6, <1>7, <1>8, <1>9, <1>10, <1>11, <1>12, <1>13, <1>14,
     <1>15, <1>16, <1>17, <1>18
  DEF Next, LeafStep, SenderStep, CrashStep, ChainStep

\* Each action keeps the two facts about disputes.
LEMMA SubscribedStep == TypeInv /\ [Next]_vars => Subscribed' /\ Opened'
<1> SUFFICES ASSUME TypeOK, Subscribed, Opened, [Next]_vars PROVE Subscribed' /\ Opened'
  BY DEF TypeInv
<1> USE PerunAssumption DEF Subscribed, Opened
<1>1. CASE UNCHANGED <<towerVars, disp>>
  BY <1>1 DEF towerVars
<1>2. ASSUME NEW m \in net, TowerApply(m) PROVE Subscribed' /\ Opened'
  <2>1. m.item.version # None
    BY DEF TypeOK, Request, Item
  <2>2. CASE seen = None /\ seen' = m.item.version /\ event' = (disp.version # None)
    <3>1. towerUp' /\ disp' = disp
      BY <1>2 DEF TowerApply, ApplyState, ApplyStart, ApplyStartFails, ApplyUnknown, ApplyStop,
                  chainVars, towerVars
    <3> QED BY <2>1, <2>2, <3>1
  <2>3. CASE event' = FALSE
    BY <1>2, <2>3 DEF TowerApply, ApplyState, ApplyStart, ApplyStartFails, ApplyUnknown,
                      ApplyStop, chainVars, towerVars
  <2>4. CASE event' = event /\ (seen = None => seen' = None) /\ (seen # None => seen' # None)
    BY <1>2, <2>4 DEF TowerApply, ApplyState, ApplyStart, ApplyStartFails, ApplyUnknown,
                      ApplyStop, chainVars, towerVars
  <2> QED BY <1>2, <2>1, <2>2, <2>3, <2>4
          DEF TowerApply, ApplyState, ApplyStart, ApplyStartFails, ApplyUnknown, ApplyStop,
              NewerSeen, towerVars
<1>3. CASE Refute
  BY <1>3 DEF Refute
<1>4. CASE TowerCrash
  BY <1>4 DEF TowerCrash, chainVars
<1>5. CASE TowerRestart
  BY <1>5 DEF TowerRestart, chainVars
<1>6. CASE Block
  <2> DEFINE open == disp.version = None \/ disp.left > 0
             d == IF open /\ pool # {} THEN Registered ELSE disp
  <2>1. /\ disp' = IF disp.left > 0 THEN [d EXCEPT !.left = @ - 1] ELSE d
        /\ event' = (towerUp /\ seen # None /\ d.version # disp.version)
        /\ towerUp' = towerUp /\ seen' = seen
    BY <1>6 DEF Block
  <2>2. CASE d = disp
    BY <2>1, <2>2 DEF TypeOK
  <2>3. CASE pool # {} /\ d = Registered
    <3>1. d \in [version : Version, left : Nat, concluded : BOOLEAN]
      BY <2>3, RegisteredType
    <3> HIDE DEF d
    <3>2. disp'.version = d.version /\ d.version # None
      BY <2>1, <3>1
    <3> QED BY <2>1, <3>2
  <2> QED BY <2>2, <2>3
<1>7. CASE Conclude
  BY <1>7 DEF Conclude, towerVars, TypeOK
<1> QED
  BY <1>1, <1>2, <1>3, <1>4, <1>5, <1>6, <1>7
  DEF Next, LeafStep, SenderStep, CrashStep, ChainStep, Update, Publish, StartWatching,
      StartWatchingFails, StopWatching, Take, Send, RoundTripFails, LeafCrash, LeafRestart,
      Register, vars, chainVars

\* The type invariant with the facts it needs to be inductive.
LEMMA TypeInvariant == Spec => []TypeInv
<1>1. TypeInv /\ [Next]_vars => TypeInv'
  BY TypeStep, SubscribedStep DEF TypeInv
<1> QED BY InitType, <1>1, PTL DEF Spec

\* The state keeps the types the declarations of tower.go give it, and no
\* queue outgrows its capacity.
THEOREM TypeCorrect == Spec => []TypeOK
<1>1. TypeInv => TypeOK
  BY DEF TypeInv
<1> QED BY TypeInvariant, <1>1, PTL

-----------------------------------------------------------------------------
(* The feed.                                                               *)

\* Every item carries a signed state, and a stop only comes at the end.
Sound(i) == i.version <= newest /\ (i.kind = "stop" => disp.concluded)

SoundItem == {i \in Item : Sound(i)}

ItemsSound == /\ queue \in [Leaf -> Seq(SoundItem)]
              /\ cur \in [Leaf -> SoundItem \cup {None}]
              /\ \A m \in net : m.item \in SoundItem

StatesSigned ==
  /\ \A l \in Leaf : have[l] <= newest
  /\ seen # None => seen <= newest

\* A request whose leaf still waits carries the item the leaf delivers.
DeliversCur == \A m \in net : m.from # None => cur[m.from] = m.item

\* The newest state of a watching leaf has reached the tower, or it is the
\* last thing in the leaf's pipeline.
Fed(l) ==
  ~gap /\ ~disp.concluded /\ watch[l] = "on" =>
    \/ seen # None /\ have[l] <= seen
    \/ queue[l] # <<>> /\ queue[l][Len(queue[l])].version = have[l]
    \/ queue[l] = <<>> /\ cur[l] # None /\ cur[l].version = have[l]

FeedInv == /\ ItemsSound /\ StatesSigned /\ DeliversCur
           /\ OkedIsHeld
           /\ \A l \in Leaf : Fed(l)

\* While the dispute runs and the tower lives, the registered version is good
\* enough or the tower is about to replace it.
Guarded ==
  disp.version # None /\ ~lost =>
    \/ AtLeast(disp.version, covered)
    \/ /\ ~disp.concluded /\ disp.left >= 1
       /\ towerUp /\ seen # None /\ AtLeast(seen, covered)
       /\ event \/ \E v \in pool : AtLeast(v, covered)

DownKnowsNothing == ~towerUp => seen = None

-----------------------------------------------------------------------------
(* How the steps move what the feed invariant is about.                    *)

\* Versions only grow and a concluded channel stays concluded.
LEMMA Monotone ==
  ASSUME TypeInv, [Next]_vars
  PROVE  newest <= newest' /\ newest' \in Version /\ (disp.concluded => disp'.concluded)
<1> USE PerunAssumption DEF TypeInv, TypeOK
<1>1. CASE Update
  BY <1>1 DEF Update, chainVars, Version
<1>2. CASE Block
  BY <1>2 DEF Block, Version
<1>3. CASE Conclude
  BY <1>3 DEF Conclude, Version
<1>4. CASE newest' = newest /\ disp' = disp
  BY <1>4 DEF Version
<1> QED
  BY <1>1, <1>2, <1>3, <1>4
  DEF Next, LeafStep, SenderStep, CrashStep, ChainStep, TowerApply, ApplyState, ApplyStart,
      ApplyStartFails, ApplyUnknown, ApplyStop, Publish, StartWatching, StartWatchingFails,
      StopWatching, Take, Send, RoundTripFails, Refute, TowerCrash, TowerRestart, LeafCrash,
      LeafRestart, Register, vars, chainVars

\* An orphaned request carries what it carried.
LEMMA OrphanItems ==
  ASSUME TypeOK, NEW l \in Leaf
  PROVE  \A n \in Orphaned(l) :
           \E m \in net : n.item = m.item /\ n.from = IF m.from = l THEN None ELSE m.from
<1>1. ASSUME NEW m \in Request, NEW x
      PROVE  [m EXCEPT !.from = x].item = m.item /\ [m EXCEPT !.from = x].from = x
  BY DEF Request
<1> SUFFICES ASSUME NEW n \in Orphaned(l)
             PROVE  \E m \in net : /\ n.item = m.item
                                   /\ n.from = IF m.from = l THEN None ELSE m.from
  OBVIOUS
<1>2. PICK m \in net : n = [m EXCEPT !.from = IF m.from = l THEN None ELSE m.from]
  BY DEF Orphaned
<1>3. m \in Request
  BY DEF TypeOK
<1> QED BY <1>1, <1>2, <1>3

\* A sequence over a set is one over every larger set.
LEMMA SeqOfMore ==
  ASSUME NEW S, NEW T, S \subseteq T, NEW s \in Seq(S)
  PROVE  s \in Seq(T)
<1>1. Len(s) \in Nat /\ s = [i \in 1..Len(s) |-> s[i]] /\ \A i \in 1..Len(s) : s[i] \in T
  OBVIOUS
<1> QED BY <1>1

\* What was sound stays sound.
LEMMA SoundKept ==
  ASSUME TypeInv, ItemsSound, [Next]_vars
  PROVE  /\ SoundItem \subseteq SoundItem'
         /\ queue \in [Leaf -> Seq(SoundItem')]
         /\ cur \in [Leaf -> SoundItem' \cup {None}]
         /\ \A m \in net : m.item \in SoundItem'
<1>1. newest <= newest' /\ newest' \in Nat /\ newest \in Nat /\ (disp.concluded => disp'.concluded)
  BY Monotone DEF Version, TypeInv, TypeOK
<1>2. \A i \in Item : i.version \in Nat
  BY DEF Item, Version
<1>3. SoundItem \subseteq SoundItem'
  BY <1>1, <1>2 DEF SoundItem, Sound
<1>4. \A l \in Leaf : queue[l] \in Seq(SoundItem')
  BY <1>3, SeqOfMore DEF ItemsSound
<1> QED BY <1>3, <1>4 DEF ItemsSound

\* Enqueue appends or gives up.
LEMMA EnqueueEffect ==
  ASSUME TypeOK, NEW l \in Leaf, NEW k, NEW v, Enqueue(l, k, v)
  PROVE  \/ queue' = queue /\ gap'
         \/ /\ queue' = [queue EXCEPT ![l] = Append(queue[l], [kind |-> k, version |-> v])]
            /\ gap' = gap
  BY DEF Enqueue, TypeOK

\* Enqueue leaves the other leaves alone.
LEMMA EnqueueElsewhere ==
  ASSUME TypeOK, NEW x \in Leaf, NEW k, NEW v, Enqueue(x, k, v), NEW l \in Leaf, x # l
  PROVE  queue'[l] = queue[l] /\ (~gap' => ~gap)
<1> DEFINE item == [kind |-> k, version |-> v]
<1>1. \/ queue' = queue /\ gap'
      \/ queue' = [queue EXCEPT ![x] = Append(queue[x], item)] /\ gap' = gap
  BY EnqueueEffect
<1> HIDE DEF item
<1>2. ~gap' => ~gap
  BY <1>1, Zenon
<1>3. queue' = queue \/ queue' = [queue EXCEPT ![x] = Append(queue[x], item)]
  BY <1>1, Zenon
<1>4. queue'[l] = queue[l]
  BY <1>3 DEF TypeOK
<1> QED BY <1>2, <1>4

\* Enqueue appends to the queue of its leaf, unless something was dropped.
LEMMA EnqueueHere ==
  ASSUME TypeOK, NEW l \in Leaf, NEW k, NEW v, Enqueue(l, k, v), ~gap'
  PROVE  queue'[l] = Append(queue[l], [kind |-> k, version |-> v])
<1> DEFINE item == [kind |-> k, version |-> v]
<1>1. queue' = [queue EXCEPT ![l] = Append(queue[l], item)]
  BY EnqueueEffect, Zenon
<1> HIDE DEF item
<1>2. queue'[l] = Append(queue[l], item)
  BY <1>1 DEF TypeOK
<1> QED BY <1>2 DEF item

\* Enqueue of a sound item.
LEMMA EnqueueSound ==
  ASSUME TypeInv, ItemsSound, [Next]_vars,
         NEW l \in Leaf, NEW k \in {"start", "update", "stop"}, NEW v \in Version,
         Enqueue(l, k, v), v <= newest, k = "stop" => disp.concluded
  PROVE  queue' \in [Leaf -> Seq(SoundItem')]
<1> DEFINE item == [kind |-> k, version |-> v]
<1>1. item \in SoundItem'
  <2>1. item \in SoundItem
    BY DEF SoundItem, Sound, Item
  <2> HIDE DEF item
  <2> QED BY <2>1, SoundKept
<1>2. queue' = queue \/ queue' = [queue EXCEPT ![l] = Append(queue[l], item)]
  BY EnqueueEffect DEF TypeInv
<1> HIDE DEF item
<1>3. queue[l] \in Seq(SoundItem') /\ queue \in [Leaf -> Seq(SoundItem')]
  BY SoundKept
<1>4. Append(queue[l], item) \in Seq(SoundItem')
  BY <1>1, <1>3
<1> QED BY <1>2, <1>3, <1>4

\* Each action keeps the pipeline sound.
LEMMA SoundStep ==
  ASSUME TypeInv, ItemsSound, StatesSigned, [Next]_vars
  PROVE  ItemsSound'
<1> USE DEF TypeInv
<1> DEFINE S == SoundItem'
<1>0. /\ queue \in [Leaf -> Seq(S)]
      /\ cur \in [Leaf -> S \cup {None}]
      /\ \A m \in net : m.item \in S
  BY SoundKept
<1>1. SUFFICES /\ queue' \in [Leaf -> Seq(S)]
               /\ cur' \in [Leaf -> S \cup {None}]
               /\ \A m \in net' : m.item \in S
  BY DEF ItemsSound
<1> HIDE DEF S
<1>2. queue' \in [Leaf -> Seq(S)]
  <2>1. ASSUME NEW l \in Leaf, Publish(l) PROVE queue' \in [Leaf -> Seq(S)]
    <3>1. newest \in Version /\ newest <= newest
      BY DEF TypeOK, Version
    <3>2. CASE watch[l] = "on"
      BY <2>1, <3>1, <3>2, EnqueueSound DEF Publish, S
    <3>3. CASE watch[l] # "on"
      BY <1>0, <2>1, <3>3 DEF Publish
    <3> QED BY <3>2, <3>3
  <2>2. ASSUME NEW l \in Leaf, StartWatching(l) PROVE queue' \in [Leaf -> Seq(S)]
    <3>1. have[l] \in Version /\ have[l] <= newest
      BY DEF TypeOK, StatesSigned
    <3> QED BY <2>2, <3>1, EnqueueSound DEF StartWatching, S
  <2>3. ASSUME NEW l \in Leaf, StopWatching(l) PROVE queue' \in [Leaf -> Seq(S)]
    <3>1. have[l] \in Version /\ have[l] <= newest
      BY DEF TypeOK, StatesSigned
    <3> QED BY <2>3, <3>1, EnqueueSound DEF StopWatching, S
  <2>4. ASSUME NEW l \in Leaf, Take(l) PROVE queue' \in [Leaf -> Seq(S)]
    <3>1. Tail(queue[l]) \in Seq(S)
      BY <1>0, <2>4 DEF Take
    <3> QED BY <1>0, <2>4, <3>1 DEF Take
  <2>5. ASSUME NEW l \in Leaf, LeafCrash(l) PROVE queue' \in [Leaf -> Seq(S)]
    BY <1>0, <2>5 DEF LeafCrash
  <2>6. CASE queue' = queue
    BY <1>0, <2>6
  <2> QED
    BY <2>1, <2>2, <2>3, <2>4, <2>5, <2>6
    DEF Next, LeafStep, SenderStep, CrashStep, ChainStep, TowerApply, ApplyState, ApplyStart,
        ApplyStartFails, ApplyUnknown, ApplyStop, Update, StartWatchingFails, Send,
        RoundTripFails, Refute, TowerCrash, TowerRestart, LeafRestart, Register, Block,
        Conclude, vars, leafVars
<1>3. cur' \in [Leaf -> S \cup {None}]
  <2>1. ASSUME NEW l \in Leaf, Take(l) PROVE cur' \in [Leaf -> S \cup {None}]
    <3>1. Head(queue[l]) \in S
      BY <1>0, <2>1 DEF Take
    <3> QED BY <1>0, <2>1, <3>1 DEF Take
  <2>2. ASSUME NEW l \in Leaf, LeafCrash(l) PROVE cur' \in [Leaf -> S \cup {None}]
    BY <1>0, <2>2 DEF LeafCrash
  <2>3. ASSUME NEW m \in net, TowerApply(m) PROVE cur' \in [Leaf -> S \cup {None}]
    <3>1. cur' = cur \/ \E l : cur' = [cur EXCEPT ![l] = None]
      BY <2>3 DEF TowerApply, ApplyState, ApplyStart, ApplyStartFails, ApplyUnknown, ApplyStop,
                  Answer
    <3> QED BY <1>0, <3>1
  <2>4. CASE cur' = cur
    BY <1>0, <2>4
  <2> QED
    BY <2>1, <2>2, <2>3, <2>4
    DEF Next, LeafStep, SenderStep, CrashStep, ChainStep, Update, Publish, StartWatching,
        StartWatchingFails, StopWatching, Send, RoundTripFails, Refute, TowerCrash,
        TowerRestart, LeafRestart, Register, Block, Conclude, vars, leafVars
<1>4. \A m \in net' : m.item \in S
  <2>1. ASSUME NEW l \in Leaf, Send(l) PROVE \A m \in net' : m.item \in S
    BY <1>0, <2>1 DEF Send
  <2>2. ASSUME NEW l \in Leaf, net' = Orphaned(l) PROVE \A m \in net' : m.item \in S
    <3>1. \A n \in Orphaned(l) : \E m \in net : n.item = m.item
      BY OrphanItems
    <3> QED BY <1>0, <2>2, <3>1
  <2>3. CASE net' \subseteq net
    BY <1>0, <2>3
  <2> QED
    BY <2>1, <2>2, <2>3
    DEF Next, LeafStep, SenderStep, CrashStep, ChainStep, TowerApply, ApplyState, ApplyStart,
        ApplyStartFails, ApplyUnknown, ApplyStop, Answer, Update, Publish, StartWatching,
        StartWatchingFails, StopWatching, Take, RoundTripFails, Refute, TowerCrash,
        TowerRestart, LeafCrash, LeafRestart, Register, Block, Conclude, vars
<1> QED BY <1>2, <1>3, <1>4

\* Nobody holds a state that was not signed.
LEMMA SignedStep ==
  ASSUME TypeInv, ItemsSound, StatesSigned, [Next]_vars
  PROVE  StatesSigned'
<1> USE DEF TypeInv
<1>0. /\ newest \in Nat /\ newest' \in Nat /\ newest <= newest'
      /\ have \in [Leaf -> Nat]
      /\ seen # None => seen \in Nat
  BY Monotone DEF TypeOK, Version
<1>1. \A l \in Leaf : have'[l] <= newest'
  <2>1. ASSUME NEW l \in Leaf, Publish(l) PROVE \A x \in Leaf : have'[x] <= newest'
    BY <1>0, <2>1 DEF Publish, StatesSigned
  <2>2. ASSUME NEW l \in Leaf, LeafRestart(l) PROVE \A x \in Leaf : have'[x] <= newest'
    <3>1. PICK v \in Version : /\ v = have[l] \/ v < have[l]
                               /\ have' = [have EXCEPT ![l] = v]
      BY <2>2 DEF LeafRestart
    <3> QED BY <1>0, <3>1 DEF StatesSigned, Version
  <2>3. CASE have' = have
    BY <1>0, <2>3 DEF StatesSigned
  <2> QED
    BY <2>1, <2>2, <2>3
    DEF Next, LeafStep, SenderStep, CrashStep, ChainStep, TowerApply, ApplyState, ApplyStart,
        ApplyStartFails, ApplyUnknown, ApplyStop, Update, StartWatching, StartWatchingFails,
        StopWatching, Take, Send, RoundTripFails, Refute, TowerCrash, TowerRestart, LeafCrash,
        Register, Block, Conclude, vars, leafVars
<1>2. seen' # None => seen' <= newest'
  <2>1. ASSUME NEW m \in net, TowerApply(m) PROVE seen' # None => seen' <= newest'
    <3>1. m.item.version \in Nat /\ m.item.version <= newest
      BY DEF ItemsSound, SoundItem, Sound, Item, Version
    <3>2. seen' = None \/ seen' = seen \/ seen' = m.item.version
      BY <2>1 DEF TowerApply, ApplyState, ApplyStart, ApplyStartFails, ApplyUnknown, ApplyStop,
                  NewerSeen, towerVars
    <3> QED BY <1>0, <3>1, <3>2 DEF StatesSigned
  <2>2. CASE seen' = None \/ seen' = seen
    BY <1>0, <2>2 DEF StatesSigned
  <2> QED
    BY <2>1, <2>2
    DEF Next, LeafStep, SenderStep, CrashStep, ChainStep, Update, Publish, StartWatching,
        StartWatchingFails, StopWatching, Take, Send, RoundTripFails, Refute, TowerCrash,
        TowerRestart, LeafCrash, LeafRestart, Register, Block, Conclude, vars, towerVars
<1> QED BY <1>1, <1>2 DEF StatesSigned

\* A leaf waits for one request at a time.
LEMMA DeliversStep ==
  ASSUME TypeInv, DeliversCur, [Next]_vars
  PROVE  DeliversCur'
<1> USE DEF TypeInv
<1>1. ASSUME NEW l \in Leaf, Take(l) PROVE DeliversCur'
  <2>1. \A m \in net : m.from # None => m.from # l
    BY <1>1, PerunAssumption DEF Take, DeliversCur, TypeOK, Request, Item
  <2> QED BY <1>1, <2>1 DEF Take, DeliversCur, TypeOK, Request
<1>2. ASSUME NEW l \in Leaf, Send(l) PROVE DeliversCur'
  BY <1>2 DEF Send, DeliversCur, leafVars
<1>3. ASSUME NEW l \in Leaf, net' = Orphaned(l), \A x \in Leaf : x # l => cur'[x] = cur[x]
      PROVE  DeliversCur'
  <2>1. ASSUME NEW n \in Orphaned(l), n.from # None PROVE cur'[n.from] = n.item
    <3>1. PICK m \in net : n.item = m.item /\ n.from = IF m.from = l THEN None ELSE m.from
      BY OrphanItems
    <3>2. m.from # None /\ n.from = m.from /\ m.from # l /\ m.from \in Leaf
      BY <2>1, <3>1 DEF TypeOK, Request
    <3> QED BY <1>3, <3>1, <3>2 DEF DeliversCur
  <2> QED BY <1>3, <2>1 DEF DeliversCur
<1>4. ASSUME NEW m \in net, TowerApply(m) PROVE DeliversCur'
  <2>1. /\ net' = net \ {m}
        /\ cur' = IF m.from = None THEN cur ELSE [cur EXCEPT ![m.from] = None]
    BY <1>4 DEF TowerApply, ApplyState, ApplyStart, ApplyStartFails, ApplyUnknown, ApplyStop,
                Answer
  <2>2. ASSUME NEW n \in net, n # m, n.from # None PROVE n.from # m.from
    <3>1. m.from = n.from => m.item = n.item
      BY <2>2 DEF DeliversCur
    <3>2. m.from = n.from /\ m.item = n.item => m = n
      BY DEF TypeOK, Request
    <3> QED BY <2>2, <3>1, <3>2
  <2> QED BY <2>1, <2>2 DEF DeliversCur, TypeOK, Request
<1>5. CASE (net' = net \/ net' = {}) /\ cur' = cur
  BY <1>5 DEF DeliversCur
<1>6. ASSUME NEW l \in Leaf, LeafCrash(l) PROVE DeliversCur'
  BY <1>3, <1>6 DEF LeafCrash, TypeOK
<1>7. ASSUME NEW l \in Leaf, RoundTripFails(l) PROVE DeliversCur'
  BY <1>3, <1>7 DEF RoundTripFails, leafVars
<1> QED
  BY <1>1, <1>2, <1>4, <1>5, <1>6, <1>7
  DEF Next, LeafStep, SenderStep, CrashStep, ChainStep, Update, Publish, StartWatching,
      StartWatchingFails, StopWatching, Refute, TowerCrash, TowerRestart, LeafRestart,
      Register, Block, Conclude, vars, leafVars

\* A state the tower accepts is held afterwards, with all it held before.
LEMMA ApplyKeeps ==
  ASSUME TypeInv, NEW m \in net, m.item \in SoundItem, ~disp.concluded, TowerApply(m)
  PROVE  \E ok \in BOOLEAN :
           /\ Answer(m, ok)
           /\ AtLeast(seen', seen)
           /\ ok => AtLeast(seen', m.item.version)
<1> USE DEF TypeInv
<1>1. m.item.version \in Nat /\ m.item.version # None /\ (seen # None => seen \in Nat)
  BY PerunAssumption DEF SoundItem, Item, TypeOK, Version
<1>2. m.item.kind # "stop"
  BY DEF SoundItem, Sound
<1>3. CASE ApplyState(m)
  <2>1. Answer(m, TRUE)
    BY <1>3, Zenon DEF ApplyState
  <2>2. seen # None /\ seen' = IF m.item.version < seen THEN seen ELSE m.item.version
    BY <1>3, Zenon DEF ApplyState, NewerSeen
  <2>3. AtLeast(seen', seen) /\ AtLeast(seen', m.item.version)
    BY <1>1, <2>2 DEF AtLeast
  <2> QED BY <2>1, <2>3, Zenon
<1>4. CASE ApplyStart(m)
  <2>1. Answer(m, TRUE)
    BY <1>4, Zenon DEF ApplyStart
  <2>2. seen = None /\ seen' = m.item.version
    BY <1>4, Zenon DEF ApplyStart
  <2>3. AtLeast(seen', seen) /\ AtLeast(seen', m.item.version)
    BY <1>1, <2>2 DEF AtLeast
  <2> QED BY <2>1, <2>3, Zenon
<1>5. CASE ApplyStartFails(m) \/ ApplyUnknown(m)
  <2>1. Answer(m, FALSE) /\ AtLeast(seen', seen)
    BY <1>1, <1>5 DEF ApplyStartFails, ApplyUnknown, AtLeast, towerVars
  <2> QED BY <2>1, Zenon
<1>6. ~ApplyStop(m)
  BY <1>2 DEF ApplyStop
<1> QED BY <1>3, <1>4, <1>5, <1>6 DEF TowerApply

\* The order of versions is transitive.
LEMMA AtLeastTrans ==
  ASSUME NEW a \in Version \cup {None}, NEW b \in Version \cup {None},
         NEW c \in Version \cup {None}, AtLeast(a, b), AtLeast(b, c)
  PROVE  AtLeast(a, c)
  BY PerunAssumption DEF AtLeast, Version

\* Each action keeps what was answered OK.
LEMMA OkedStep ==
  ASSUME TypeInv, ItemsSound, OkedIsHeld, [Next]_vars
  PROVE  OkedIsHeld'
<1> USE DEF TypeInv
<1>1. TypeOK'
  BY TypeStep
<1>2. SUFFICES ASSUME ~disp'.concluded, NEW l \in Leaf PROVE AtLeast(seen', oked'[l])
  BY DEF OkedIsHeld
<1>3. ~disp.concluded /\ AtLeast(seen, oked[l])
  BY <1>2, Monotone DEF OkedIsHeld
<1>4. ASSUME NEW m \in net, TowerApply(m) PROVE AtLeast(seen', oked'[l])
  <2>1. PICK ok \in BOOLEAN : /\ Answer(m, ok)
                              /\ AtLeast(seen', seen)
                              /\ ok => AtLeast(seen', m.item.version)
    BY <1>3, <1>4, ApplyKeeps DEF ItemsSound
  <2>2. oked'[l] = oked[l] \/ (ok /\ oked'[l] = m.item.version)
    BY <2>1 DEF Answer, TypeOK
  <2>3. AtLeast(seen', oked[l])
    BY <1>1, <1>3, <2>1, AtLeastTrans DEF TypeOK
  <2> QED BY <2>1, <2>2, <2>3
<1>5. CASE TowerCrash
  BY <1>5 DEF TowerCrash, AtLeast
<1>6. CASE seen' = seen /\ oked' = oked
  BY <1>3, <1>6
<1> QED
  BY <1>4, <1>5, <1>6
  DEF Next, LeafStep, SenderStep, CrashStep, ChainStep, Update, Publish, StartWatching,
      StartWatchingFails, StopWatching, Take, Send, RoundTripFails, Refute, TowerRestart,
      LeafCrash, LeafRestart, Register, Block, Conclude, vars, towerVars, history

\* The last element stays last when the first is taken.
LEMMA LastOfTail ==
  ASSUME NEW S, NEW s \in Seq(S), s # <<>>
  PROVE  \/ Tail(s) = <<>> /\ Head(s) = s[Len(s)]
         \/ Tail(s) # <<>> /\ Tail(s)[Len(Tail(s))] = s[Len(s)]
<1> DEFINE t == Tail(s)
<1>1. /\ t \in Seq(S) /\ Len(t) = Len(s) - 1 /\ Len(t) \in Nat /\ Len(s) \in Nat
      /\ \A i \in 1..Len(t) : t[i] = s[i + 1]
  BY HeadTailProperties, LenProperties
<1>2. Head(s) = s[1]
  OBVIOUS
<1>3. t # <<>> => Len(t) # 0
  BY <1>1, EmptySeq
<1>4. t = <<>> => Len(t) = 0
  BY EmptySeq
<1> HIDE DEF t
<1>5. CASE t = <<>>
  BY <1>1, <1>2, <1>4, <1>5 DEF t
<1>6. CASE t # <<>>
  <2>1. Len(t) \in 1..Len(t) /\ Len(t) + 1 = Len(s)
    BY <1>1, <1>3, <1>6
  <2>2. t[Len(t)] = s[Len(s)]
    BY <1>1, <2>1
  <2> QED BY <1>6, <2>2 DEF t
<1> QED BY <1>5, <1>6

\* Each action keeps the newest state on its way.
LEMMA FedStep ==
  ASSUME TypeInv, ItemsSound, DeliversCur, [Next]_vars, \A l \in Leaf : Fed(l)
  PROVE  \A l \in Leaf : Fed(l)'
<1> USE DEF TypeInv
<1>0. TypeOK'
  BY TypeStep
<1>1. SUFFICES ASSUME NEW l \in Leaf, ~gap', ~disp'.concluded, watch'[l] = "on"
               PROVE  \/ seen' # None /\ have'[l] <= seen'
                      \/ /\ queue'[l] # <<>>
                         /\ queue'[l][Len(queue'[l])].version = have'[l]
                      \/ queue'[l] = <<>> /\ cur'[l] # None /\ cur'[l].version = have'[l]
  BY DEF Fed
<1> DEFINE Goal == \/ seen' # None /\ have'[l] <= seen'
                   \/ /\ queue'[l] # <<>>
                      /\ queue'[l][Len(queue'[l])].version = have'[l]
                   \/ queue'[l] = <<>> /\ cur'[l] # None /\ cur'[l].version = have'[l]
<1>2. ~disp.concluded
  BY <1>1, Monotone
<1>3. queue[l] \in Seq(Item) /\ have[l] \in Nat /\ (seen # None => seen \in Nat)
  BY DEF TypeOK, Version
<1>4. ASSUME NEW k, NEW v, queue'[l] = Append(queue[l], [kind |-> k, version |-> v]),
             have'[l] = v
      PROVE  Goal
  <2> DEFINE item == [kind |-> k, version |-> v]
  <2>1. item.version = v
    OBVIOUS
  <2>2. queue'[l] # <<>> /\ queue'[l][Len(queue'[l])] = item
    <3> HIDE DEF item
    <3>1. queue'[l] = Append(queue[l], item)
      BY <1>4 DEF item
    <3> QED BY <1>3, <3>1
  <2> QED BY <1>4, <2>1, <2>2
<1>5. ASSUME gap = gap', watch'[l] = watch[l], have'[l] = have[l], queue'[l] = queue[l],
             cur'[l] = cur[l], seen' = seen
      PROVE  Goal
  BY <1>1, <1>2, <1>5 DEF Fed
<1>6. ASSUME NEW x \in Leaf, Publish(x) PROVE Goal
  <2>1. CASE x # l
    <3>1. queue'[l] = queue[l] /\ (~gap' => ~gap)
      <4>1. CASE watch[x] = "on"
        <5>1. Enqueue(x, "update", newest)
          BY <1>6, <4>1 DEF Publish
        <5> QED BY <2>1, <5>1, EnqueueElsewhere
      <4>2. CASE watch[x] # "on"
        BY <1>6, <4>2 DEF Publish
      <4> QED BY <4>1, <4>2
    <3> QED BY <1>1, <1>2, <1>6, <2>1, <3>1 DEF Publish, Fed, TypeOK, towerVars
  <2>2. CASE x = l
    <3>1. Enqueue(l, "update", newest) /\ have'[l] = newest
      BY <1>1, <1>6, <2>2 DEF Publish, TypeOK
    <3>2. queue'[l] = Append(queue[l], [kind |-> "update", version |-> newest])
      BY <1>1, <3>1, EnqueueHere
    <3> QED BY <1>4, <3>1, <3>2
  <2> QED BY <2>1, <2>2
<1>7. ASSUME NEW x \in Leaf, StartWatching(x) PROVE Goal
  <2>1. CASE x # l
    <3>1. queue'[l] = queue[l] /\ (~gap' => ~gap)
      <4>1. Enqueue(x, "start", have[x])
        BY <1>7 DEF StartWatching
      <4> QED BY <2>1, <4>1, EnqueueElsewhere
    <3> QED BY <1>1, <1>2, <1>7, <2>1, <3>1 DEF StartWatching, Fed, TypeOK, towerVars
  <2>2. CASE x = l
    <3>1. Enqueue(l, "start", have[l]) /\ have'[l] = have[l]
      BY <1>7, <2>2 DEF StartWatching
    <3>2. queue'[l] = Append(queue[l], [kind |-> "start", version |-> have[l]])
      BY <1>1, <3>1, EnqueueHere
    <3> QED BY <1>4, <3>1, <3>2
  <2> QED BY <2>1, <2>2
<1>8. ASSUME NEW x \in Leaf, StartWatchingFails(x) PROVE Goal
  BY <1>1, <1>2, <1>8 DEF StartWatchingFails, Fed, TypeOK, towerVars, history
<1>9. ASSUME NEW x \in Leaf, StopWatching(x) PROVE Goal
  BY <1>2, <1>9 DEF StopWatching
<1>10. ASSUME NEW x \in Leaf, Take(x) PROVE Goal
  <2>1. UNCHANGED <<gap, watch, have, seen>>
    BY <1>10 DEF Take, history, towerVars
  <2>2. CASE x # l
    BY <1>5, <1>10, <2>1, <2>2 DEF Take, TypeOK
  <2>3. CASE x = l /\ ~(seen # None /\ have[l] <= seen)
    <3>1. queue[l] # <<>> /\ queue'[l] = Tail(queue[l]) /\ cur'[l] = Head(queue[l])
      BY <1>10, <2>3 DEF Take, TypeOK
    <3>2. queue[l][Len(queue[l])].version = have[l]
      BY <1>1, <1>2, <2>1, <2>3, <3>1 DEF Fed
    <3>3. Head(queue[l]) \in Item /\ Head(queue[l]) # None
      BY <1>3, <3>1, PerunAssumption
    <3>4. \/ Tail(queue[l]) = <<>> /\ Head(queue[l]) = queue[l][Len(queue[l])]
          \/ /\ Tail(queue[l]) # <<>>
             /\ Tail(queue[l])[Len(Tail(queue[l]))] = queue[l][Len(queue[l])]
      BY <1>3, <3>1, LastOfTail
    <3> QED BY <2>1, <3>1, <3>2, <3>3, <3>4
  <2>4. CASE seen # None /\ have[l] <= seen
    BY <2>1, <2>4
  <2> QED BY <2>2, <2>3, <2>4
<1>11. ASSUME NEW m \in net, TowerApply(m) PROVE Goal
  <2>1. UNCHANGED <<watch, have, queue>>
    BY <1>11 DEF TowerApply, ApplyState, ApplyStart, ApplyStartFails, ApplyUnknown, ApplyStop
  <2>2. PICK ok \in BOOLEAN : /\ Answer(m, ok)
                              /\ AtLeast(seen', seen)
                              /\ ok => AtLeast(seen', m.item.version)
    BY <1>2, <1>11, ApplyKeeps DEF ItemsSound
  <2>3. ~gap /\ ok
    BY <1>1, <2>2 DEF Answer, TypeOK
  <2>4. CASE seen # None /\ have[l] <= seen
    BY <1>0, <1>3, <2>1, <2>2, <2>4, PerunAssumption DEF AtLeast, TypeOK, Version
  <2>5. CASE queue[l] # <<>> /\ queue[l][Len(queue[l])].version = have[l]
    BY <2>1, <2>5
  <2>6. CASE queue[l] = <<>> /\ cur[l] # None /\ cur[l].version = have[l] /\ m.from = l
    <3>1. m.item.version = have[l]
      BY <2>6, PerunAssumption DEF DeliversCur
    <3>2. AtLeast(seen', have[l])
      BY <2>2, <2>3, <3>1
    <3>3. have[l] # None
      BY PerunAssumption DEF TypeOK
    <3> QED BY <1>0, <1>3, <2>1, <3>2, <3>3 DEF AtLeast, TypeOK, Version
  <2>7. CASE queue[l] = <<>> /\ cur[l] # None /\ cur[l].version = have[l] /\ m.from # l
    <3>1. cur'[l] = cur[l]
      BY <2>2, <2>7 DEF Answer, TypeOK
    <3> QED BY <2>1, <2>7, <3>1
  <2> QED BY <1>1, <1>2, <2>1, <2>3, <2>4, <2>5, <2>6, <2>7 DEF Fed
<1>12. CASE TowerCrash
  BY <1>1, <1>12 DEF TowerCrash
<1>13. ASSUME NEW x \in Leaf, LeafCrash(x) PROVE Goal
  <2>1. x # l
    BY <1>1, <1>13 DEF LeafCrash, TypeOK
  <2> QED BY <1>5, <1>13, <2>1 DEF LeafCrash, TypeOK, history, towerVars
<1>14. ASSUME NEW x \in Leaf, LeafRestart(x) PROVE Goal
  <2>1. x # l
    BY <1>1, <1>14 DEF LeafRestart, TypeOK
  <2> QED BY <1>5, <1>14, <2>1 DEF LeafRestart, TypeOK, history, towerVars
<1>15. ASSUME UNCHANGED <<gap, watch, have, queue, cur, seen>> PROVE Goal
  BY <1>5, <1>15
<1> QED
  BY <1>6, <1>7, <1>8, <1>9, <1>10, <1>11, <1>12, <1>13, <1>14, <1>15
  DEF Next, LeafStep, SenderStep, CrashStep, ChainStep, Update, Send, RoundTripFails, Refute,
      TowerRestart, Register, Block, Conclude, vars, leafVars, towerVars, history

\* The invariant of the feed.
LEMMA FeedInvariant == Spec => []FeedInv
<1>1. Init => FeedInv
  <2> SUFFICES ASSUME Init PROVE FeedInv
    OBVIOUS
  <2>1. ItemsSound
    BY DEF Init, ItemsSound
  <2> QED BY <2>1, PerunAssumption
          DEF Init, FeedInv, StatesSigned, DeliversCur, OkedIsHeld, AtLeast, Fed
<1>2. TypeInv /\ FeedInv /\ [Next]_vars => FeedInv'
  BY SoundStep, SignedStep, DeliversStep, OkedStep, FedStep DEF FeedInv
<1> QED BY <1>1, <1>2, TypeInvariant, PTL DEF Spec

\* What the tower has answered OK to, it still holds, for every leaf and
\* whatever was repeated, late or sent from an old database.
THEOREM TowerKeepsOked == Spec => []OkedIsHeld
<1>1. FeedInv => OkedIsHeld
  BY DEF FeedInv
<1> QED BY FeedInvariant, <1>1, PTL

\* While no queue has overflowed, no message was rejected and the tower has
\* not died, a leaf with nothing left to deliver means a tower with the newest
\* state.
THEOREM FeedComplete == Spec => []FeedIsComplete
<1>1. TypeInv /\ FeedInv => FeedIsComplete
  <2> SUFFICES ASSUME TypeInv, FeedInv, ~gap, NEW l \in Leaf, Drained(l), ~disp.concluded
               PROVE  seen = newest
    BY DEF FeedIsComplete, DrainedIsNewest
  <2>1. seen # None /\ newest <= seen
    BY DEF FeedInv, Fed, Drained
  <2>2. seen <= newest
    BY <2>1 DEF FeedInv, StatesSigned
  <2> QED BY <2>1, <2>2 DEF TypeInv, TypeOK, Version
<1> QED BY FeedInvariant, TypeInvariant, <1>1, PTL

-----------------------------------------------------------------------------
(* The dispute.                                                            *)

GuardInv == Guarded /\ DownKnowsNothing

\* A tower that is down knows nothing.
LEMMA DownStep ==
  ASSUME TypeInv, DownKnowsNothing, [Next]_vars
  PROVE  DownKnowsNothing'
<1>1. ASSUME NEW m \in net, TowerApply(m) PROVE DownKnowsNothing'
  <2>1. towerUp'
    BY <1>1 DEF TowerApply, ApplyState, ApplyStart, ApplyStartFails, ApplyUnknown, ApplyStop,
                towerVars
  <2> QED BY <2>1 DEF DownKnowsNothing
<1>2. CASE TowerCrash \/ TowerRestart
  BY <1>2 DEF TowerCrash, TowerRestart, DownKnowsNothing
<1>3. CASE towerUp' = towerUp /\ seen' = seen
  BY <1>3 DEF DownKnowsNothing
<1> QED
  BY <1>1, <1>2, <1>3
  DEF Next, LeafStep, SenderStep, CrashStep, ChainStep, Update, Publish, StartWatching,
      StartWatchingFails, StopWatching, Take, Send, RoundTripFails, Refute, LeafCrash,
      LeafRestart, Register, Block, Conclude, vars, towerVars

\* Tower, chain and bookkeeping stay: so does the guard.
LEMMA GuardKept ==
  ASSUME TypeInv, Guarded, UNCHANGED <<towerVars, disp, covered, lost>>, pool \subseteq pool'
  PROVE  Guarded'
  BY DEF Guarded, towerVars

\* A block opens the dispute under the tower's eyes or takes its refutation.
LEMMA BlockGuards ==
  ASSUME Challenge >= 1, TypeInv, DownKnowsNothing, Guarded, Block
  PROVE  Guarded'
<1> USE DEF TypeInv
<1> DEFINE open == disp.version = None \/ disp.left > 0
           d == IF open /\ pool # {} THEN Registered ELSE disp
<1>1. /\ disp' = IF disp.left > 0 THEN [d EXCEPT !.left = @ - 1] ELSE d
      /\ event' = (towerUp /\ seen # None /\ d.version # disp.version)
      /\ towerUp' = towerUp /\ seen' = seen /\ (towerUp => ~event) /\ ~disp.concluded
  BY DEF Block
<1>2. CASE disp.version = None /\ pool = {}
  <2>1. d = disp /\ disp.left = 0
    BY <1>2 DEF Opened
  <2> QED BY <1>1, <1>2, <2>1 DEF Guarded
<1>3. CASE disp.version = None /\ pool # {}
  <2>1. covered' = seen
    BY <1>3 DEF Block
  <2>2. disp.left = 0
    BY <1>3 DEF Opened
  <2>3. d = Registered /\ disp' = d
    BY <1>1, <1>3, <2>2
  <2>4. disp'.left = Challenge /\ disp'.concluded = FALSE
    BY <1>3, <2>3 DEF Registered
  <2>5. d.version \in Version
    BY <1>3, <2>3, RegisteredType
  <2>6. CASE seen = None
    BY <2>1, <2>6 DEF Guarded, AtLeast
  <2>7. CASE seen # None
    <3>1. towerUp
      BY <2>7 DEF DownKnowsNothing
    <3>2. event'
      BY <1>1, <1>3, <2>5, <2>7, <3>1, PerunAssumption
    <3>3. AtLeast(seen', covered')
      BY <1>1, <2>1, <2>7 DEF AtLeast, TypeOK, Version
    <3> QED BY <1>1, <2>4, <2>7, <3>1, <3>2, <3>3, PerunAssumption DEF Guarded
  <2> QED BY <2>6, <2>7
<1>4. CASE disp.version # None
  <2>1. covered' = covered /\ lost' = lost
    BY <1>4 DEF Block
  <2>2. d.version \in Version /\ AtLeast(d.version, disp.version)
        /\ (disp.left > 0 => \A v \in pool : v <= d.version)
    <3>1. CASE ~(open /\ pool # {})
      BY <1>4, <3>1, PerunAssumption DEF TypeOK, AtLeast, Version
    <3>2. CASE open /\ pool # {}
      <4>1. pool \cup {disp.version} \in SUBSET Version /\ pool \cup {disp.version} # {}
        BY <1>4 DEF TypeOK
      <4>2. d.version = Highest(pool \cup {disp.version})
        BY <1>4, <3>2 DEF Registered, TypeOK
      <4>3. /\ d.version \in Version
            /\ \A w \in pool \cup {disp.version} : w <= d.version
        <5> HIDE DEF d
        <5> QED BY <4>1, <4>2, HighestIs
      <4> HIDE DEF d
      <4> QED BY <1>4, <4>1, <4>3, PerunAssumption DEF AtLeast, Version
    <3> QED BY <3>1, <3>2
  <2>3. disp'.version = d.version
    <3>1. d \in [version : Version \cup {None}, left : Nat, concluded : BOOLEAN]
      BY RegisteredType DEF TypeOK
    <3> HIDE DEF d
    <3> QED BY <1>1, <3>1
  <2> HIDE DEF d
  <2>4. SUFFICES ASSUME ~lost PROVE AtLeast(disp'.version, covered')
    BY <2>1 DEF Guarded
  <2>5. CASE AtLeast(disp.version, covered)
    <3>1. AtLeast(d.version, covered)
      BY <2>2, <2>5, AtLeastTrans DEF TypeOK
    <3> QED BY <2>1, <2>3, <3>1
  <2>6. CASE /\ disp.left >= 1 /\ towerUp
             /\ event \/ \E v \in pool : AtLeast(v, covered)
    <3>1. PICK v \in pool : AtLeast(v, covered)
      BY <1>1, <2>6
    <3>2. v <= d.version /\ v \in Version
      BY <2>2, <2>6 DEF TypeOK
    <3>3. AtLeast(d.version, covered)
      BY <2>2, <3>1, <3>2, PerunAssumption DEF AtLeast, Version, TypeOK
    <3> QED BY <2>1, <2>3, <3>3
  <2> QED BY <1>4, <2>4, <2>5, <2>6 DEF Guarded
<1> QED BY <1>2, <1>3, <1>4

\* Each action keeps the guard.
LEMMA GuardStep ==
  ASSUME Challenge >= 1, TypeInv, ItemsSound, GuardInv, [Next]_vars
  PROVE  GuardInv'
<1> USE DEF TypeInv
<1>0. Guarded /\ DownKnowsNothing /\ TypeOK'
  BY TypeStep DEF GuardInv
<1> SUFFICES Guarded'
  BY <1>0, DownStep DEF GuardInv
<1>1. ASSUME NEW m \in net, TowerApply(m) PROVE Guarded'
  <2>1. UNCHANGED <<towerUp, disp, pool, covered, lost>>
    BY <1>1 DEF TowerApply, ApplyState, ApplyStart, ApplyStartFails, ApplyUnknown, ApplyStop,
                chainVars, towerVars
  <2>2. CASE disp.concluded
    BY <1>0, <2>1, <2>2 DEF Guarded
  <2>3. CASE ~disp.concluded
    <3>1. AtLeast(seen', seen)
      BY <1>1, <2>3, ApplyKeeps DEF ItemsSound
    <3>2. AtLeast(seen, covered) => AtLeast(seen', covered)
      BY <1>0, <3>1, AtLeastTrans DEF TypeOK
    <3>3. event => event' \/ seen = None
      <4>1. m.item.kind # "stop"
        BY <2>3 DEF ItemsSound, SoundItem, Sound
      <4> QED BY <1>1, <4>1 DEF TowerApply, ApplyState, ApplyStart, ApplyStartFails,
                                ApplyUnknown, ApplyStop, towerVars
    <3>4. seen # None => seen' # None
      BY <3>1 DEF AtLeast
    <3> QED BY <1>0, <2>1, <3>2, <3>3, <3>4 DEF Guarded
  <2> QED BY <2>2, <2>3
<1>2. CASE Refute
  <2>1. UNCHANGED <<towerUp, seen, disp, covered, lost>> /\ event
    BY <1>2 DEF Refute, history
  <2>2. disp.version \in Version /\ seen \in Version
    BY <2>1 DEF Subscribed, TypeOK
  <2>3. CASE disp.version < seen
    <3>1. seen \in pool'
      BY <1>2, <2>3 DEF Refute
    <3> QED BY <1>0, <2>1, <3>1 DEF Guarded
  <2>4. CASE ~(disp.version < seen)
    <3>1. AtLeast(seen, covered) => AtLeast(disp.version, covered)
      BY <2>2, <2>4, PerunAssumption DEF AtLeast, TypeOK, Version
    <3> QED BY <1>0, <2>1, <3>1 DEF Guarded
  <2> QED BY <2>3, <2>4
<1>3. CASE TowerCrash
  BY <1>3 DEF TowerCrash, Guarded
<1>4. CASE TowerRestart
  BY <1>0, <1>4 DEF TowerRestart, Guarded, chainVars, history
<1>5. CASE Block
  BY <1>0, <1>5, BlockGuards
<1>6. CASE Conclude
  <2>1. disp'.version = disp.version /\ disp.left = 0
    BY <1>6 DEF Conclude, TypeOK
  <2> QED BY <1>0, <1>6, <2>1 DEF Conclude, Guarded, towerVars, history
<1>7. ASSUME NEW v \in Version, Register(v) PROVE Guarded'
  BY <1>0, <1>7, GuardKept DEF Register, history
<1>8. CASE UNCHANGED <<towerVars, disp, pool, covered, lost>>
  BY <1>0, <1>8, GuardKept
<1> QED
  BY <1>1, <1>2, <1>3, <1>4, <1>5, <1>6, <1>7, <1>8
  DEF Next, LeafStep, SenderStep, CrashStep, ChainStep, Update, Publish, StartWatching,
      StartWatchingFails, StopWatching, Take, Send, RoundTripFails, LeafCrash, LeafRestart,
      vars, chainVars, history

\* With a challenge duration of at least one block, a channel concludes with
\* at least the version the tower held when the dispute began, unless the
\* tower died since.
THEOREM TowerAlwaysRefutes == Challenge >= 1 => (Spec => []TowerRefutes)
<1> SUFFICES ASSUME Challenge >= 1 PROVE Spec => []TowerRefutes
  OBVIOUS
<1>1. Init => GuardInv
  BY DEF Init, GuardInv, Guarded, DownKnowsNothing, NoDispute
<1>2. TypeInv /\ FeedInv /\ GuardInv /\ [Next]_vars => GuardInv'
  BY GuardStep DEF FeedInv
<1>3. TypeInv /\ GuardInv => TowerRefutes
  <2> SUFFICES ASSUME TypeInv, GuardInv, disp.concluded, ~lost
               PROVE  AtLeast(disp.version, covered)
    BY DEF TowerRefutes
  <2>1. disp.version # None
    BY DEF TypeInv, Opened
  <2> QED BY <2>1 DEF GuardInv, Guarded
<1> QED BY <1>1, <1>2, <1>3, TypeInvariant, FeedInvariant, PTL DEF Spec
=============================================================================
