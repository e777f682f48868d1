----------------------------- MODULE PerunTower -----------------------------
(***************************************************************************)
(* The watchtower of the Ethereum arm and the leaves that feed it          *)
(* (ethereum-mvp/perunpay/tower.go), for one channel.                      *)
(*                                                                         *)
(* A state is its version.  Each leaf's teeWatcher puts every state on a   *)
(* bounded queue; a sender goroutine delivers the items in order, one TCP  *)
(* connection each, and repeats an item until some answer arrives.  The    *)
(* tower applies the messages of both leaves under one mutex and keeps     *)
(* what it knows in memory only.                                           *)
(*                                                                         *)
(* go-perun (its client, its local watcher) and the Adjudicator contract   *)
(* are not part of the repository; they appear as tower.go and node.go use *)
(* them and as ethereum-mvp/README.md and RESULTS.md describe them: the    *)
(* contract takes a newer version until a time-out that the first          *)
(* registration fixes, and the tower's subscription delivers an event      *)
(* before the next block.                                                  *)
(***************************************************************************)
EXTENDS Naturals, Sequences, FiniteSets

CONSTANTS Leaf,        \* the parties of the channel that feed the tower
          MaxVersion,  \* bound: the newest version ever signed
          QueueCap,    \* items a leaf's queue holds (1024 in tower.go)
          MaxNet,      \* bound: requests on their way to the tower
          Challenge,   \* challenge duration, in blocks that take a newer version
          Faults,      \* "tower" and "leaf" may die, a leaf may come back with a
                       \* "stale" database, the "chain" may be out of reach, a
                       \* party may open a "dispute"
          None         \* no version, no item, nobody

Version == 0..MaxVersion

Item == [kind : {"start", "update", "stop"}, version : Version]

ASSUME PerunAssumption == /\ None \notin Version \cup Item \cup Leaf
                          /\ MaxVersion \in Nat /\ QueueCap \in Nat
                          /\ Challenge \in Nat

VARIABLES
  newest,                \* version of the newest state both parties signed
  up, have, watch,       \* leaf: running, its newest state, its local watcher
  queue, cur,            \* leaf: queue[id], the item its sender delivers
  net,                   \* requests the tower has not handled yet
  towerUp, seen, event,  \* tower: running, seen[id] and pubs[id], an event to come
  disp, pool,            \* Adjudicator: the dispute, register calls for the next block
  oked, covered, lost,   \* history: versions answered OK, what the tower held
                         \* when the dispute began, the tower died since
  gap                    \* history: a message was dropped or the tower died

leafVars == <<up, have, watch, queue, cur>>
towerVars == <<towerUp, seen, event>>
chainVars == <<disp, pool>>
history == <<oked, covered, lost, gap>>
vars == <<newest, leafVars, net, towerVars, chainVars, history>>

Request == [item : Item, from : Leaf \cup {None}]

NoDispute == [version |-> None, left |-> 0, concluded |-> FALSE]

TypeOK ==
  /\ newest \in Version
  /\ up \in [Leaf -> BOOLEAN]
  /\ have \in [Leaf -> Version]
  /\ watch \in [Leaf -> {"pending", "on", "off"}]
  /\ queue \in [Leaf -> Seq(Item)]
  /\ \A l \in Leaf : Len(queue[l]) <= QueueCap
  /\ cur \in [Leaf -> Item \cup {None}]
  /\ net \subseteq Request
  /\ towerUp \in BOOLEAN /\ event \in BOOLEAN
  /\ seen \in Version \cup {None}
  /\ disp \in [version : Version \cup {None}, left : Nat, concluded : BOOLEAN]
  /\ pool \subseteq Version
  /\ oked \in [Leaf -> Version \cup {None}]
  /\ covered \in Version \cup {None}
  /\ lost \in BOOLEAN /\ gap \in BOOLEAN

\* A funded channel (ProposeChannel and HandleProposal have returned); the
\* goroutines of onNewChannel are about to call Watch.
Init ==
  /\ newest = 0
  /\ up = [l \in Leaf |-> TRUE] /\ have = [l \in Leaf |-> 0]
  /\ watch = [l \in Leaf |-> "pending"]
  /\ queue = [l \in Leaf |-> <<>>] /\ cur = [l \in Leaf |-> None]
  /\ net = {}
  /\ towerUp = TRUE /\ seen = None /\ event = FALSE
  /\ disp = NoDispute /\ pool = {}
  /\ oked = [l \in Leaf |-> None] /\ covered = None /\ lost = FALSE /\ gap = FALSE

\* Versions ordered, with None below all.
AtLeast(a, b) == b = None \/ (a # None /\ a >= b)

-----------------------------------------------------------------------------
(* Leaf: what go-perun calls on the teeWatcher.                            *)

\* A full queue drops the new item.
Enqueue(l, kind, v) ==
  IF Len(queue[l]) < QueueCap
  THEN queue' = [queue EXCEPT ![l] = Append(@, [kind |-> kind, version |-> v])] /\ UNCHANGED gap
  ELSE UNCHANGED queue /\ gap' = TRUE

\* pay and HandleUpdate: the parties sign the next state.
Update ==
  /\ newest < MaxVersion
  /\ ~disp.concluded
  /\ \A l \in Leaf : up[l] /\ have[l] = newest
  /\ newest' = newest + 1
  /\ UNCHANGED <<leafVars, net, towerVars, chainVars, history>>

\* The client of leaf l takes over the signed state and, if it is watching,
\* publishes it.
Publish(l) ==
  /\ up[l]
  /\ have[l] < newest
  /\ have' = [have EXCEPT ![l] = newest]
  /\ IF watch[l] = "on" THEN Enqueue(l, "update", newest) ELSE UNCHANGED <<queue, gap>>
  /\ UNCHANGED <<newest, up, watch, cur, net, towerVars, chainVars, oked, covered, lost>>

\* mutant: the tower is told the state the channel was opened with
StartWatchingInitial(l) ==
  /\ up[l]
  /\ watch[l] = "pending"
  /\ watch' = [watch EXCEPT ![l] = "on"]
  /\ Enqueue(l, "start", 0)
  /\ UNCHANGED <<newest, up, have, cur, net, towerVars, chainVars, oked, covered, lost>>

\* Watch of a new or restored channel: the local watcher subscribes and the
\* tower is told.
StartWatching(l) ==
  /\ up[l]
  /\ watch[l] = "pending"
  /\ watch' = [watch EXCEPT ![l] = "on"]
  /\ Enqueue(l, "start", have[l])
  /\ UNCHANGED <<newest, up, have, cur, net, towerVars, chainVars, oked, covered, lost>>

\* The local watcher cannot subscribe: the error is logged, Watch is not
\* called again and the tower hears nothing.
StartWatchingFails(l) ==
  /\ "chain" \in Faults
  /\ up[l]
  /\ watch[l] = "pending"
  /\ watch' = [watch EXCEPT ![l] = "off"]
  /\ UNCHANGED <<newest, up, have, queue, cur, net, towerVars, chainVars, history>>

\* The leaf has settled: the channel is concluded.
StopWatching(l) ==
  /\ up[l]
  /\ watch[l] = "on"
  /\ disp.concluded
  /\ watch' = [watch EXCEPT ![l] = "off"]
  /\ Enqueue(l, "stop", have[l])
  /\ UNCHANGED <<newest, up, have, cur, net, towerVars, chainVars, oked, covered, lost>>

-----------------------------------------------------------------------------
(* Leaf: sender and towerRoundTrip.                                        *)

Take(l) ==
  /\ cur[l] = None
  /\ queue[l] # <<>>
  /\ cur' = [cur EXCEPT ![l] = Head(queue[l])]
  /\ queue' = [queue EXCEPT ![l] = Tail(@)]
  /\ UNCHANGED <<newest, up, have, watch, net, towerVars, chainVars, history>>

InFlight(l) == \E m \in net : m.from = l

\* A tower that is down refuses the connection, which is a failed attempt.
Send(l) ==
  /\ cur[l] # None
  /\ ~InFlight(l)
  /\ towerUp
  /\ Cardinality(net) < MaxNet
  /\ net' = net \cup {[item |-> cur[l], from |-> l]}
  /\ UNCHANGED <<newest, leafVars, towerVars, chainVars, history>>

Orphaned(l) == {[m EXCEPT !.from = IF @ = l THEN None ELSE @] : m \in net}

\* mutant: an item that could not be delivered is given up
RoundTripFailsForGood(l) ==
  /\ InFlight(l)
  /\ net' = Orphaned(l)
  /\ cur' = [cur EXCEPT ![l] = None]
  /\ UNCHANGED <<newest, up, have, watch, queue, towerVars, chainVars, history>>

\* No answer in time, or a lost one: the item is tried again, while the tower
\* may still handle the first copy.
RoundTripFails(l) ==
  /\ InFlight(l)
  /\ net' = Orphaned(l)
  /\ UNCHANGED <<newest, leafVars, towerVars, chainVars, history>>

-----------------------------------------------------------------------------
(* Tower: handle and apply, under t.mu.                                    *)

\* The answer, OK or ERR, makes the sender go on to its next item.
Answer(m, ok) ==
  /\ net' = net \ {m}
  /\ cur' = IF m.from = None THEN cur ELSE [cur EXCEPT ![m.from] = None]
  /\ oked' = IF ok /\ m.from # None /\ m.item.kind # "stop" /\ ~AtLeast(oked[m.from], m.item.version)
             THEN [oked EXCEPT ![m.from] = m.item.version] ELSE oked
  /\ gap' = (gap \/ ~ok)

\* mutant: the last message wins
NewerSeenLast(v) == v

\* mutant: the version that comes next is expected
NewerSeenNext(v) == IF v < seen THEN seen ELSE v + 1

\* publish: an older state is ignored, any other goes to the watcher.
NewerSeen(v) == IF v < seen THEN seen ELSE v

\* start for a channel the tower already watches (the other leaf, a restarted
\* leaf or a repeated message), or an update.
ApplyState(m) ==
  /\ m.item.kind \in {"start", "update"}
  /\ seen # None
  /\ seen' = NewerSeen(m.item.version)
  /\ Answer(m, TRUE)
  /\ UNCHANGED <<newest, up, have, watch, queue, towerUp, event, chainVars, covered, lost>>

\* start for a new channel.  The subscription also delivers the registration
\* of a dispute that is already there.
ApplyStart(m) ==
  /\ m.item.kind = "start"
  /\ seen = None
  /\ seen' = m.item.version
  /\ event' = (disp.version # None)
  /\ Answer(m, TRUE)
  /\ UNCHANGED <<newest, up, have, watch, queue, towerUp, chainVars, covered, lost>>

\* StartWatchingLedgerChannel of the local watcher fails.
ApplyStartFails(m) ==
  /\ "chain" \in Faults
  /\ m.item.kind = "start"
  /\ seen = None
  /\ Answer(m, FALSE)
  /\ UNCHANGED <<newest, up, have, watch, queue, towerVars, chainVars, covered, lost>>

\* "unknown channel, send a start message first"
ApplyUnknown(m) ==
  /\ m.item.kind = "update"
  /\ seen = None
  /\ Answer(m, FALSE)
  /\ UNCHANGED <<newest, up, have, watch, queue, towerVars, chainVars, covered, lost>>

ApplyStop(m) ==
  /\ m.item.kind = "stop"
  /\ seen' = None /\ event' = FALSE
  /\ Answer(m, TRUE)
  /\ UNCHANGED <<newest, up, have, watch, queue, towerUp, chainVars, covered, lost>>

\* The local watcher gets a RegisteredEvent: it registers the newest state it
\* was given if the registered one is older.
Refute ==
  /\ towerUp /\ event
  /\ event' = FALSE
  /\ pool' = IF disp.version < seen THEN pool \cup {seen} ELSE pool
  /\ UNCHANGED <<newest, leafVars, net, towerUp, seen, disp, history>>

\* The tower keeps nothing on disk.
TowerCrash ==
  /\ "tower" \in Faults /\ towerUp
  /\ towerUp' = FALSE /\ seen' = None /\ event' = FALSE
  /\ net' = {}
  /\ oked' = [l \in Leaf |-> None]
  /\ lost' = TRUE /\ gap' = TRUE
  /\ UNCHANGED <<newest, leafVars, chainVars, covered>>

TowerRestart ==
  /\ ~towerUp
  /\ towerUp' = TRUE
  /\ UNCHANGED <<newest, leafVars, net, seen, event, chainVars, history>>

-----------------------------------------------------------------------------
(* A leaf dies and comes back: its queue is gone, its database is there,   *)
(* or an older copy of it (04-cheat-test.sh).                              *)

LeafCrash(l) ==
  /\ "leaf" \in Faults /\ up[l]
  /\ up' = [up EXCEPT ![l] = FALSE]
  /\ watch' = [watch EXCEPT ![l] = "off"]
  /\ queue' = [queue EXCEPT ![l] = <<>>]
  /\ cur' = [cur EXCEPT ![l] = None]
  /\ net' = Orphaned(l)
  /\ UNCHANGED <<newest, have, towerVars, chainVars, history>>

LeafRestart(l) ==
  /\ ~up[l]
  /\ up' = [up EXCEPT ![l] = TRUE]
  /\ watch' = [watch EXCEPT ![l] = "pending"]
  /\ \E v \in Version : /\ v = have[l] \/ ("stale" \in Faults /\ v < have[l])
                        /\ have' = [have EXCEPT ![l] = v]
  /\ UNCHANGED <<newest, queue, cur, net, towerVars, chainVars, history>>

-----------------------------------------------------------------------------
(* The Adjudicator.                                                        *)

\* A party registers a state it has a copy of: forceclose with the newest or
\* an old one, or a refutation by its own watcher.
Register(v) ==
  /\ "dispute" \in Faults
  /\ v <= newest
  /\ ~disp.concluded
  /\ pool' = pool \cup {v}
  /\ UNCHANGED <<newest, leafVars, net, towerVars, disp, history>>

Highest(S) == CHOOSE v \in S : \A w \in S : w <= v

\* A block: the first registration starts the dispute, a newer version
\* replaces an older one until the time-out.
Registered ==
  IF disp.version = None
  THEN [version |-> Highest(pool), left |-> Challenge, concluded |-> FALSE]
  ELSE [disp EXCEPT !.version = Highest(pool \cup {@})]

\* The block time passes; the tower has handled its events.
Block ==
  /\ towerUp => ~event
  /\ ~disp.concluded
  /\ LET open == disp.version = None \/ disp.left > 0
         d == IF open /\ pool # {} THEN Registered ELSE disp
     IN /\ disp' = IF disp.left > 0 THEN [d EXCEPT !.left = @ - 1] ELSE d
        /\ event' = (towerUp /\ seen # None /\ d.version # disp.version)
  /\ pool' = {}
  /\ IF disp.version = None /\ pool # {} THEN covered' = seen /\ lost' = FALSE
     ELSE UNCHANGED <<covered, lost>>
  /\ UNCHANGED <<newest, leafVars, net, towerUp, seen, oked, gap>>

\* The time-out has passed and somebody concludes.
Conclude ==
  /\ disp.version # None /\ disp.left = 0 /\ ~disp.concluded
  /\ disp' = [disp EXCEPT !.concluded = TRUE]
  /\ UNCHANGED <<newest, leafVars, net, towerVars, pool, history>>

-----------------------------------------------------------------------------
LeafStep(l) == Publish(l) \/ StartWatching(l) \/ StartWatchingFails(l) \/ StopWatching(l)

SenderStep(l) == Take(l) \/ Send(l) \/ RoundTripFails(l)

TowerApply(m) ==
  towerUp /\ (ApplyState(m) \/ ApplyStart(m) \/ ApplyStartFails(m) \/ ApplyUnknown(m) \/ ApplyStop(m))

CrashStep == TowerCrash \/ TowerRestart \/ \E l \in Leaf : LeafCrash(l) \/ LeafRestart(l)

ChainStep == Block \/ Conclude \/ \E v \in Version : Register(v)

Next == \/ Update
        \/ \E l \in Leaf : LeafStep(l) \/ SenderStep(l)
        \/ \E m \in net : TowerApply(m)
        \/ Refute
        \/ CrashStep
        \/ ChainStep

Spec == Init /\ [][Next]_vars

\* The goroutines of a leaf run, the tower handles the requests that reached
\* it, and a sender that tries again and again gets an answer once.
Fairness ==
  \A l \in Leaf :
    /\ WF_vars(Publish(l)) /\ WF_vars(StartWatching(l)) /\ WF_vars(Take(l))
    /\ SF_vars(Send(l))
    /\ SF_vars(\E m \in net : m.from = l /\ TowerApply(m))
    /\ WF_vars(\E m \in net : m.from = None /\ TowerApply(m))

LiveSpec == Spec /\ Fairness

-----------------------------------------------------------------------------
(* Properties.                                                             *)

\* What the tower has answered OK to, it still holds: neither the other leaf,
\* nor a repeated or late copy of an old message, nor a leaf that comes back
\* with an old database takes the tower back (publish, tower.go).
OkedIsHeld == ~disp.concluded => \A l \in Leaf : AtLeast(seen, oked[l])

\* The tower refutes (tower.go: "it registers the newest state as soon as it
\* sees a registration with an older version"): a channel concludes with at
\* least the version the tower held when the dispute began, unless the tower
\* died since.
TowerRefutes == disp.concluded /\ ~lost => AtLeast(disp.version, covered)

\* A leaf that watches the newest state and has nothing left to deliver.
Drained(l) == /\ up[l] /\ watch[l] = "on" /\ have[l] = newest
              /\ queue[l] = <<>> /\ cur[l] = None

\* "so the tower ends up with the newest state once it is reachable again"
\* (sender, tower.go): when a leaf has delivered everything, the tower holds
\* the newest state.
DrainedIsNewest ==
  \A l \in Leaf : Drained(l) /\ towerUp /\ ~disp.concluded => seen = newest

\* What the retries of sender do achieve: the same, as long as no queue
\* overflowed, the tower rejected no message and has not been restarted;
\* failed connections, late copies and dying leaves do no harm.
FeedIsComplete == ~gap => DrainedIsNewest

\* The tower catches up with the newest state, however often a connection
\* fails and an answer is lost.
TowerEndsUpNewest == []<>(seen = newest \/ disp.concluded)
=============================================================================
